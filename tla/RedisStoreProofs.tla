--------------------------- MODULE RedisStoreProofs ---------------------------
(***************************************************************************)
(* Theorems about RedisStore, for any keys, callers, requests, lifetimes   *)
(* and bounds that satisfy StoreConstants.                                 *)
(*                                                                         *)
(* Everything rests on one fact: a step of the store commits one fresh     *)
(* operation to one key, or lets a second pass, or leaves Redis and the    *)
(* log alone (StepCases).  The invariants are then proved for those three  *)
(* kinds of steps and not action by action.  Those about what a client     *)
(* does with an entry it read, or about the values a key takes, look at    *)
(* who committed as well (KeyCases).                                       *)
(***************************************************************************)
EXTENDS RedisStore, ConflictResolutionProofs, FiniteSetTheorems

(* A commit by an operation the key does not remember, of the next version.*)
CommitStep ==
    \E k \in FullKeys, e \in Entry, ttl \in Nat, outcome \in {"written", "deleted"} :
        /\ ~Replayed(k, e.operationId)
        /\ e.version = CurrentVersion(k) + 1
        /\ (outcome = "deleted") = e.isDeleted
        /\ Commit(k, e, ttl, outcome)

Quiet == UNCHANGED <<now, stored, log>>

-----------------------------------------------------------------------------
(* An entry is not the absence of one, and is of a positive version.       *)
LEMMA EntryFacts ==
    ASSUME NEW e \in Entry
    PROVE  e # NoEntry /\ e.version \in Nat /\ e.version > 0
BY DEF Entry, NoEntry

LEMMA VersionIsNat ==
    ASSUME TypeOK, NEW k \in FullKeys
    PROVE  /\ CurrentVersion(k) \in Nat
           /\ Exists(k) => ctx[k] \in Entry
           /\ Live(ctx[k]) => Exists(k)
<1>1. ctx[k] \in Entry \cup {NoEntry}
  BY DEF TypeOK
<1>2. NoEntry.version = 0
  BY DEF NoEntry
<1>3. QED
  BY <1>1, <1>2, EntryFacts DEF CurrentVersion, Exists, Live

(* Callers' requests are of their types.                                   *)
LEMMA RequestTypes ==
    ASSUME TypeOK, NEW k \in FullKeys
    PROVE  /\ Writes(k) \subseteq WriteRequest
           /\ Appends(k) \subseteq AppendRequest
           /\ Increments(k) \subseteq IncrementRequest
           /\ DeleteExpects(k) \subseteq Nat \cup {None}
<1>1. workload[k] \in Workload
  BY StoreConstants DEF TypeOK
<1>2. QED
  BY <1>1 DEF Workload, Writes, Appends, Increments, DeleteExpects

(* What a script commits: an entry of the store's type, of the next        *)
(* version, by an operation the key does not remember.                     *)
Commits(k, e, ttl, outcome) ==
    /\ e \in Entry /\ ttl \in Nat /\ outcome \in {"written", "deleted"}
    /\ ~Replayed(k, e.operationId)
    /\ e.version = CurrentVersion(k) + 1
    /\ (outcome = "deleted") = e.isDeleted
    /\ Commit(k, e, ttl, outcome)

(* The write script, for any request whose fields are of their types.      *)
LEMMA WriteCommits ==
    ASSUME TypeOK, NEW k \in FullKeys, NEW op \in OperationIds, NEW r,
           NEW at \in Nat,
           r.value \in Value, r.confidence \in Confidences,
           r.ttlSeconds \in Nat, r.isDeleted \in BOOLEAN,
           WriteScript(k, op, r, at)
    PROVE  /\ Decision(k, r) \in {"written", "deleted"}
           /\ \E e \in Entry, outcome \in {"written", "deleted"} :
                 /\ Commits(k, e, r.ttlSeconds, outcome)
                 /\ e.value = LuaResolve(ctx[k], r, CasGiven(r)).value
                 /\ e.confidence = r.confidence /\ e.ttlSeconds = r.ttlSeconds
                 /\ e.isDeleted = r.isDeleted /\ e.operationId = op
<1> DEFINE c == CasGiven(r)
           e == [version     |-> CurrentVersion(k) + 1,
                 value       |-> LuaResolve(ctx[k], r, c).value,
                 confidence  |-> r.confidence,
                 ttlSeconds  |-> r.ttlSeconds,
                 writtenAt   |-> at,
                 isDeleted   |-> r.isDeleted,
                 operationId |-> op]
           outcome == WriteOutcome(k, op, r)
<1>1. Live(ctx[k]) => ctx[k].value \in Value
  BY VersionIsNat DEF Entry
<1>2. LuaResolve(ctx[k], r, c).value \in Value
  <2>1. c \in BOOLEAN
    BY DEF CasGiven
  <2> HIDE DEF c
  <2>2. QED
    BY <1>1, <2>1, LuaResolveType
<1>3. e \in Entry
  BY <1>2, VersionIsNat DEF Entry
<1>4. outcome \in {"written", "deleted"} /\ Commit(k, e, r.ttlSeconds, outcome)
  BY DEF WriteScript
<1>5. /\ ~Replayed(k, op) /\ (outcome = "deleted") = r.isDeleted
      /\ Decision(k, r) \in {"written", "deleted"}
  BY <1>4 DEF WriteOutcome, Decision
<1>6. /\ e.version = CurrentVersion(k) + 1 /\ e.value = LuaResolve(ctx[k], r, c).value
      /\ e.confidence = r.confidence /\ e.ttlSeconds = r.ttlSeconds
      /\ e.isDeleted = r.isDeleted /\ e.operationId = op
  OBVIOUS
<1>7. QED
  <2> HIDE DEF e, outcome
  <2>1. Commits(k, e, r.ttlSeconds, outcome)
    BY <1>3, <1>4, <1>5, <1>6 DEF Commits
  <2>2. QED
    BY <1>3, <1>4, <1>5, <1>6, <2>1

LEMMA AppendCommits ==
    ASSUME TypeOK, NEW k \in FullKeys, NEW op \in OperationIds, NEW r \in Appends(k),
           AppendTo(k, op, r)
    PROVE  /\ Exists(k) => LuaIsArray(ctx[k].value)
           /\ \E e \in Entry :
                 /\ Commits(k, e, r.ttlSeconds, "written")
                 /\ e.value = AppendItems(IF Exists(k) THEN ctx[k].value ELSE EmptyArray,
                                          <<op>>, r.maxItems)
                 /\ e.ttlSeconds = IF Exists(k) THEN ctx[k].ttlSeconds ELSE r.ttlSeconds
                 /\ ~e.isDeleted /\ e.operationId = op
<1> USE StoreConstants
<1> DEFINE b == IF Exists(k) THEN ctx[k] ELSE BaseEntry(EmptyArray, r.ttlSeconds)
           v == AppendItems(b.value, <<op>>, r.maxItems)
           e == Mutated(b, v, op)
<1>1. r.ttlSeconds \in Nat /\ r.maxItems \in Nat
  BY RequestTypes DEF AppendRequest
<1>2. /\ b.version = CurrentVersion(k) /\ b.version \in Nat
      /\ b.confidence \in Confidences /\ b.ttlSeconds \in Nat
      /\ b.value \in Value /\ LuaIsArray(b.value)
  <2>1. CASE Exists(k)
    BY <2>1, VersionIsNat DEF Entry, AppendTo, AppendOutcome, CurrentVersion
  <2>2. CASE ~Exists(k)
    <3>1. EmptyArray \in Value /\ LuaIsArray(EmptyArray)
      <4>1. << >> \in Seq(Items)
        OBVIOUS
      <4>2. <<"array", << >>>> \in Array
        BY <4>1 DEF Array
      <4>3. QED
        BY <4>2 DEF EmptyArray, Value, LuaIsArray
    <3>2. QED
      BY <1>1, <2>2, <3>1
         DEF BaseEntry, Exists, NoEntry, CurrentVersion, Confidences, Full
  <2>3. QED
    BY <2>1, <2>2
<1>3. v \in Value
  <2>1. <<op>> \in Seq(Items)
    OBVIOUS
  <2>2. QED
    BY <1>1, <1>2, <2>1, AppendItemsType
<1>4. e \in Entry /\ e.version = CurrentVersion(k) + 1
      /\ e.operationId = op /\ e.isDeleted = FALSE
  <2> HIDE DEF v, b
  <2>1. now \in Nat
    BY DEF TypeOK
  <2>2. QED
    BY <1>2, <1>3, <2>1 DEF Mutated, Entry
<1>5. ~Replayed(k, op)
  BY DEF AppendTo, AppendOutcome
<1>6. Commit(k, e, r.ttlSeconds, "written")
  BY DEF AppendTo
<1>7. e.value = v /\ e.ttlSeconds = b.ttlSeconds /\ ~e.isDeleted
  <2> HIDE DEF v, b
  <2>1. QED
    BY DEF Mutated
<1>8. Commits(k, e, r.ttlSeconds, "written")
  <2> HIDE DEF e
  <2>1. QED
    BY <1>1, <1>4, <1>5, <1>6 DEF Commits
<1>9. /\ b.value = IF Exists(k) THEN ctx[k].value ELSE EmptyArray
      /\ b.ttlSeconds = IF Exists(k) THEN ctx[k].ttlSeconds ELSE r.ttlSeconds
  BY DEF BaseEntry
<1>10. Exists(k) => LuaIsArray(ctx[k].value)
  BY DEF AppendTo, AppendOutcome
<1>11. QED
  <2> HIDE DEF e, b
  <2>1. QED
    BY <1>4, <1>7, <1>8, <1>9, <1>10

LEMMA IncrementCommits ==
    ASSUME TypeOK, NEW k \in FullKeys, NEW op \in OperationIds, NEW r \in Increments(k),
           Increment(k, op, r)
    PROVE  /\ Exists(k) => LuaIsNumeric(ctx[k].value)
           /\ \E e \in Entry :
                 /\ Commits(k, e, r.ttlSeconds, "written")
                 /\ e.value = AddTo(IF Exists(k) THEN ctx[k].value ELSE <<"number", 0>>, r.by)
                 /\ e.ttlSeconds = IF Exists(k) THEN ctx[k].ttlSeconds ELSE r.ttlSeconds
                 /\ ~e.isDeleted /\ e.operationId = op
<1> USE StoreConstants
<1> DEFINE b == IF Exists(k) THEN ctx[k] ELSE BaseEntry(<<"number", 0>>, r.ttlSeconds)
           v == AddTo(b.value, r.by)
           e == Mutated(b, v, op)
<1>1. r.ttlSeconds \in Nat /\ r.by \in Int
  BY RequestTypes DEF IncrementRequest
<1>2. /\ b.version = CurrentVersion(k) /\ b.version \in Nat
      /\ b.confidence \in Confidences /\ b.ttlSeconds \in Nat
      /\ b.value \in Value
  <2>1. CASE Exists(k)
    BY <2>1, VersionIsNat DEF Entry, CurrentVersion
  <2>2. CASE ~Exists(k)
    <3>1. <<"number", 0>> \in Value
      BY DEF Value, Number
    <3>2. QED
      BY <1>1, <2>2, <3>1
         DEF BaseEntry, Exists, NoEntry, CurrentVersion, Confidences, Full
  <2>3. QED
    BY <2>1, <2>2
<1>3. v \in Value
  BY <1>1, <1>2, AddToType
<1>4. e \in Entry /\ e.version = CurrentVersion(k) + 1
      /\ e.operationId = op /\ e.isDeleted = FALSE
  <2> HIDE DEF v, b
  <2>1. now \in Nat
    BY DEF TypeOK
  <2>2. QED
    BY <1>2, <1>3, <2>1 DEF Mutated, Entry
<1>5. ~Replayed(k, op)
  BY DEF Increment, IncrementOutcome
<1>6. Commit(k, e, r.ttlSeconds, "written")
  BY DEF Increment
<1>7. e.value = v /\ e.ttlSeconds = b.ttlSeconds /\ ~e.isDeleted
  <2> HIDE DEF v, b
  <2>1. QED
    BY DEF Mutated
<1>8. Commits(k, e, r.ttlSeconds, "written")
  <2> HIDE DEF e
  <2>1. QED
    BY <1>1, <1>4, <1>5, <1>6 DEF Commits
<1>9. /\ b.value = IF Exists(k) THEN ctx[k].value ELSE <<"number", 0>>
      /\ b.ttlSeconds = IF Exists(k) THEN ctx[k].ttlSeconds ELSE r.ttlSeconds
  BY DEF BaseEntry
<1>10. Exists(k) => LuaIsNumeric(ctx[k].value)
  BY DEF Increment, IncrementOutcome
<1>11. QED
  <2> HIDE DEF e, b
  <2>1. QED
    BY <1>4, <1>7, <1>8, <1>9, <1>10

(* A compare-and-set that commits writes a number without a TTL.           *)
LEMMA CasCommits ==
    ASSUME TypeOK, NEW k \in FullKeys, NEW op \in OperationIds, NEW seen \in Entry \cup {NoEntry},
           WriteScript(k, op, CasRequest(seen), now)
    PROVE  /\ Decision(k, CasRequest(seen)) \in {"written", "deleted"}
           /\ \E e \in Entry, outcome \in {"written", "deleted"} :
                 /\ Commits(k, e, 0, outcome)
                 /\ e.value = CasRequest(seen).value /\ e.ttlSeconds = 0
                 /\ ~e.isDeleted /\ e.operationId = op
<1> DEFINE r == CasRequest(seen)
<1>1. now \in Nat
  BY DEF TypeOK
<1>2. r.value \in Value
  <2>1. CASE seen = NoEntry
    BY <2>1 DEF CasRequest, Value, Number
  <2>2. CASE seen # NoEntry
    BY <2>2, AddToType DEF CasRequest, Entry
  <2>3. QED
    BY <2>1, <2>2
<1>3. /\ r.confidence \in Confidences /\ r.ttlSeconds \in Nat /\ r.isDeleted \in BOOLEAN
      /\ r.ttlSeconds = 0 /\ ~r.isDeleted /\ r.strategy = "lww"
  BY DEF CasRequest, Confidences, Full
<1> HIDE DEF r
<1>4. /\ Decision(k, r) \in {"written", "deleted"}
      /\ \E e \in Entry, outcome \in {"written", "deleted"} :
            /\ Commits(k, e, r.ttlSeconds, outcome)
            /\ e.value = LuaResolve(ctx[k], r, CasGiven(r)).value
            /\ e.confidence = r.confidence /\ e.ttlSeconds = r.ttlSeconds
            /\ e.isDeleted = r.isDeleted /\ e.operationId = op
  <2>1. WriteScript(k, op, r, now)
    BY DEF r
  <2>2. QED
    BY <1>1, <1>2, <1>3, <2>1, WriteCommits
<1>5. LuaResolve(ctx[k], r, CasGiven(r)).value = r.value
  BY <1>3 DEF LuaResolve, IncomingWins
<1>6. QED
  BY <1>3, <1>4, <1>5 DEF r

(* Every step commits one fresh operation, ticks, touches neither Redis    *)
(* nor the log nor the index, or is the end of a list.                     *)
LEMMA NextCases ==
    ASSUME TypeOK, [Next]_vars
    PROVE  \/ CommitStep
           \/ Tick
           \/ Quiet /\ UNCHANGED keys
           \/ \E l \in Listers : ListReturn(l)
<1> USE StoreConstants
<1>1. ASSUME NEW k \in FullKeys, NEW op \in OperationIds, NEW r \in Writes(k),
             Write(k, op, r)
      PROVE  CommitStep
  <2>1. r \in WriteRequest
    BY RequestTypes
  <2>2. now \in Nat
    BY DEF TypeOK
  <2>3. WriteScript(k, op, Candidate(r), now)
    BY <1>1 DEF Write
  <2>4. /\ Candidate(r).value \in Value
        /\ Candidate(r).confidence \in Confidences
        /\ Candidate(r).ttlSeconds \in Nat
        /\ Candidate(r).isDeleted \in BOOLEAN
    BY <2>1 DEF Candidate, WriteRequest
  <2>5. QED
    BY <2>2, <2>3, <2>4, WriteCommits DEF Commits, CommitStep
<1>2. ASSUME NEW k \in FullKeys, NEW op \in OperationIds, NEW r \in Appends(k),
             AppendTo(k, op, r)
      PROVE  CommitStep
  BY <1>2, AppendCommits DEF Commits, CommitStep
<1>3. ASSUME NEW k \in FullKeys, NEW op \in OperationIds, NEW r \in Increments(k),
             Increment(k, op, r)
      PROVE  CommitStep
  BY <1>3, IncrementCommits DEF Commits, CommitStep
<1>4. ASSUME NEW d \in Deleters, DeleteWrite(d)
      PROVE  CommitStep \/ (Quiet /\ UNCHANGED keys)
  <2> DEFINE del == deleting[d]
  <2>1. /\ del.key \in FullKeys /\ del.operationId \in OperationIds
        /\ del.seen \in Entry /\ del.at \in Nat
    BY <1>4 DEF DeleteWrite, TypeOK, InDelete
  <2>2. /\ Tombstone(del).value \in Value
        /\ Tombstone(del).confidence \in Confidences
        /\ Tombstone(del).ttlSeconds \in Nat
        /\ Tombstone(del).isDeleted \in BOOLEAN
    BY <2>1 DEF Tombstone, Entry
  <2>3. ASSUME WriteScript(del.key, del.operationId, Tombstone(del), del.at)
        PROVE  CommitStep
    BY <2>1, <2>2, <2>3, WriteCommits DEF Commits, CommitStep
  <2>4. QED
    BY <1>4, <2>3 DEF DeleteWrite, Quiet
<1>5. ASSUME NEW c \in CasClients, NEW op \in OperationIds, CasWrite(c, op)
      PROVE  CommitStep \/ (Quiet /\ UNCHANGED keys)
  <2>1. swapping[c].key \in FullKeys /\ swapping[c].seen \in Entry \cup {NoEntry}
    BY <1>5 DEF CasWrite, TypeOK, InCas
  <2>2. ASSUME WriteScript(swapping[c].key, op, CasRequest(swapping[c].seen), now)
        PROVE  CommitStep
    BY <2>1, <2>2, CasCommits DEF Commits, CommitStep
  <2>3. QED
    BY <1>5, <2>2 DEF CasWrite, Quiet
<1>6. QED
  BY <1>1, <1>2, <1>3, <1>4, <1>5
     DEF Next, Step, vars, Quiet, DeleteRead, ListStart, ListGet, CasRead

(* Seen from Redis, the end of a list is quiet too: it only trims the      *)
(* index.                                                                  *)
LEMMA StepCases ==
    ASSUME TypeOK, [Next]_vars
    PROVE  CommitStep \/ Tick \/ Quiet
BY NextCases DEF ListReturn, Quiet

-----------------------------------------------------------------------------
(* Type correctness of the store: what Redis and the callers hold has the  *)
(* shape the schemas give it, in every reachable state.                    *)
THEOREM TypeCorrect == Spec => []TypeOK
<1> USE StoreConstants
<1>1. Init => TypeOK
  <2> SUFFICES ASSUME Init PROVE TypeOK
    OBVIOUS
  <2>1. [op \in OperationIds |-> NoResult]
           \in [OperationIds -> Result \cup {NoResult}]
    OBVIOUS
  <2>2. << >> \in Seq(LogRecord)
    OBVIOUS
  <2>3. QED
    BY <2>1, <2>2 DEF Init, TypeOK, NoExpiry
<1>2. TypeOK /\ [Next]_vars => TypeOK'
  <2> SUFFICES ASSUME TypeOK, [Next]_vars PROVE TypeOK'
    OBVIOUS
  <2>1. /\ now' \in Nat
        /\ ctx' \in [FullKeys -> Entry \cup {NoEntry}]
        /\ ctxExpiresAt' \in [FullKeys -> Nat]
        /\ hist' \in [FullKeys -> SUBSET Entry]
        /\ histExpiresAt' \in [FullKeys -> Nat]
        /\ ops' \in [FullKeys -> [OperationIds -> Result \cup {NoResult}]]
        /\ opsExpiresAt' \in [FullKeys -> Nat]
        /\ log' \in [FullKeys -> Seq(LogRecord)]
    <3>1. CASE CommitStep
      <4>1. PICK k \in FullKeys, e \in Entry, ttl \in Nat,
                 outcome \in {"written", "deleted"} : Commit(k, e, ttl, outcome)
        BY <3>1 DEF CommitStep
      <4>2. e.operationId \in OperationIds
        BY DEF Entry
      <4>3. [outcome |-> outcome, entry |-> e] \in Result
        BY DEF Result
      <4>4. ops' \in [FullKeys -> [OperationIds -> Result \cup {NoResult}]]
        BY <4>1, <4>2, <4>3 DEF Commit, Recorded, TypeOK
      <4>5. log' \in [FullKeys -> Seq(LogRecord)]
        <5>1. [entry |-> e, at |-> now] \in LogRecord
          BY DEF TypeOK, LogRecord
        <5>2. log[k] \in Seq(LogRecord)
          BY DEF TypeOK
        <5>3. Append(log[k], [entry |-> e, at |-> now])
                \in Seq(LogRecord)
          BY <5>1, <5>2
        <5>4. log' = [log EXCEPT ![k] = Append(@, [entry |-> e, at |-> now])]
          BY <4>1 DEF Commit
        <5>5. QED
          BY <5>3, <5>4 DEF TypeOK
      <4>6. hist' \in [FullKeys -> SUBSET Entry]
        BY <4>1 DEF Commit, TypeOK
      <4>7. /\ now' \in Nat
            /\ ctx' \in [FullKeys -> Entry \cup {NoEntry}]
            /\ ctxExpiresAt' \in [FullKeys -> Nat]
            /\ histExpiresAt' \in [FullKeys -> Nat]
            /\ opsExpiresAt' \in [FullKeys -> Nat]
        BY <4>1 DEF Commit, Expire, TypeOK, NoExpiry
      <4>8. QED
        BY <4>4, <4>5, <4>6, <4>7
    <3>2. CASE Tick
      <4>1. /\ now' \in Nat
            /\ log' \in [FullKeys -> Seq(LogRecord)]
            /\ ctx' \in [FullKeys -> Entry \cup {NoEntry}]
        BY <3>2 DEF Tick, TypeOK
      <4>6. /\ ctxExpiresAt' \in [FullKeys -> Nat]
            /\ histExpiresAt' \in [FullKeys -> Nat]
            /\ opsExpiresAt' \in [FullKeys -> Nat]
        BY <3>2 DEF Tick, TypeOK, NoExpiry
      <4>2. hist' \in [FullKeys -> SUBSET Entry]
        BY <3>2 DEF Tick, TypeOK
      <4>3. [op \in OperationIds |-> NoResult]
               \in [OperationIds -> Result \cup {NoResult}]
        OBVIOUS
      <4>4. ops' \in [FullKeys -> [OperationIds -> Result \cup {NoResult}]]
        BY <3>2, <4>3 DEF Tick, TypeOK
      <4>5. QED
        BY <4>1, <4>2, <4>4, <4>6
    <3>3. CASE Quiet
      BY <3>3 DEF Quiet, stored, TypeOK
    <3>4. QED
      BY <3>1, <3>2, <3>3, StepCases
  <2>2. keys' \in SUBSET FullKeys
    <3>1. \/ keys' = keys
          \/ \E k \in FullKeys : keys' = keys \cup {k}
          \/ \E l \in Listers : keys' = keys \ listing[l].stale
      <4>1. ASSUME CommitStep PROVE \E k \in FullKeys : keys' = keys \cup {k}
        BY <4>1 DEF CommitStep, Commit
      <4>2. ASSUME Tick \/ UNCHANGED vars PROVE keys' = keys
        BY <4>2 DEF Tick, vars
      <4>3. ASSUME NEW l \in Listers, ListReturn(l)
            PROVE  keys' = keys \ listing[l].stale
        BY <4>3 DEF ListReturn
      <4>4. CommitStep \/ keys' = keys \/ \E l \in Listers : ListReturn(l)
        BY <4>2, NextCases
      <4>5. QED
        BY <4>1, <4>3, <4>4
    <3>2. QED
      BY <3>1 DEF TypeOK
  <2>3. deleting' \in [Deleters -> InDelete \cup {Idle}]
    <3>1. ASSUME NEW d \in Deleters, NEW k \in FullKeys, NEW op \in OperationIds,
                 NEW x \in DeleteExpects(k), DeleteRead(d, k, op, x)
          PROVE  deleting' \in [Deleters -> InDelete \cup {Idle}]
      <4>1. [step |-> "read", key |-> k, operationId |-> op,
             expectedVersion |-> x, seen |-> ctx[k], at |-> now] \in InDelete
        BY <3>1, VersionIsNat, RequestTypes DEF DeleteRead, Readable, TypeOK, InDelete
      <4>2. QED
        BY <3>1, <4>1 DEF DeleteRead, TypeOK
    <3>2. \/ deleting' = deleting
          \/ \E d \in Deleters : deleting' = [deleting EXCEPT ![d] = Idle]
          \/ \E d \in Deleters, k \in FullKeys, op \in OperationIds :
                \E x \in DeleteExpects(k) : DeleteRead(d, k, op, x)
      BY DEF Next, Step, vars, callers, Write, AppendTo, Increment, DeleteWrite,
             ListStart, ListGet, ListReturn, CasRead, CasWrite, Tick
    <3>3. QED
      BY <3>1, <3>2 DEF TypeOK
  <2>4. listing' \in [Listers -> InList \cup {Idle}]
    <3>1. ASSUME NEW l \in Listers, ListStart(l)
          PROVE  listing'[l] \in InList
      <4>1. [k \in FullKeys |-> Len(log[k])] \in [FullKeys -> Nat]
        BY DEF TypeOK
      <4>2. QED
        BY <3>1, <4>1 DEF ListStart, TypeOK, InList
    <3>2. ASSUME NEW l \in Listers, NEW k \in FullKeys, ListGet(l, k)
          PROVE  listing'[l] \in InList
      <4>1. Get(k) # NoEntry => Get(k) \in Entry
        BY VersionIsNat DEF Get, Readable
      <4>2. listing[l] \in InList
        BY <3>2 DEF ListGet, TypeOK
      <4> DEFINE before == listing[l]
                 found  == IF Get(k) # NoEntry
                           THEN before.found \cup {<<k, Get(k)>>} ELSE before.found
                 stale  == IF Get(k) = NoEntry
                           THEN before.stale \cup {k} ELSE before.stale
                 after  == [before EXCEPT !.todo = before.todo \ {k},
                                          !.found = found, !.stale = stale]
      <4>3. listing' = [listing EXCEPT ![l] = after]
        BY <3>2 DEF ListGet
      <4>4. found \in SUBSET (FullKeys \X Entry) /\ stale \in SUBSET FullKeys
        BY <4>1, <4>2 DEF InList
      <4>5. after \in InList
        <5> HIDE DEF found, stale
        <5> QED
          BY <4>2, <4>4 DEF InList
      <4>6. QED
        BY <4>3, <4>5 DEF TypeOK
    <3>3. \/ listing' = listing
          \/ \E l \in Listers : listing' = [listing EXCEPT ![l] = Idle]
          \/ \E l \in Listers : ListStart(l)
          \/ \E l \in Listers, k \in FullKeys : ListGet(l, k)
      BY DEF Next, Step, vars, callers, Write, AppendTo, Increment, DeleteRead,
             DeleteWrite, ListReturn, CasRead, CasWrite, Tick
    <3>4. ASSUME NEW l \in Listers,
                 ListStart(l) \/ \E k \in FullKeys : ListGet(l, k)
          PROVE  listing' = [listing EXCEPT ![l] = listing'[l]]
      BY <3>4 DEF ListStart, ListGet, TypeOK
    <3>5. listing \in [Listers -> InList \cup {Idle}]
      BY DEF TypeOK
    <3>6. ASSUME NEW l \in Listers, NEW new \in InList \cup {Idle},
                 listing' = [listing EXCEPT ![l] = new]
          PROVE  listing' \in [Listers -> InList \cup {Idle}]
      BY <3>5, <3>6
    <3>7. ASSUME NEW l \in Listers,
                 ListStart(l) \/ \E k \in FullKeys : ListGet(l, k)
          PROVE  listing' \in [Listers -> InList \cup {Idle}]
      <4>1. listing'[l] \in InList \cup {Idle}
        BY <3>1, <3>2, <3>7
      <4>2. QED
        BY <3>4, <3>6, <3>7, <4>1
    <3>8. QED
      BY <3>3, <3>5, <3>6, <3>7
  <2>5. swapping' \in [CasClients -> InCas \cup {Idle}]
    <3>1. ASSUME NEW c \in CasClients, NEW k \in FullKeys, CasRead(c, k)
          PROVE  [step |-> "read", key |-> k, seen |-> Get(k),
                  commits |-> Len(log[k])] \in InCas
      <4>1. Get(k) \in Entry \cup {NoEntry} /\ Len(log[k]) \in Nat
        BY VersionIsNat DEF Get, Readable, TypeOK
      <4>2. QED
        BY <4>1 DEF InCas
    <3>2. \/ swapping' = swapping
          \/ \E c \in CasClients : swapping' = [swapping EXCEPT ![c] = Idle]
          \/ \E c \in CasClients, k \in FullKeys : CasRead(c, k)
      BY DEF Next, Step, vars, callers, Write, AppendTo, Increment, DeleteRead,
             DeleteWrite, ListStart, ListGet, ListReturn, CasWrite, Tick
    <3>3. QED
      BY <3>1, <3>2 DEF TypeOK, CasRead
  <2>6. workload' \in [FullKeys -> Workloads]
    BY DEF Next, vars, TypeOK
  <2>7. QED
    BY <2>1, <2>2, <2>3, <2>4, <2>5, <2>6 DEF TypeOK
<1>3. QED
  BY <1>1, <1>2, PTL DEF Spec

-----------------------------------------------------------------------------
(* The effect of a commit on the log: one more record, at the end.         *)
LEMMA CommitLog ==
    ASSUME TypeOK, NEW k \in FullKeys, NEW e \in Entry, NEW ttl \in Nat,
           NEW outcome \in {"written", "deleted"}, Commit(k, e, ttl, outcome)
    PROVE  /\ now' = now /\ now \in Nat
           /\ Len(log[k]) \in Nat
           /\ DOMAIN log[k] = 1 .. Len(log[k])
           /\ DOMAIN log'[k] = 1 .. Len(log[k]) + 1
           /\ log'[k][Len(log[k]) + 1] = [entry |-> e, at |-> now]
           /\ \A i \in DOMAIN log[k] : log'[k][i] = log[k][i]
           /\ \A j \in FullKeys \ {k} : log'[j] = log[j]
<1>1. log[k] \in Seq(LogRecord) /\ now \in Nat /\ e \in Entry
  BY DEF TypeOK
<1>2. [entry |-> e, at |-> now] \in LogRecord
  BY <1>1 DEF LogRecord
<1>3. log' = [log EXCEPT ![k] = Append(log[k], [entry |-> e, at |-> now])]
      /\ now' = now
  BY DEF Commit
<1>4. log'[k] = Append(log[k], [entry |-> e, at |-> now])
  BY <1>3 DEF TypeOK
<1>5. \A j \in FullKeys \ {k} : log'[j] = log[j]
  BY <1>3 DEF TypeOK
<1>6. QED
  <2> DEFINE rec == [entry |-> e, at |-> now]
  <2> HIDE DEF rec
  <2> QED
    BY <1>1, <1>2, <1>3, <1>4, <1>5 DEF rec

(* The effect of a commit on what the key remembers.                       *)
LEMMA CommitOps ==
    ASSUME TypeOK, NEW k \in FullKeys, NEW e \in Entry, NEW ttl \in Nat,
           NEW outcome \in {"written", "deleted"}, Commit(k, e, ttl, outcome)
    PROVE  /\ e.operationId \in OperationIds
           /\ ops'[k][e.operationId] # NoResult
           /\ ops'[k][e.operationId].outcome = outcome
           /\ ops'[k][e.operationId].entry = e
           /\ \A op \in OperationIds \ {e.operationId} : ops'[k][op] = ops[k][op]
           /\ \A j \in FullKeys \ {k} : ops'[j] = ops[j]
<1>1. e.operationId \in OperationIds
  BY DEF Entry
<1>2. ops[k] \in [OperationIds -> Result \cup {NoResult}]
  BY DEF TypeOK
<1>3. ops' = [ops EXCEPT ![k][e.operationId] = [outcome |-> outcome, entry |-> e]]
  BY DEF Commit, Recorded
<1>4. [outcome |-> outcome, entry |-> e] # NoResult
  BY DEF NoResult
<1>5. QED
  BY <1>1, <1>2, <1>3, <1>4 DEF TypeOK

-----------------------------------------------------------------------------
(* Why an operation is applied once: the record of every commit younger    *)
(* than OpsTtl is still there, because each commit renews the lifetime of  *)
(* all the records of its key.                                             *)
Remembers ==
    \A k \in FullKeys : \A i \in DOMAIN log[k] :
        /\ log[k][i].at \in Nat
        /\ log[k][i].at <= now
        /\ now < log[k][i].at + OpsTtl =>
              /\ Replayed(k, log[k][i].entry.operationId)
              /\ opsExpiresAt[k] >= log[k][i].at + OpsTtl

LEMMA RemembersStep ==
    ASSUME TypeOK, Remembers, [Next]_vars
    PROVE  Remembers'
<1> USE StoreConstants
<1>1. CASE CommitStep
  <2>1. PICK k \in FullKeys, e \in Entry, ttl \in Nat,
             outcome \in {"written", "deleted"} : Commit(k, e, ttl, outcome)
    BY <1>1 DEF CommitStep
  <2>2. /\ now' = now /\ now \in Nat
        /\ Len(log[k]) \in Nat
        /\ DOMAIN log[k] = 1 .. Len(log[k])
        /\ DOMAIN log'[k] = 1 .. Len(log[k]) + 1
        /\ log'[k][Len(log[k]) + 1] = [entry |-> e, at |-> now]
        /\ \A i \in DOMAIN log[k] : log'[k][i] = log[k][i]
        /\ \A j \in FullKeys \ {k} : log'[j] = log[j]
    BY <2>1, CommitLog
  <2>3. /\ ops'[k][e.operationId] # NoResult
        /\ \A op \in OperationIds : ops[k][op] # NoResult => ops'[k][op] # NoResult
        /\ \A j \in FullKeys \ {k} : ops'[j] = ops[j]
    BY <2>1, CommitOps
  <2>4. opsExpiresAt'[k] = now + OpsTtl
        /\ \A j \in FullKeys \ {k} : opsExpiresAt'[j] = opsExpiresAt[j]
    BY <2>1 DEF Commit, Expire, TypeOK
  <2> SUFFICES ASSUME NEW j \in FullKeys, NEW i \in DOMAIN log'[j]
               PROVE  /\ log'[j][i].at \in Nat
                      /\ log'[j][i].at <= now'
                      /\ now' < log'[j][i].at + OpsTtl =>
                           /\ ops'[j][log'[j][i].entry.operationId] # NoResult
                           /\ opsExpiresAt'[j] >= log'[j][i].at + OpsTtl
    BY DEF Remembers, Replayed
  <2>5. CASE j # k
    BY <2>2, <2>3, <2>4, <2>5 DEF Remembers, Replayed
  <2>6. CASE j = k /\ i = Len(log[k]) + 1
    <3>1. log'[j][i].at = now /\ log'[j][i].entry = e
      BY <2>2, <2>6
    <3>2. QED
      BY <2>2, <2>3, <2>4, <2>6, <3>1
  <2>7. CASE j = k /\ i # Len(log[k]) + 1
    <3>1. i \in DOMAIN log[k] /\ log'[k][i] = log[k][i]
      BY <2>2, <2>7
    <3>2. log[k][i].entry.operationId \in OperationIds
      <4>1. log[k] \in Seq(LogRecord)
        BY DEF TypeOK
      <4>2. log[k][i] \in LogRecord
        BY <3>1, <4>1
      <4>3. QED
        BY <4>2 DEF LogRecord, Entry
    <3>3. /\ log[k][i].at \in Nat /\ log[k][i].at <= now
          /\ now < log[k][i].at + OpsTtl => ops[k][log[k][i].entry.operationId] # NoResult
      BY <3>1 DEF Remembers, Replayed
    <3>4. QED
      BY <2>2, <2>3, <2>4, <2>7, <3>1, <3>2, <3>3
  <2>8. QED
    BY <2>5, <2>6, <2>7
<1>2. CASE Tick
  <2>1. log' = log /\ now' = now + 1 /\ now \in Nat
    BY <1>2 DEF Tick, TypeOK
  <2> SUFFICES ASSUME NEW k \in FullKeys, NEW i \in DOMAIN log[k]
               PROVE  /\ log[k][i].at \in Nat
                      /\ log[k][i].at <= now'
                      /\ now' < log[k][i].at + OpsTtl =>
                           /\ ops'[k][log[k][i].entry.operationId] # NoResult
                           /\ opsExpiresAt'[k] >= log[k][i].at + OpsTtl
    BY <2>1 DEF Remembers, Replayed
  <2>2. log[k][i].at \in Nat /\ log[k][i].at <= now
    BY DEF Remembers
  <2>3. ASSUME now' < log[k][i].at + OpsTtl
        PROVE  /\ ops'[k][log[k][i].entry.operationId] # NoResult
               /\ opsExpiresAt'[k] >= log[k][i].at + OpsTtl
    <3>1. /\ ops[k][log[k][i].entry.operationId] # NoResult
          /\ opsExpiresAt[k] >= log[k][i].at + OpsTtl
      BY <2>1, <2>2, <2>3 DEF Remembers, Replayed
    <3>2. ~Due(opsExpiresAt[k])
      BY <2>1, <2>2, <2>3, <3>1 DEF Due, TypeOK
    <3>3. ops'[k] = ops[k] /\ opsExpiresAt'[k] = opsExpiresAt[k]
      BY <1>2, <3>2 DEF Tick
    <3>4. QED
      BY <3>1, <3>3
  <2>4. QED
    BY <2>1, <2>2, <2>3
<1>3. CASE Quiet
  BY <1>3 DEF Quiet, stored, Remembers, Replayed
<1>4. QED
  BY <1>1, <1>2, <1>3, StepCases

(* "Replaying the same operationId never creates a second version", for    *)
(* the lifetime of the operation record, however many callers retry.       *)
THEOREM AppliedOnce == Spec => []OncePerOpsTtl
<1> USE StoreConstants
<1>1. Init => Remembers /\ OncePerOpsTtl
  BY DEF Init, Remembers, OncePerOpsTtl
<1>2. TypeOK /\ Remembers /\ OncePerOpsTtl /\ [Next]_vars => OncePerOpsTtl'
  <2> SUFFICES ASSUME TypeOK, Remembers, OncePerOpsTtl, [Next]_vars
               PROVE  OncePerOpsTtl'
    OBVIOUS
  <2>1. CASE CommitStep
    <3>1. PICK k \in FullKeys, e \in Entry, ttl \in Nat,
               outcome \in {"written", "deleted"} :
                  ~Replayed(k, e.operationId) /\ Commit(k, e, ttl, outcome)
      BY <2>1 DEF CommitStep
    <3>2. /\ Len(log[k]) \in Nat /\ now \in Nat
          /\ DOMAIN log[k] = 1 .. Len(log[k])
          /\ DOMAIN log'[k] = 1 .. Len(log[k]) + 1
          /\ log'[k][Len(log[k]) + 1] = [entry |-> e, at |-> now]
          /\ \A i \in DOMAIN log[k] : log'[k][i] = log[k][i]
          /\ \A j \in FullKeys \ {k} : log'[j] = log[j]
      BY <3>1, CommitLog
    <3>3. ASSUME NEW h \in FullKeys, NEW i \in DOMAIN log'[h],
                 NEW j \in DOMAIN log'[h], i < j,
                 log'[h][i].entry.operationId = log'[h][j].entry.operationId
          PROVE  log'[h][j].at >= log'[h][i].at + OpsTtl
      <4>1. CASE h # k
        BY <3>2, <3>3, <4>1 DEF OncePerOpsTtl
      <4>2. CASE h = k /\ j = Len(log[k]) + 1
        <5>1. /\ i \in DOMAIN log[k] /\ log'[k][i] = log[k][i]
              /\ log'[k][j].at = now /\ log'[k][j].entry = e
          BY <3>2, <3>3, <4>2
        <5>2. ~Replayed(k, log[k][i].entry.operationId)
          BY <3>1, <3>3, <4>2, <5>1
        <5>3. ~(now < log[k][i].at + OpsTtl) /\ log[k][i].at \in Nat
          BY <5>1, <5>2 DEF Remembers
        <5>4. QED
          BY <3>2, <4>2, <5>1, <5>3, SMTT(30)
      <4>3. CASE h = k /\ j # Len(log[k]) + 1
        <5>1. /\ i \in DOMAIN log[k] /\ log'[k][i] = log[k][i]
              /\ j \in DOMAIN log[k] /\ log'[k][j] = log[k][j]
          BY <3>2, <3>3, <4>3
        <5>2. QED
          BY <3>3, <4>3, <5>1 DEF OncePerOpsTtl
      <4>4. QED
        BY <4>1, <4>2, <4>3
    <3>4. QED
      BY <3>3 DEF OncePerOpsTtl
  <2>2. CASE Tick \/ Quiet
    BY <2>2 DEF Tick, Quiet, OncePerOpsTtl
  <2>3. QED
    BY <2>1, <2>2, StepCases
<1>3. QED
  BY <1>1, <1>2, RemembersStep, TypeCorrect, PTL DEF Spec

-----------------------------------------------------------------------------
(* A replay answers with this operation's own commit: every result Redis   *)
(* remembers is of a commit in the log, under the name it is filed by.     *)
THEOREM ReplayIsTruthful == Spec => []ReplayIsOwnCommit
<1>1. Init => ReplayIsOwnCommit
  BY DEF Init, ReplayIsOwnCommit, Replayed
<1>2. TypeOK /\ ReplayIsOwnCommit /\ [Next]_vars => ReplayIsOwnCommit'
  <2> SUFFICES ASSUME TypeOK, ReplayIsOwnCommit, [Next]_vars
               PROVE  ReplayIsOwnCommit'
    OBVIOUS
  <2>1. CASE CommitStep
    <3>1. PICK k \in FullKeys, e \in Entry, ttl \in Nat,
               outcome \in {"written", "deleted"} :
                  (outcome = "deleted") = e.isDeleted /\ Commit(k, e, ttl, outcome)
      BY <2>1 DEF CommitStep
    <3>2. /\ Len(log[k]) \in Nat /\ DOMAIN log[k] = 1 .. Len(log[k])
          /\ DOMAIN log'[k] = 1 .. Len(log[k]) + 1
          /\ log'[k][Len(log[k]) + 1].entry = e
          /\ \A i \in DOMAIN log[k] : log'[k][i] = log[k][i]
          /\ \A j \in FullKeys \ {k} : log'[j] = log[j]
      <4>1. /\ Len(log[k]) \in Nat /\ DOMAIN log[k] = 1 .. Len(log[k])
            /\ DOMAIN log'[k] = 1 .. Len(log[k]) + 1
            /\ log'[k][Len(log[k]) + 1] = [entry |-> e, at |-> now]
            /\ \A i \in DOMAIN log[k] : log'[k][i] = log[k][i]
            /\ \A j \in FullKeys \ {k} : log'[j] = log[j]
        BY <3>1, CommitLog
      <4>2. QED
        BY <4>1
    <3>3. /\ ops'[k][e.operationId].outcome = outcome
          /\ ops'[k][e.operationId].entry = e
          /\ \A op \in OperationIds \ {e.operationId} : ops'[k][op] = ops[k][op]
          /\ \A j \in FullKeys \ {k} : ops'[j] = ops[j]
      BY <3>1, CommitOps
    <3>4. ASSUME NEW j \in FullKeys, NEW op \in OperationIds, ops'[j][op] # NoResult
          PROVE  /\ ops'[j][op].entry.operationId = op
                 /\ (ops'[j][op].outcome = "deleted") = ops'[j][op].entry.isDeleted
                 /\ \E i \in DOMAIN log'[j] : log'[j][i].entry = ops'[j][op].entry
      <4>1. CASE j = k /\ op = e.operationId
        BY <3>1, <3>2, <3>3, <4>1
      <4>2. CASE j # k \/ op # e.operationId
        <5>1. ops'[j][op] = ops[j][op]
          BY <3>3, <4>2
        <5>2. /\ ops[j][op].entry.operationId = op
              /\ (ops[j][op].outcome = "deleted") = ops[j][op].entry.isDeleted
          BY <3>4, <5>1 DEF ReplayIsOwnCommit, Replayed
        <5>3. PICK i \in DOMAIN log[j] : log[j][i].entry = ops[j][op].entry
          BY <3>4, <5>1 DEF ReplayIsOwnCommit, Replayed
        <5>4. i \in DOMAIN log'[j] /\ log'[j][i] = log[j][i]
          BY <3>2, <5>3
        <5>5. QED
          BY <5>1, <5>2, <5>3, <5>4
      <4>3. QED
        BY <4>1, <4>2
    <3>5. QED
      BY <3>4 DEF ReplayIsOwnCommit, Replayed
  <2>2. CASE Tick
    <3>1. ASSUME NEW k \in FullKeys, NEW op \in OperationIds, ops'[k][op] # NoResult
          PROVE  ops'[k][op] = ops[k][op]
      BY <2>2, <3>1 DEF Tick
    <3>2. log' = log
      BY <2>2 DEF Tick
    <3>3. QED
      BY <3>1, <3>2 DEF ReplayIsOwnCommit, Replayed
  <2>3. CASE Quiet
    BY <2>3 DEF Quiet, stored, ReplayIsOwnCommit, Replayed
  <2>4. QED
    BY <2>1, <2>2, <2>3, StepCases
<1>3. QED
  BY <1>1, <1>2, TypeCorrect, PTL DEF Spec

-----------------------------------------------------------------------------
(* Why history never outlives its entry: the two are given the same expiry *)
(* time whenever either gets one, and a commit without a TTL prolongs the  *)
(* entry's life only.                                                      *)
HistoryLife ==
    \A k \in FullKeys : (hist[k] # {} /\ ctxExpiresAt[k] # NoExpiry) =>
        histExpiresAt[k] # NoExpiry /\ histExpiresAt[k] <= ctxExpiresAt[k]

LEMMA HistoryLifeStep ==
    ASSUME TypeOK, HistoryLife, [Next]_vars
    PROVE  HistoryLife'
<1>1. CASE CommitStep
  <2>1. PICK k \in FullKeys, e \in Entry, ttl \in Nat,
             outcome \in {"written", "deleted"} : Commit(k, e, ttl, outcome)
    BY <1>1 DEF CommitStep
  <2>2. /\ ctxExpiresAt'[k] = IF ttl > 0 THEN now + ttl ELSE NoExpiry
        /\ ttl > 0 => histExpiresAt'[k] = now + ttl
        /\ now \in Nat
    BY <2>1 DEF Commit, Expire, TypeOK
  <2>3. \A j \in FullKeys \ {k} :
           /\ ctxExpiresAt'[j] = ctxExpiresAt[j]
           /\ histExpiresAt'[j] = histExpiresAt[j]
           /\ hist'[j] = hist[j]
    BY <2>1 DEF Commit, TypeOK
  <2>4. QED
    BY <2>2, <2>3 DEF HistoryLife, NoExpiry
<1>2. CASE Tick
  <2> SUFFICES ASSUME NEW k \in FullKeys, hist'[k] # {}, ctxExpiresAt'[k] # NoExpiry
               PROVE  histExpiresAt'[k] # NoExpiry
                      /\ histExpiresAt'[k] <= ctxExpiresAt'[k]
    BY DEF HistoryLife
  <2>1. ~Due(histExpiresAt[k]) /\ hist'[k] = hist[k]
        /\ histExpiresAt'[k] = histExpiresAt[k]
    BY <1>2 DEF Tick
  <2>2. ctxExpiresAt'[k] = ctxExpiresAt[k]
    BY <1>2 DEF Tick
  <2>3. QED
    BY <2>1, <2>2 DEF HistoryLife
<1>3. CASE Quiet
  BY <1>3 DEF Quiet, stored, HistoryLife
<1>4. QED
  BY <1>1, <1>2, <1>3, StepCases

(* history() is a gapless run of versions that ends at the entry get()     *)
(* returns, through every expiry, overwrite, delete and restore.           *)
THEOREM HistoryIsARun == Spec => []HistoryEndsAtEntry
<1>1. Init => HistoryLife /\ HistoryEndsAtEntry
  BY DEF Init, HistoryLife, HistoryEndsAtEntry
<1>2. TypeOK /\ HistoryLife /\ HistoryEndsAtEntry /\ [Next]_vars
        => HistoryEndsAtEntry'
  <2> SUFFICES ASSUME TypeOK, HistoryLife, HistoryEndsAtEntry, [Next]_vars,
                      NEW k \in FullKeys, hist'[k] # {}
               PROVE  /\ ctx'[k] \in hist'[k]
                      /\ \A e \in hist'[k] : e.version <= ctx'[k].version
                      /\ \A e, f \in hist'[k] : e.version = f.version => e = f
                      /\ \A e \in hist'[k] : \A v \in e.version .. ctx'[k].version :
                            \E f \in hist'[k] : f.version = v
    BY DEF HistoryEndsAtEntry, CurrentVersion
  <2>1. hist[k] # {} =>
           /\ ctx[k] \in hist[k]
           /\ \A e \in hist[k] : e.version <= ctx[k].version
           /\ \A e, f \in hist[k] : e.version = f.version => e = f
           /\ \A e \in hist[k] : \A v \in e.version .. ctx[k].version :
                 \E f \in hist[k] : f.version = v
    BY DEF HistoryEndsAtEntry, CurrentVersion
  <2>2. CASE ctx'[k] = ctx[k] /\ hist'[k] = hist[k]
    BY <2>1, <2>2
  <2>3. CASE CommitStep
    <3>1. PICK j \in FullKeys, e \in Entry, ttl \in Nat,
               outcome \in {"written", "deleted"} :
                  e.version = CurrentVersion(j) + 1 /\ Commit(j, e, ttl, outcome)
      BY <2>3 DEF CommitStep
    <3>2. CASE j # k
      BY <2>2, <3>1, <3>2 DEF Commit, TypeOK
    <3>3. CASE j = k
      <4>1. ctx'[k] = e /\ hist'[k] = hist[k] \cup {e}
        BY <3>1, <3>3 DEF Commit, TypeOK
      <4>2. e.version \in Nat /\ ctx[k].version \in Nat
            /\ e.version = ctx[k].version + 1
        BY <3>1, <3>3, VersionIsNat, EntryFacts DEF CurrentVersion
      <4>3. \A f \in hist[k] : f.version \in Nat /\ f.version <= ctx[k].version
        <5>1. hist[k] \subseteq Entry
          BY DEF TypeOK
        <5>2. QED
          BY <2>1, <5>1, EntryFacts
      <4>4. \A f \in hist'[k] : f.version <= e.version
        BY <4>1, <4>2, <4>3
      <4>5. \A f, g \in hist'[k] : f.version = g.version => f = g
        BY <2>1, <4>1, <4>2, <4>3
      <4>6. ASSUME NEW f \in hist'[k], NEW v \in f.version .. e.version
            PROVE  \E g \in hist'[k] : g.version = v
        <5>1. CASE f = e \/ v = e.version
          BY <4>1, <4>2, <5>1
        <5>2. CASE f # e /\ v # e.version
          <6>1. f \in hist[k] /\ v \in f.version .. ctx[k].version
            BY <4>1, <4>2, <4>3, <5>2
          <6>2. QED
            BY <2>1, <4>1, <6>1
        <5>3. QED
          BY <5>1, <5>2
      <4>7. QED
        BY <4>1, <4>4, <4>5, <4>6
    <3>4. QED
      BY <3>2, <3>3
  <2>4. CASE Tick
    <3>1. ~Due(histExpiresAt[k]) /\ hist'[k] = hist[k]
      BY <2>4 DEF Tick
    <3>2. ~Due(ctxExpiresAt[k])
      BY <3>1 DEF Due, HistoryLife, TypeOK, NoExpiry
    <3>3. ctx'[k] = ctx[k]
      BY <2>4, <3>2 DEF Tick
    <3>4. QED
      BY <2>2, <3>1, <3>3
  <2>5. CASE Quiet
    BY <2>2, <2>5 DEF Quiet, stored
  <2>6. QED
    BY <2>3, <2>4, <2>5, StepCases
<1>3. QED
  BY <1>1, <1>2, HistoryLifeStep, TypeCorrect, PTL DEF Spec

-----------------------------------------------------------------------------
(* A tombstone comes back to life only through an append, an increment or  *)
(* a write that asked for a restore and named the tombstone's version,     *)
(* whatever stale writes, deletes and read-modify-writes race it.          *)
THEOREM RestoreIsExplicit == Spec => WritesDoNotResurrect
<1> DEFINE Allowed(k) ==
        \/ Restores(k)
        \/ \E op \in OperationIds :
              \/ \E r \in Appends(k) : AppendTo(k, op, r)
              \/ \E r \in Increments(k) : Increment(k, op, r)
<1>1. TypeOK /\ [Next]_vars => [\A k \in FullKeys : Resurrected(k) => Allowed(k)]_vars
  <2> SUFFICES ASSUME TypeOK, [Next]_vars, NEW k \in FullKeys,
                      Exists(k), ctx[k].isDeleted, Live(ctx'[k])
               PROVE  Allowed(k)
    BY DEF Resurrected
  <2>1. ctx'[k] # ctx[k]
    BY DEF Live
  <2>2. ASSUME NEW j \in FullKeys, NEW op, NEW r, NEW at, WriteScript(j, op, r, at)
        PROVE  /\ j = k
               /\ ~r.isDeleted
               /\ r.allowRestore /\ r.expectedVersion # None
    <3> DEFINE v == LuaResolve(ctx[j], r, CasGiven(r)).value
    <3>1. ctx' = [ctx EXCEPT ![j] = [version     |-> CurrentVersion(j) + 1,
                                     value       |-> v,
                                     confidence  |-> r.confidence,
                                     ttlSeconds  |-> r.ttlSeconds,
                                     writtenAt   |-> at,
                                     isDeleted   |-> r.isDeleted,
                                     operationId |-> op]]
      BY <2>2 DEF WriteScript, Commit
    <3>2. j = k /\ ~r.isDeleted
      <4> HIDE DEF v
      <4> QED
        BY <2>1, <3>1 DEF TypeOK, Live
    <3>3. WriteOutcome(j, op, r) \in {"written", "deleted"}
      BY <2>2 DEF WriteScript
    <3>4. QED
      BY <3>2, <3>3 DEF WriteOutcome, Decision, Resurrects, OnTombstone, CasGiven
  <2>3. ASSUME NEW d \in Deleters, DeleteWrite(d) PROVE FALSE
    <3>1. deleting[d].key \in FullKeys
      BY <2>3 DEF DeleteWrite, TypeOK, InDelete
    <3>2. ~WriteScript(deleting[d].key, deleting[d].operationId,
                       Tombstone(deleting[d]), deleting[d].at)
      BY <2>2, <3>1 DEF Tombstone
    <3>3. QED
      BY <2>1, <2>3, <3>2 DEF DeleteWrite, stored
  <2>4. ASSUME NEW c \in CasClients, NEW op \in OperationIds, CasWrite(c, op)
        PROVE  FALSE
    <3>1. swapping[c].key \in FullKeys
      BY <2>4 DEF CasWrite, TypeOK, InCas
    <3>2. ~WriteScript(swapping[c].key, op, CasRequest(swapping[c].seen), now)
      BY <2>2, <3>1 DEF CasRequest
    <3>3. QED
      BY <2>1, <2>4, <3>2 DEF CasWrite, stored
  <2>5. ~Tick
    BY <2>1 DEF Tick, Live, NoEntry
  <2>6. PICK j \in FullKeys, op \in OperationIds :
            \/ \E r \in Writes(j) : Write(j, op, r)
            \/ \E r \in Appends(j) : AppendTo(j, op, r)
            \/ \E r \in Increments(j) : Increment(j, op, r)
    BY <2>1, <2>3, <2>4, <2>5
       DEF Next, Step, vars, stored, DeleteRead, ListStart, ListGet, ListReturn, CasRead
  <2>7. ASSUME NEW r \in Writes(j), Write(j, op, r)
        PROVE  Allowed(k)
    <3>1. WriteScript(j, op, Candidate(r), now)
      BY <2>7 DEF Write
    <3>2. /\ j = k
          /\ Candidate(r).allowRestore
          /\ Candidate(r).expectedVersion # None
      BY <2>2, <3>1
    <3>3. r.allowRestore /\ CasGiven(r)
      BY <3>2 DEF Candidate, CasGiven
    <3>4. QED
      BY <2>7, <3>2, <3>3 DEF Restores
  <2>8. ASSUME NEW r \in Appends(j), AppendTo(j, op, r)
        PROVE  Allowed(k)
    <3>1. j = k
      BY <2>1, <2>8 DEF AppendTo, Commit, TypeOK
    <3>2. QED
      BY <2>8, <3>1
  <2>9. ASSUME NEW r \in Increments(j), Increment(j, op, r)
        PROVE  Allowed(k)
    <3>1. j = k
      BY <2>1, <2>9 DEF Increment, Commit, TypeOK
    <3>2. QED
      BY <2>9, <3>1
  <2>10. QED
    BY <2>6, <2>7, <2>8, <2>9
<1>2. QED
  BY <1>1, TypeCorrect, PTL DEF Spec, WritesDoNotResurrect

-----------------------------------------------------------------------------
(* The TypeScript mirror of the conflict strategies agrees with the script *)
(* on whatever the store has come to hold.                                 *)
THEOREM MirrorIsFaithful == Spec => []MirrorAgrees
<1>1. MirrorAgrees
  BY MirrorAgreesWithLua DEF MirrorAgrees, MergesEmptyArray, Candidate, CasGiven
<1>2. QED
  BY <1>1, PTL

-----------------------------------------------------------------------------
(* The store implements the versioned register: under the mapping of       *)
(* Register, a commit is one Commit of the register, the passing of a      *)
(* second a Lapse of the keys whose expiry is due, and no other step shows.*)
LEMMA CommitIsRegisterCommit ==
    ASSUME TypeOK, CommitStep
    PROVE  Register!Next
<1>1. PICK k \in FullKeys, e \in Entry, ttl \in Nat,
           outcome \in {"written", "deleted"} :
              /\ ~Replayed(k, e.operationId)
              /\ e.version = CurrentVersion(k) + 1
              /\ Commit(k, e, ttl, outcome)
  BY DEF CommitStep
<1>2. ctx' = [ctx EXCEPT ![k] = e]
  BY <1>1 DEF Commit
<1>3. /\ e.operationId \in OperationIds
      /\ ops'[k][e.operationId] # NoResult
      /\ \A op \in OperationIds \ {e.operationId} : ops'[k][op] = ops[k][op]
      /\ \A j \in FullKeys \ {k} : ops'[j] = ops[j]
  BY <1>1, CommitOps
<1>4. e.operationId \notin {op \in OperationIds : Replayed(k, op)}
  BY <1>1
<1>5. [j \in FullKeys |-> CurrentVersion(j)]'
        = [[j \in FullKeys |-> CurrentVersion(j)]
             EXCEPT ![k] = CurrentVersion(k) + 1]
  BY <1>1, <1>2 DEF CurrentVersion, TypeOK
<1>6. [j \in FullKeys |-> IF Exists(j) THEN ctx[j].operationId ELSE "nobody"]'
        = [[j \in FullKeys |-> IF Exists(j) THEN ctx[j].operationId ELSE "nobody"]
             EXCEPT ![k] = e.operationId]
  <2>1. e # NoEntry
    BY EntryFacts
  <2>2. QED
    BY <1>2, <2>1 DEF Exists, TypeOK
<1>7. [j \in FullKeys |-> {op \in OperationIds : Replayed(j, op)}]'
        = [[j \in FullKeys |-> {op \in OperationIds : Replayed(j, op)}]
             EXCEPT ![k] = {op \in OperationIds : Replayed(k, op)}
                             \cup {e.operationId}]
  <2>1. {op \in OperationIds : ops'[k][op] # NoResult}
          = {op \in OperationIds : ops[k][op] # NoResult} \cup {e.operationId}
    BY <1>3
  <2>2. \A j \in FullKeys \ {k} :
           {op \in OperationIds : ops'[j][op] # NoResult}
             = {op \in OperationIds : ops[j][op] # NoResult}
    BY <1>3
  <2>3. QED
    BY <2>1, <2>2 DEF Replayed
<1>8. Register!Commit(k, e.operationId)
  BY <1>4, <1>5, <1>6, <1>7 DEF Register!Commit
<1>9. QED
  BY <1>3, <1>8 DEF Register!Next

LEMMA TickIsRegisterLapse ==
    ASSUME TypeOK, Tick
    PROVE  Register!Next
<1>0. PICK E \in SUBSET FullKeys, F \in SUBSET FullKeys :
           /\ E = {k \in FullKeys : Due(ctxExpiresAt[k])}
           /\ F = {k \in FullKeys : Due(opsExpiresAt[k])}
  OBVIOUS
<1>1. [k \in FullKeys |-> CurrentVersion(k)]'
        = [k \in FullKeys |-> IF k \in E THEN 0 ELSE
              [j \in FullKeys |-> CurrentVersion(j)][k]]
  BY <1>0 DEF Tick, CurrentVersion, NoEntry
<1>2. [k \in FullKeys |-> IF Exists(k) THEN ctx[k].operationId ELSE "nobody"]'
        = [k \in FullKeys |-> IF k \in E THEN Register!Nobody ELSE
              [j \in FullKeys |->
                  IF Exists(j) THEN ctx[j].operationId ELSE "nobody"][k]]
  BY <1>0 DEF Tick, Exists, Register!Nobody
<1>3. [k \in FullKeys |-> {op \in OperationIds : Replayed(k, op)}]'
        = [k \in FullKeys |-> IF k \in F THEN {} ELSE
              [j \in FullKeys |-> {op \in OperationIds : Replayed(j, op)}][k]]
  <2>1. ASSUME NEW k \in FullKeys
        PROVE  {op \in OperationIds : ops'[k][op] # NoResult}
                 = IF k \in F THEN {} ELSE {op \in OperationIds : ops[k][op] # NoResult}
    BY <1>0 DEF Tick
  <2>2. QED
    BY <2>1 DEF Replayed
<1>4. Register!Lapse(E, F)
  BY <1>1, <1>2, <1>3 DEF Register!Lapse
<1>5. QED
  BY <1>4 DEF Register!Next

THEOREM StoreImplementsRegister == Spec => ImplementsRegister
<1>1. Init => Register!Init
  BY DEF Init, Register!Init, Register!Nobody, CurrentVersion, Exists, Replayed,
         NoEntry
<1>2. TypeOK /\ [Next]_vars => [Register!Next]_(Register!vars)
  <2> SUFFICES ASSUME TypeOK, [Next]_vars
               PROVE  [Register!Next]_(Register!vars)
    OBVIOUS
  <2>1. CASE Quiet
    BY <2>1 DEF Quiet, stored, Register!vars, CurrentVersion, Exists, Replayed
  <2>2. QED
    BY <2>1, StepCases, CommitIsRegisterCommit, TickIsRegisterLapse
<1>3. QED
  BY <1>1, <1>2, TypeCorrect, PTL DEF Spec, ImplementsRegister, Register!Spec

-----------------------------------------------------------------------------
(* What the log says of the entry a key holds: it is the last one logged.  *)
Logged(k) == Exists(k) => Len(log[k]) > 0 /\ log[k][Len(log[k])].entry = ctx[k]
LoggedOK  == \A k \in FullKeys : Logged(k)

(* What a commit makes of the key, and what it leaves of the others.       *)
LEMMA CommitCtx ==
    ASSUME TypeOK, NEW k \in FullKeys, NEW e \in Entry, NEW ttl \in Nat,
           NEW outcome \in {"written", "deleted"}, Commit(k, e, ttl, outcome)
    PROVE  /\ ctx'[k] = e
           /\ ctxExpiresAt'[k] = IF ttl > 0 THEN now + ttl ELSE NoExpiry
           /\ Len(log[k]) \in Nat /\ Len(log'[k]) = Len(log[k]) + 1
           /\ log'[k][Len(log'[k])].entry = e
           /\ \A i \in DOMAIN log[k] : log'[k][i] = log[k][i]
           /\ \A j \in FullKeys \ {k} :
                 ctx'[j] = ctx[j] /\ ctxExpiresAt'[j] = ctxExpiresAt[j] /\ log'[j] = log[j]
<1>1. /\ ctx'[k] = e
      /\ ctxExpiresAt'[k] = IF ttl > 0 THEN now + ttl ELSE NoExpiry
      /\ \A j \in FullKeys \ {k} : ctx'[j] = ctx[j] /\ ctxExpiresAt'[j] = ctxExpiresAt[j]
  BY DEF Commit, Expire, TypeOK
<1>2. /\ Len(log[k]) \in Nat /\ log' = [log EXCEPT ![k] = Append(log[k], [entry |-> e, at |-> now])]
      /\ log \in [FullKeys -> Seq(LogRecord)] /\ now \in Nat
  BY DEF Commit, TypeOK
<1>3. [entry |-> e, at |-> now] \in LogRecord
  BY <1>2 DEF LogRecord
<1>4. log'[k] = Append(log[k], [entry |-> e, at |-> now]) /\ log[k] \in Seq(LogRecord)
  BY <1>2
<1>5. Len(log'[k]) = Len(log[k]) + 1 /\ log'[k][Len(log[k]) + 1] = [entry |-> e, at |-> now]
  BY <1>3, <1>4
<1>6. /\ \A i \in DOMAIN log[k] : log'[k][i] = log[k][i]
      /\ \A j \in FullKeys \ {k} : log'[j] = log[j]
  BY CommitLog
<1>7. QED
  BY <1>1, <1>2, <1>5, <1>6

LEMMA LoggedStep ==
    ASSUME TypeOK, LoggedOK, [Next]_vars
    PROVE  LoggedOK'
<1>1. CASE CommitStep
  <2>1. PICK k \in FullKeys, e \in Entry, ttl \in Nat,
             outcome \in {"written", "deleted"} : Commit(k, e, ttl, outcome)
    BY <1>1 DEF CommitStep
  <2>2. /\ ctx'[k] = e /\ Len(log[k]) \in Nat /\ Len(log'[k]) = Len(log[k]) + 1
        /\ log'[k][Len(log'[k])].entry = e
        /\ \A j \in FullKeys \ {k} : ctx'[j] = ctx[j] /\ log'[j] = log[j]
    BY <2>1, CommitCtx
  <2>3. QED
    BY <2>2 DEF LoggedOK, Logged, Exists
<1>2. CASE Tick
  BY <1>2 DEF Tick, LoggedOK, Logged, Exists
<1>3. CASE Quiet
  BY <1>3 DEF Quiet, stored, LoggedOK, Logged, Exists
<1>4. QED
  BY <1>1, <1>2, <1>3, StepCases

(* No step takes a record from the log.                                    *)
LEMMA LogGrows ==
    ASSUME TypeOK, [Next]_vars, NEW k \in FullKeys
    PROVE  /\ Len(log[k]) \in Nat /\ Len(log[k]) <= Len(log'[k]) /\ Len(log'[k]) \in Nat
           /\ \A i \in DOMAIN log[k] : i \in DOMAIN log'[k] /\ log'[k][i] = log[k][i]
<1>1. log[k] \in Seq(LogRecord) /\ Len(log[k]) \in Nat /\ DOMAIN log[k] = 1..Len(log[k])
  BY DEF TypeOK
<1>2. CASE CommitStep
  <2>1. PICK j \in FullKeys, e \in Entry, ttl \in Nat,
             outcome \in {"written", "deleted"} : Commit(j, e, ttl, outcome)
    BY <1>2 DEF CommitStep
  <2>2. CASE j = k
    <3>1. /\ Len(log'[k]) = Len(log[k]) + 1
          /\ \A i \in DOMAIN log[k] : log'[k][i] = log[k][i]
      BY <2>1, <2>2, CommitCtx
    <3>2. DOMAIN log'[k] = 1 .. Len(log[k]) + 1
      BY <2>1, <2>2, CommitLog, ZenonT(40)
    <3>3. QED
      BY <1>1, <3>1, <3>2
  <2>3. CASE j # k
    <3>1. log'[k] = log[k]
      BY <2>1, <2>3, CommitCtx
    <3>2. QED
      BY <1>1, <3>1
  <2>4. QED
    BY <2>2, <2>3
<1>3. CASE Tick \/ Quiet
  BY <1>1, <1>3 DEF Tick, Quiet
<1>4. QED
  BY <1>2, <1>3, StepCases

-----------------------------------------------------------------------------
(* How much was logged when a list began; a key it saw null is null still  *)
(* unless it has been written since.                                       *)
SinceOK(l) == listing[l] # Idle => \A k \in FullKeys : listing[l].since[k] <= Len(log[k])
StaleOK(l) ==
    listing[l] # Idle => \A k \in listing[l].stale :
        Get(k) = NoEntry \/ Len(log[k]) > listing[l].since[k]
ListOK == \A l \in Listers : SinceOK(l) /\ StaleOK(l)

(* Only a commit makes a null key live.                                    *)
LEMMA NullStays ==
    ASSUME TypeOK, [Next]_vars, NEW k \in FullKeys, Get(k) = NoEntry
    PROVE  Get(k)' = NoEntry \/ Len(log'[k]) > Len(log[k])
<1>1. CASE CommitStep
  <2>1. PICK j \in FullKeys, e \in Entry, ttl \in Nat,
             outcome \in {"written", "deleted"} : Commit(j, e, ttl, outcome)
    BY <1>1 DEF CommitStep
  <2>2. CASE j = k
    <3>1. Len(log[k]) \in Nat /\ Len(log'[k]) = Len(log[k]) + 1
      BY <2>1, <2>2, CommitCtx
    <3>2. QED
      BY <3>1
  <2>3. CASE j # k
    <3>1. ctx'[k] = ctx[k]
      BY <2>1, <2>3, CommitCtx
    <3>2. now' = now
      BY <2>1 DEF Commit
    <3>3. QED
      BY <3>1, <3>2 DEF Get, Readable, Exists, IsStale
  <2>4. QED
    BY <2>2, <2>3
<1>2. CASE Tick
  <2>1. (ctx'[k] = ctx[k] \/ ctx'[k] = NoEntry) /\ now' = now + 1 /\ now \in Nat
    BY <1>2 DEF Tick, TypeOK
  <2>2. CASE ctx'[k] = NoEntry
    BY <2>2 DEF Get
  <2>3. CASE ctx'[k] = ctx[k] /\ ctx[k] # NoEntry
    <3>1. ctx[k].writtenAt \in Nat /\ ctx[k].ttlSeconds \in Nat
      BY <2>3, VersionIsNat DEF Exists, Entry
    <3>2. IsStale(ctx[k]) => IsStale(ctx[k])'
      BY <2>1, <2>3, <3>1 DEF IsStale
    <3>3. IsStale(ctx[k]) \/ ctx[k].isDeleted
      BY <2>3 DEF Get, Readable, Exists
    <3>4. QED
      BY <2>3, <3>2, <3>3 DEF Get, Readable, Exists
  <2>4. QED
    BY <2>1, <2>2, <2>3
<1>3. CASE Quiet
  BY <1>3 DEF Quiet, stored, Get, Readable, Exists, IsStale
<1>4. QED
  BY <1>1, <1>2, <1>3, StepCases

(* A list that does not go on keeps what it saw.                           *)
LEMMA ListKept ==
    ASSUME TypeOK, ListOK, [Next]_vars, NEW l \in Listers, listing'[l] = listing[l]
    PROVE  SinceOK(l)' /\ StaleOK(l)'
<1>1. SUFFICES ASSUME listing[l] # Idle
               PROVE  /\ \A k \in FullKeys : listing[l].since[k] <= Len(log'[k])
                      /\ \A k \in listing[l].stale :
                            Get(k)' = NoEntry \/ Len(log'[k]) > listing[l].since[k]
  BY DEF SinceOK, StaleOK
<1>2. listing[l] \in InList
  BY <1>1 DEF TypeOK
<1>3. ASSUME NEW k \in FullKeys
      PROVE  /\ listing[l].since[k] \in Nat /\ listing[l].since[k] <= Len(log[k])
             /\ Len(log[k]) \in Nat /\ Len(log'[k]) \in Nat /\ Len(log[k]) <= Len(log'[k])
             /\ listing[l].since[k] <= Len(log'[k])
  <2>1. listing[l].since[k] \in Nat /\ listing[l].since[k] <= Len(log[k])
    BY <1>1, <1>2 DEF InList, ListOK, SinceOK
  <2>2. QED
    BY <2>1, LogGrows
<1>4. ASSUME NEW k \in listing[l].stale
      PROVE  Get(k)' = NoEntry \/ Len(log'[k]) > listing[l].since[k]
  <2>1. k \in FullKeys
    BY <1>2 DEF InList
  <2>2. Get(k) = NoEntry \/ Len(log[k]) > listing[l].since[k]
    BY <1>1 DEF ListOK, StaleOK
  <2>3. Get(k) = NoEntry => Get(k)' = NoEntry \/ Len(log'[k]) > Len(log[k])
    BY <2>1, NullStays
  <2>4. QED
    BY <1>3, <2>1, <2>2, <2>3
<1>5. QED
  BY <1>3, <1>4

LEMMA ListStep ==
    ASSUME TypeOK, ListOK, [Next]_vars
    PROVE  ListOK'
<1>1. listing \in [Listers -> InList \cup {Idle}] /\ log \in [FullKeys -> Seq(LogRecord)]
  BY DEF TypeOK
<1>2. ASSUME NEW l \in Listers, ListStart(l)
      PROVE  ListOK'
  <2>1. /\ listing'[l].since = [k \in FullKeys |-> Len(log[k])] /\ listing'[l].stale = {}
        /\ log' = log /\ \A m \in Listers \ {l} : listing'[m] = listing[m]
    BY <1>1, <1>2 DEF ListStart
  <2>2. \A k \in FullKeys : Len(log[k]) \in Nat
    BY <1>1
  <2>3. SinceOK(l)' /\ StaleOK(l)'
    BY <2>1, <2>2 DEF SinceOK, StaleOK
  <2>4. QED
    BY <2>1, <2>3, ListKept DEF ListOK
<1>3. ASSUME NEW l \in Listers, NEW k \in FullKeys, ListGet(l, k)
      PROVE  ListOK'
  <2>1. listing[l] \in InList /\ listing[l] # Idle /\ log' = log /\ ctx' = ctx /\ now' = now
    BY <1>1, <1>3 DEF ListGet, stored
  <2>2. /\ listing'[l].since = listing[l].since
        /\ listing'[l].stale = IF Get(k) = NoEntry THEN listing[l].stale \cup {k}
                                                   ELSE listing[l].stale
        /\ \A m \in Listers \ {l} : listing'[m] = listing[m]
    BY <1>1, <1>3, <2>1 DEF ListGet, InList
  <2>3. SinceOK(l) /\ StaleOK(l)
    BY DEF ListOK
  <2>4. SinceOK(l)'
    BY <2>1, <2>2, <2>3 DEF SinceOK
  <2>5. \A j : Get(j)' = Get(j)
    BY <2>1 DEF Get, Readable, Exists, IsStale
  <2>6. \A j \in listing'[l].stale : Get(j) = NoEntry \/ Len(log[j]) > listing[l].since[j]
    BY <2>1, <2>2, <2>3 DEF StaleOK
  <2>7. StaleOK(l)'
    BY <2>1, <2>2, <2>5, <2>6 DEF StaleOK
  <2>8. QED
    BY <2>2, <2>4, <2>7, ListKept DEF ListOK
<1>4. ASSUME NEW l \in Listers, ListReturn(l)
      PROVE  ListOK'
  <2>1. listing'[l] = Idle /\ \A m \in Listers \ {l} : listing'[m] = listing[m]
    BY <1>1, <1>4 DEF ListReturn
  <2>2. SinceOK(l)' /\ StaleOK(l)'
    BY <2>1 DEF SinceOK, StaleOK
  <2>3. QED
    BY <2>1, <2>2, ListKept DEF ListOK
<1>5. ASSUME listing' = listing
      PROVE  ListOK'
  BY <1>5, ListKept DEF ListOK
<1>6. QED
  BY <1>2, <1>3, <1>4, <1>5
     DEF Next, Step, vars, callers, Write, AppendTo, Increment, DeleteRead, DeleteWrite,
         CasRead, CasWrite, Tick

(* Nothing but the end of a list takes a key out of the index.             *)
LEMMA ListUnlists ==
    ASSUME TypeOK, ListOK, [Next]_vars, NEW k \in FullKeys
    PROVE  UnlistsOnlyRewritten(k)
<1>1. SUFFICES ASSUME k \in keys, k \notin keys', Get(k) # NoEntry
               PROVE  \E l \in Listers : /\ listing[l] # Idle /\ listing'[l] = Idle
                                        /\ Len(log[k]) > listing[l].since[k]
  BY DEF UnlistsOnlyRewritten, Unlisted
<1>2. PICK l \in Listers : ListReturn(l)
  <2>1. ASSUME CommitStep
        PROVE  FALSE
    <3>1. PICK j \in FullKeys, e \in Entry, ttl \in Nat,
               outcome \in {"written", "deleted"} : Commit(j, e, ttl, outcome)
      BY <2>1 DEF CommitStep
    <3>2. keys' = keys \cup {j}
      BY <3>1 DEF Commit
    <3>3. QED
      BY <1>1, <3>2
  <2>2. ~Tick
    BY <1>1 DEF Tick
  <2>3. QED
    BY <1>1, <2>1, <2>2, NextCases
<1>3. listing[l] # Idle /\ listing'[l] = Idle /\ k \in listing[l].stale
  BY <1>1, <1>2 DEF ListReturn, TypeOK
<1>4. QED
  BY <1>1, <1>3 DEF ListOK, StaleOK

-----------------------------------------------------------------------------
(* Which callers commit to a key.                                          *)
ByWrite(k) ==
    \E op \in OperationIds, r \in Writes(k) : WriteScript(k, op, Candidate(r), now)
ByAppend(k)    == \E op \in OperationIds, r \in Appends(k) : AppendTo(k, op, r)
ByIncrement(k) == \E op \in OperationIds, r \in Increments(k) : Increment(k, op, r)
ByDelete(k) ==
    \E d \in Deleters :
        /\ deleting[d] # Idle /\ deleting[d].key = k
        /\ WriteScript(k, deleting[d].operationId, Tombstone(deleting[d]), deleting[d].at)
ByCas(k) ==
    \E c \in CasClients, op \in OperationIds :
        /\ swapping[c] # Idle /\ swapping[c].key = k
        /\ WriteScript(k, op, CasRequest(swapping[c].seen), now)

Left(k) == ctx'[k] = ctx[k] /\ ctxExpiresAt'[k] = ctxExpiresAt[k] /\ log'[k] = log[k]

LEMMA OthersLeft ==
    ASSUME TypeOK, NEW j \in FullKeys, NEW e, NEW ttl, NEW outcome,
           Commit(j, e, ttl, outcome), NEW k \in FullKeys, j # k
    PROVE  Left(k)
BY DEF Commit, Left, TypeOK

(* To each key, a step commits by one of its callers, lets time pass, or   *)
(* does nothing.                                                           *)
LEMMA KeyCases ==
    ASSUME TypeOK, [Next]_vars, NEW k \in FullKeys
    PROVE  \/ ByWrite(k) \/ ByAppend(k) \/ ByIncrement(k) \/ ByDelete(k) \/ ByCas(k)
           \/ Tick \/ Left(k)
<1>1. ASSUME NEW j \in FullKeys, NEW op \in OperationIds, NEW r \in Writes(j), Write(j, op, r)
      PROVE  ByWrite(k) \/ Left(k)
  <2>1. WriteScript(j, op, Candidate(r), now)
    BY <1>1 DEF Write
  <2>2. CASE j = k
    BY <2>1, <2>2 DEF ByWrite
  <2>3. CASE j # k
    BY <2>1, <2>3, OthersLeft DEF WriteScript
  <2>4. QED
    BY <2>2, <2>3
<1>2. ASSUME NEW j \in FullKeys, NEW op \in OperationIds, NEW r \in Appends(j), AppendTo(j, op, r)
      PROVE  ByAppend(k) \/ Left(k)
  <2>1. CASE j = k
    BY <1>2, <2>1 DEF ByAppend
  <2>2. CASE j # k
    BY <1>2, <2>2, OthersLeft DEF AppendTo
  <2>3. QED
    BY <2>1, <2>2
<1>3. ASSUME NEW j \in FullKeys, NEW op \in OperationIds, NEW r \in Increments(j), Increment(j, op, r)
      PROVE  ByIncrement(k) \/ Left(k)
  <2>1. CASE j = k
    BY <1>3, <2>1 DEF ByIncrement
  <2>2. CASE j # k
    BY <1>3, <2>2, OthersLeft DEF Increment
  <2>3. QED
    BY <2>1, <2>2
<1>4. ASSUME NEW d \in Deleters, DeleteWrite(d)
      PROVE  ByDelete(k) \/ Left(k)
  <2>1. deleting[d] # Idle /\ deleting[d].key \in FullKeys
    BY <1>4 DEF DeleteWrite, TypeOK, InDelete
  <2>2. CASE WriteScript(deleting[d].key, deleting[d].operationId, Tombstone(deleting[d]), deleting[d].at)
    <3>1. CASE deleting[d].key = k
      BY <2>1, <2>2, <3>1 DEF ByDelete
    <3>2. CASE deleting[d].key # k
      BY <2>1, <2>2, <3>2, OthersLeft DEF WriteScript
    <3>3. QED
      BY <3>1, <3>2
  <2>3. CASE UNCHANGED <<now, stored, keys, log>>
    BY <2>3 DEF stored, Left
  <2>4. QED
    BY <1>4, <2>2, <2>3 DEF DeleteWrite
<1>5. ASSUME NEW c \in CasClients, NEW op \in OperationIds, CasWrite(c, op)
      PROVE  ByCas(k) \/ Left(k)
  <2>1. swapping[c] # Idle /\ swapping[c].key \in FullKeys
    BY <1>5 DEF CasWrite, TypeOK, InCas
  <2>2. CASE WriteScript(swapping[c].key, op, CasRequest(swapping[c].seen), now)
    <3>1. CASE swapping[c].key = k
      BY <2>1, <2>2, <3>1 DEF ByCas
    <3>2. CASE swapping[c].key # k
      BY <2>1, <2>2, <3>2, OthersLeft DEF WriteScript
    <3>3. QED
      BY <3>1, <3>2
  <2>3. CASE UNCHANGED <<now, stored, keys, log>>
    BY <2>3 DEF stored, Left
  <2>4. QED
    BY <1>5, <2>2, <2>3 DEF CasWrite
<1>6. QED
  BY <1>1, <1>2, <1>3, <1>4, <1>5
     DEF Next, Step, vars, stored, Left, DeleteRead, ListStart, ListGet, ListReturn, CasRead

-----------------------------------------------------------------------------
(* Keys that never expire: their versions count their commits, and what a  *)
(* caller has read of one is still of the version it was.                  *)
PermanentOK(k) ==
    NeverExpires(k) =>
        /\ ctxExpiresAt[k] = NoExpiry
        /\ CurrentVersion(k) = Len(log[k])
        /\ Exists(k) => ctx[k].ttlSeconds = 0
DeletingOK(d) ==
    deleting[d] # Idle =>
        /\ DeleteExpects(deleting[d].key) # {}
        /\ NeverExpires(deleting[d].key) =>
              /\ deleting[d].seen.ttlSeconds = 0
              /\ deleting[d].seen.version \in DOMAIN log[deleting[d].key]
              /\ log[deleting[d].key][deleting[d].seen.version].entry = deleting[d].seen
SwappingOK(c) ==
    swapping[c] # Idle =>
        /\ IsCounter(swapping[c].key)
        /\ NeverExpires(swapping[c].key) =>
              /\ swapping[c].commits <= Len(log[swapping[c].key])
              /\ swapping[c].seen # NoEntry =>
                    /\ swapping[c].commits \in DOMAIN log[swapping[c].key]
                    /\ swapping[c].seen.version = swapping[c].commits
                    /\ log[swapping[c].key][swapping[c].commits].entry = swapping[c].seen
LastsOK ==
    /\ \A k \in FullKeys : PermanentOK(k)
    /\ \A d \in Deleters : DeletingOK(d)
    /\ \A c \in CasClients : SwappingOK(c)

(* A commit without a TTL to a key that never expires.                     *)
LEMMA PermanentCommit ==
    ASSUME TypeOK, NEW k \in FullKeys, PermanentOK(k), NEW e, NEW outcome,
           Commits(k, e, 0, outcome), e.ttlSeconds = 0, workload' = workload
    PROVE  PermanentOK(k)'
<1>1. NeverExpires(k)' <=> NeverExpires(k)
  BY DEF NeverExpires, Writes, Appends, Increments
<1>2. /\ e \in Entry /\ e.version = CurrentVersion(k) + 1 /\ outcome \in {"written", "deleted"}
      /\ Commit(k, e, 0, outcome)
  BY DEF Commits
<1>3. ctx'[k] = e /\ ctxExpiresAt'[k] = NoExpiry /\ Len(log'[k]) = Len(log[k]) + 1
  BY <1>2, CommitCtx
<1>4. CurrentVersion(k)' = e.version
  BY <1>3 DEF CurrentVersion
<1>5. QED
  BY <1>1, <1>2, <1>3, <1>4 DEF PermanentOK

(* What a request without a TTL writes has none.                           *)
LEMMA PermanentStep ==
    ASSUME TypeOK, LastsOK, [Next]_vars, NEW k \in FullKeys
    PROVE  PermanentOK(k)'
<1> USE StoreConstants
<1>1. workload' = workload /\ PermanentOK(k)
  BY DEF Next, vars, LastsOK
<1>2. NeverExpires(k)' <=> NeverExpires(k)
  BY <1>1 DEF NeverExpires, Writes, Appends, Increments
<1>3. SUFFICES ASSUME NeverExpires(k)
               PROVE  PermanentOK(k)'
  BY <1>2 DEF PermanentOK
<1>4. now \in Nat
  BY DEF TypeOK
<1>5. CASE ByWrite(k)
  <2>1. PICK op \in OperationIds, r \in Writes(k) : WriteScript(k, op, Candidate(r), now)
    BY <1>5 DEF ByWrite
  <2>2. r \in WriteRequest /\ r.ttlSeconds = 0
    BY <1>3, RequestTypes DEF NeverExpires
  <2>3. /\ Candidate(r).value \in Value /\ Candidate(r).confidence \in Confidences
        /\ Candidate(r).ttlSeconds = 0 /\ Candidate(r).isDeleted \in BOOLEAN
    BY <2>2 DEF Candidate, WriteRequest
  <2>4. PICK e \in Entry, outcome \in {"written", "deleted"} :
           Commits(k, e, Candidate(r).ttlSeconds, outcome) /\ e.ttlSeconds = Candidate(r).ttlSeconds
    BY <1>4, <2>1, <2>3, WriteCommits
  <2>5. QED
    BY <1>1, <2>3, <2>4, PermanentCommit
<1>6. CASE ByAppend(k)
  <2>1. PICK op \in OperationIds, r \in Appends(k) : AppendTo(k, op, r)
    BY <1>6 DEF ByAppend
  <2>2. PICK e \in Entry :
           /\ Commits(k, e, r.ttlSeconds, "written")
           /\ e.value = AppendItems(IF Exists(k) THEN ctx[k].value ELSE EmptyArray,
                                    <<op>>, r.maxItems)
           /\ e.ttlSeconds = IF Exists(k) THEN ctx[k].ttlSeconds ELSE r.ttlSeconds
           /\ ~e.isDeleted /\ e.operationId = op
    BY <2>1, AppendCommits
  <2>3. r.ttlSeconds = 0 /\ e.ttlSeconds = 0
    BY <1>1, <1>3, <2>2 DEF NeverExpires, PermanentOK
  <2>4. QED
    BY <1>1, <2>2, <2>3, PermanentCommit
<1>7. CASE ByIncrement(k)
  <2>1. PICK op \in OperationIds, r \in Increments(k) : Increment(k, op, r)
    BY <1>7 DEF ByIncrement
  <2>2. PICK e \in Entry :
           /\ Commits(k, e, r.ttlSeconds, "written")
           /\ e.ttlSeconds = IF Exists(k) THEN ctx[k].ttlSeconds ELSE r.ttlSeconds
    BY <2>1, IncrementCommits
  <2>3. r.ttlSeconds = 0 /\ e.ttlSeconds = 0
    BY <1>1, <1>3, <2>2 DEF NeverExpires, PermanentOK
  <2>4. QED
    BY <1>1, <2>2, <2>3, PermanentCommit
<1>8. CASE ByDelete(k)
  <2>1. PICK d \in Deleters :
           /\ deleting[d] # Idle /\ deleting[d].key = k
           /\ WriteScript(k, deleting[d].operationId, Tombstone(deleting[d]), deleting[d].at)
    BY <1>8 DEF ByDelete
  <2>2. deleting[d] \in InDelete /\ deleting[d].seen.ttlSeconds = 0
    BY <1>3, <2>1 DEF TypeOK, LastsOK, DeletingOK
  <2>3. /\ deleting[d].operationId \in OperationIds /\ deleting[d].at \in Nat
        /\ Tombstone(deleting[d]).value \in Value /\ Tombstone(deleting[d]).confidence \in Confidences
        /\ Tombstone(deleting[d]).ttlSeconds = 0 /\ Tombstone(deleting[d]).isDeleted \in BOOLEAN
    BY <2>2 DEF InDelete, Tombstone, Entry
  <2>4. PICK e \in Entry, outcome \in {"written", "deleted"} :
           /\ Commits(k, e, Tombstone(deleting[d]).ttlSeconds, outcome)
           /\ e.ttlSeconds = Tombstone(deleting[d]).ttlSeconds
    BY <2>1, <2>3, WriteCommits
  <2>5. QED
    BY <1>1, <2>3, <2>4, PermanentCommit
<1>9. CASE ByCas(k)
  <2>1. PICK c \in CasClients, op \in OperationIds :
           /\ swapping[c] # Idle /\ swapping[c].key = k
           /\ WriteScript(k, op, CasRequest(swapping[c].seen), now)
    BY <1>9 DEF ByCas
  <2>2. swapping[c].seen \in Entry \cup {NoEntry}
    BY <2>1 DEF TypeOK, InCas
  <2>3. PICK e \in Entry, outcome \in {"written", "deleted"} :
           Commits(k, e, 0, outcome) /\ e.ttlSeconds = 0
    BY <1>4, <2>1, <2>2, CasCommits
  <2>4. QED
    BY <1>1, <2>3, PermanentCommit
<1>10. CASE Tick
  <2>1. ctx'[k] = ctx[k] /\ ctxExpiresAt'[k] = ctxExpiresAt[k] /\ log' = log
    BY <1>1, <1>3, <1>10 DEF Tick, Due, PermanentOK
  <2>2. QED
    BY <1>1, <1>3, <2>1 DEF PermanentOK, CurrentVersion, Exists
<1>11. CASE Left(k)
  BY <1>1, <1>3, <1>11 DEF Left, PermanentOK, CurrentVersion, Exists
<1>12. QED
  BY <1>5, <1>6, <1>7, <1>8, <1>9, <1>10, <1>11, KeyCases

LEMMA DeletingStep ==
    ASSUME TypeOK, LoggedOK, LastsOK, [Next]_vars, NEW d \in Deleters
    PROVE  DeletingOK(d)'
<1>1. workload' = workload /\ DeletingOK(d) /\ deleting \in [Deleters -> InDelete \cup {Idle}]
  BY DEF Next, vars, LastsOK, TypeOK
<1>2. /\ \A k : NeverExpires(k)' <=> NeverExpires(k)
      /\ \A k : DeleteExpects(k)' = DeleteExpects(k)
  BY <1>1 DEF NeverExpires, Writes, Appends, Increments, DeleteExpects
<1>3. CASE deleting'[d] = deleting[d]
  <2>1. SUFFICES ASSUME deleting[d] # Idle
                 PROVE  DeletingOK(d)'
    BY <1>3 DEF DeletingOK
  <2>2. PICK k \in FullKeys : k = deleting[d].key
    BY <1>1, <2>1 DEF InDelete
  <2>3. DeleteExpects(k)' # {}
    BY <1>1, <1>2, <2>1, <2>2 DEF DeletingOK
  <2>4. \A i \in DOMAIN log[k] : i \in DOMAIN log'[k] /\ log'[k][i] = log[k][i]
    BY LogGrows
  <2>5. CASE ~NeverExpires(k)
    BY <1>2, <1>3, <2>2, <2>3, <2>5 DEF DeletingOK
  <2>6. CASE NeverExpires(k)
    <3>1. /\ deleting[d].seen.ttlSeconds = 0
          /\ deleting[d].seen.version \in DOMAIN log[k]
          /\ log[k][deleting[d].seen.version].entry = deleting[d].seen
      BY <1>1, <2>1, <2>2, <2>6 DEF DeletingOK
    <3>2. /\ deleting[d].seen.version \in DOMAIN log'[k]
          /\ log'[k][deleting[d].seen.version].entry = deleting[d].seen
      BY <2>4, <3>1
    <3>3. QED
      BY <1>3, <2>2, <2>3, <3>1, <3>2 DEF DeletingOK
  <2>7. QED
    BY <2>5, <2>6
<1>4. CASE deleting'[d] = Idle
  BY <1>4 DEF DeletingOK
<1>5. ASSUME NEW k \in FullKeys, NEW op \in OperationIds, NEW x \in DeleteExpects(k),
             DeleteRead(d, k, op, x)
      PROVE  DeletingOK(d)'
  <2>1. deleting'[d].key = k /\ deleting'[d].seen = ctx[k] /\ Exists(k) /\ log' = log
    BY <1>1, <1>5 DEF DeleteRead, Readable
  <2>2. PermanentOK(k) /\ Logged(k) /\ DeleteExpects(k) # {}
    BY DEF LastsOK, LoggedOK
  <2>3. Len(log[k]) \in Nat /\ DOMAIN log[k] = 1..Len(log[k])
    BY DEF TypeOK
  <2>4. ASSUME NeverExpires(k)
        PROVE  /\ ctx[k].ttlSeconds = 0 /\ ctx[k].version \in DOMAIN log[k]
               /\ log[k][ctx[k].version].entry = ctx[k]
    BY <2>1, <2>2, <2>3, <2>4 DEF PermanentOK, Logged, CurrentVersion
  <2>5. QED
    BY <1>2, <2>1, <2>2, <2>4 DEF DeletingOK
<1>6. ASSUME NEW j \in Deleters, deleting' = [deleting EXCEPT ![j] = Idle]
      PROVE  DeletingOK(d)'
  <2>1. deleting'[d] = deleting[d] \/ deleting'[d] = Idle
    BY <1>1, <1>6
  <2>2. QED
    BY <1>3, <1>4, <2>1
<1>7. ASSUME NEW j \in Deleters, j # d, NEW k, NEW op, NEW x, DeleteRead(j, k, op, x)
      PROVE  DeletingOK(d)'
  <2>1. deleting'[d] = deleting[d]
    BY <1>1, <1>7 DEF DeleteRead
  <2>2. QED
    BY <1>3, <2>1
<1>8. CASE deleting' = deleting
  BY <1>3, <1>8
<1>9. ASSUME NEW j \in Deleters, DeleteWrite(j)
      PROVE  DeletingOK(d)'
  BY <1>6, <1>9 DEF DeleteWrite
<1>10. QED
  BY <1>5, <1>7, <1>8, <1>9
     DEF Next, Step, vars, callers, Write, AppendTo, Increment, ListStart, ListGet, ListReturn,
         CasRead, CasWrite, Tick

LEMMA SwappingStep ==
    ASSUME TypeOK, LoggedOK, LastsOK, [Next]_vars, NEW c \in CasClients
    PROVE  SwappingOK(c)'
<1>1. workload' = workload /\ SwappingOK(c) /\ swapping \in [CasClients -> InCas \cup {Idle}]
  BY DEF Next, vars, LastsOK, TypeOK
<1>2. \A k : (NeverExpires(k)' <=> NeverExpires(k)) /\ (IsCounter(k)' <=> IsCounter(k))
  BY <1>1 DEF NeverExpires, IsCounter, Writes, Appends, Increments
<1>3. CASE swapping'[c] = swapping[c]
  <2>1. SUFFICES ASSUME swapping[c] # Idle
                 PROVE  SwappingOK(c)'
    BY <1>3 DEF SwappingOK
  <2>2. PICK k \in FullKeys : k = swapping[c].key
    BY <1>1, <2>1 DEF InCas
  <2>3. IsCounter(k)' /\ swapping[c].commits \in Nat
    BY <1>1, <1>2, <2>1, <2>2 DEF SwappingOK, InCas
  <2>4. /\ Len(log[k]) \in Nat /\ Len(log[k]) <= Len(log'[k]) /\ Len(log'[k]) \in Nat
        /\ \A i \in DOMAIN log[k] : i \in DOMAIN log'[k] /\ log'[k][i] = log[k][i]
    BY LogGrows
  <2>5. CASE ~NeverExpires(k)
    BY <1>2, <1>3, <2>2, <2>3, <2>5 DEF SwappingOK
  <2>6. CASE NeverExpires(k)
    <3>1. /\ swapping[c].commits <= Len(log[k])
          /\ swapping[c].seen # NoEntry =>
                /\ swapping[c].commits \in DOMAIN log[k]
                /\ swapping[c].seen.version = swapping[c].commits
                /\ log[k][swapping[c].commits].entry = swapping[c].seen
      BY <1>1, <2>1, <2>2, <2>6 DEF SwappingOK
    <3>2. swapping[c].commits <= Len(log'[k])
      BY <2>3, <2>4, <3>1
    <3>3. swapping[c].seen # NoEntry =>
                /\ swapping[c].commits \in DOMAIN log'[k]
                /\ log'[k][swapping[c].commits].entry = swapping[c].seen
      BY <2>4, <3>1
    <3>4. QED
      BY <1>3, <2>2, <2>3, <3>1, <3>2, <3>3 DEF SwappingOK
  <2>7. QED
    BY <2>5, <2>6
<1>4. CASE swapping'[c] = Idle
  BY <1>4 DEF SwappingOK
<1>5. ASSUME NEW k \in FullKeys, CasRead(c, k)
      PROVE  SwappingOK(c)'
  <2>1. /\ swapping'[c].key = k /\ swapping'[c].seen = Get(k) /\ swapping'[c].commits = Len(log[k])
        /\ IsCounter(k) /\ log' = log
    BY <1>1, <1>5 DEF CasRead
  <2>2. Len(log[k]) \in Nat /\ DOMAIN log[k] = 1..Len(log[k])
    BY DEF TypeOK
  <2>3. ASSUME NeverExpires(k), Get(k) # NoEntry
        PROVE  /\ Len(log[k]) \in DOMAIN log[k]
               /\ Get(k).version = Len(log[k]) /\ log[k][Len(log[k])].entry = Get(k)
    <3>1. Get(k) = ctx[k] /\ Exists(k) /\ PermanentOK(k) /\ Logged(k)
      BY <2>3 DEF Get, Readable, LastsOK, LoggedOK
    <3>2. QED
      BY <2>2, <2>3, <3>1 DEF PermanentOK, Logged, CurrentVersion
  <2>4. QED
    BY <1>2, <2>1, <2>2, <2>3 DEF SwappingOK
<1>6. ASSUME NEW b \in CasClients, NEW op \in OperationIds, CasWrite(b, op)
      PROVE  SwappingOK(c)'
  <2>1. swapping'[c] = swapping[c] \/ swapping'[c] = Idle
    BY <1>1, <1>6 DEF CasWrite
  <2>2. QED
    BY <1>3, <1>4, <2>1
<1>7. ASSUME NEW b \in CasClients, b # c, NEW k, CasRead(b, k)
      PROVE  SwappingOK(c)'
  <2>1. swapping'[c] = swapping[c]
    BY <1>1, <1>7 DEF CasRead
  <2>2. QED
    BY <1>3, <2>1
<1>8. CASE swapping' = swapping
  BY <1>3, <1>8
<1>9. QED
  BY <1>5, <1>6, <1>7, <1>8
     DEF Next, Step, vars, callers, Write, AppendTo, Increment, ListStart, ListGet, ListReturn,
         DeleteRead, DeleteWrite, Tick

LEMMA LastsStep ==
    ASSUME TypeOK, LoggedOK, LastsOK, [Next]_vars
    PROVE  LastsOK'
BY PermanentStep, DeletingStep, SwappingStep DEF LastsOK

LEMMA LastsInit == Init => LoggedOK /\ LastsOK
BY DEF Init, LoggedOK, Logged, Exists, LastsOK, PermanentOK, DeletingOK, SwappingOK, CurrentVersion,
       NoEntry

(* Who writes with the version it read writes next, as long as versions    *)
(* are not used again.                                                     *)
LEMMA CasMatches ==
    ASSUME TypeOK, LoggedOK, LastsOK, NEW k \in FullKeys, NEW c \in CasClients,
           NEW op \in OperationIds, swapping[c] # Idle, swapping[c].key = k, NeverExpires(k),
           WriteScript(k, op, CasRequest(swapping[c].seen), now)
    PROVE  /\ Len(log[k]) = swapping[c].commits
           /\ swapping[c].seen = ctx[k]
<1>1. swapping[c] \in InCas /\ swapping[c].seen \in Entry \cup {NoEntry} /\ swapping[c].commits \in Nat
  BY DEF TypeOK, InCas
<1>2. Decision(k, CasRequest(swapping[c].seen)) \in {"written", "deleted"}
  BY <1>1, CasCommits
<1>3. CurrentVersion(k) = swapping[c].seen.version
  <2>1. ~CasFails(k, CasRequest(swapping[c].seen))
    BY <1>2 DEF Decision
  <2>2. swapping[c].seen.version \in Nat
    BY <1>1 DEF Entry, NoEntry
  <2>3. QED
    BY <2>1, <2>2 DEF CasFails, CasGiven, CasRequest, None
<1>4. /\ CurrentVersion(k) = Len(log[k]) /\ Logged(k)
      /\ swapping[c].commits <= Len(log[k])
      /\ swapping[c].seen # NoEntry =>
            /\ swapping[c].seen.version = swapping[c].commits
            /\ log[k][swapping[c].commits].entry = swapping[c].seen
  BY DEF LastsOK, LoggedOK, PermanentOK, SwappingOK
<1>5. CASE swapping[c].seen = NoEntry
  <2>1. CurrentVersion(k) = 0 /\ Len(log[k]) = 0
    <3>1. NoEntry.version = 0
      BY DEF NoEntry
    <3>2. QED
      BY <1>3, <1>4, <1>5, <3>1
  <2>2. ctx[k] = NoEntry
    BY <2>1, EntryFacts DEF CurrentVersion, TypeOK
  <2>3. QED
    BY <1>1, <1>4, <1>5, <2>1, <2>2
<1>6. CASE swapping[c].seen # NoEntry
  <2>1. Len(log[k]) = swapping[c].commits /\ CurrentVersion(k) > 0
    BY <1>1, <1>3, <1>4, <1>6, EntryFacts
  <2>2. Exists(k)
    BY <2>1 DEF Exists, CurrentVersion, NoEntry
  <2>3. QED
    BY <1>4, <1>6, <2>1, <2>2 DEF Logged
<1>7. QED
  BY <1>5, <1>6

(* A compare-and-set that commits follows its own read at once, on every   *)
(* key that never expires, whatever increments, deletes and other          *)
(* compare-and-sets race it.                                               *)
THEOREM CasIsExclusive == Spec => CasExclusive
<1>1. ASSUME TypeOK, LoggedOK, LastsOK, [Next]_vars, NEW c \in CasClients,
             swapping[c] # Idle, swapping'[c] = Idle, log' # log,
             NeverExpires(swapping[c].key)
      PROVE  Len(log[swapping[c].key]) = swapping[c].commits
  <2>1. swapping \in [CasClients -> InCas \cup {Idle}] /\ swapping[c].key \in FullKeys
    BY <1>1 DEF TypeOK, InCas
  <2>2. PICK op \in OperationIds : CasWrite(c, op)
    <3>1. ASSUME NEW b \in CasClients, NEW op \in OperationIds, CasWrite(b, op), b # c
          PROVE  FALSE
      BY <1>1, <2>1, <3>1 DEF CasWrite
    <3>2. ASSUME NEW b \in CasClients, NEW k \in FullKeys, CasRead(b, k)
          PROVE  FALSE
      BY <1>1, <3>2 DEF CasRead
    <3>3. swapping' # swapping
      BY <1>1
    <3>4. QED
      BY <1>1, <3>1, <3>2, <3>3
         DEF Next, Step, vars, callers, Write, AppendTo, Increment, ListStart, ListGet, ListReturn,
             DeleteRead, DeleteWrite, Tick
  <2>3. WriteScript(swapping[c].key, op, CasRequest(swapping[c].seen), now)
    BY <1>1, <2>2 DEF CasWrite
  <2>4. QED
    BY <1>1, <2>1, <2>3, CasMatches
<1>2. ASSUME TypeOK, LoggedOK, LastsOK, [Next]_vars
      PROVE  \A c \in CasClients :
                (swapping[c] # Idle /\ swapping'[c] = Idle /\ log' # log
                    /\ NeverExpires(swapping[c].key))
                  => Len(log[swapping[c].key]) = swapping[c].commits
  BY <1>1, <1>2
<1>3. QED
  BY <1>2, LastsInit, LastsStep, LoggedStep, TypeCorrect, PTL DEF Spec, CasExclusive

(* Who deletes with a version it can know of deletes the entry it read:    *)
(* the script compares the version, and versions are not used again.       *)
LEMMA DeleteMatches ==
    ASSUME TypeOK, LoggedOK, LastsOK, NEW d \in Deleters, deleting[d] # Idle,
           NeverExpires(deleting[d].key), NamesVersionSeen(deleting[d]),
           WriteScript(deleting[d].key, deleting[d].operationId, Tombstone(deleting[d]),
                       deleting[d].at)
    PROVE  /\ ctx[deleting[d].key] = deleting[d].seen
           /\ ctx'[deleting[d].key].isDeleted
           /\ ctx'[deleting[d].key].value = deleting[d].seen.value
<1> DEFINE del == deleting[d]
           k   == del.key
           r   == Tombstone(del)
<1>1. /\ del \in InDelete /\ k \in FullKeys /\ del.seen \in Entry /\ del.at \in Nat
      /\ del.operationId \in OperationIds /\ del.expectedVersion \in Nat \cup {None}
  BY DEF TypeOK, InDelete
<1>2. /\ r.value = del.seen.value /\ r.value \in Value /\ r.confidence \in Confidences
      /\ r.ttlSeconds \in Nat /\ r.isDeleted = TRUE /\ r.expectedVersion = del.expectedVersion
  BY <1>1 DEF Tombstone, Entry
<1>3. PICK e \in Entry, outcome \in {"written", "deleted"} :
         /\ Commits(k, e, r.ttlSeconds, outcome)
         /\ e.value = LuaResolve(ctx[k], r, CasGiven(r)).value /\ e.isDeleted = r.isDeleted
  <2> HIDE DEF r
  <2>1. r.isDeleted \in BOOLEAN
    BY <1>2
  <2>2. WriteScript(k, del.operationId, r, del.at)
    BY DEF r
  <2> HIDE DEF k, del
  <2>3. QED
    BY <1>1, <1>2, <2>1, <2>2, WriteCommits
<1>4. Decision(k, r) \in {"written", "deleted"}
  <2> HIDE DEF r
  <2>1. r.isDeleted \in BOOLEAN
    BY <1>2
  <2>2. WriteScript(k, del.operationId, r, del.at)
    BY DEF r
  <2> HIDE DEF k, del
  <2>3. QED
    BY <1>1, <1>2, <2>1, <2>2, WriteCommits
<1>5. del.seen.version \in Nat /\ del.expectedVersion \in 1 .. del.seen.version
  BY <1>1 DEF Entry, NamesVersionSeen
<1>6. CurrentVersion(k) = del.expectedVersion
  <2> HIDE DEF r, k, del
  <2>1. ~CasFails(k, r)
    BY <1>4 DEF Decision
  <2>2. del.expectedVersion # None
    BY <1>5 DEF None
  <2>3. QED
    BY <1>2, <2>1, <2>2 DEF CasFails, CasGiven
<1>7. /\ CurrentVersion(k) = Len(log[k]) /\ Logged(k) /\ PermanentOK(k)
      /\ del.seen.version \in DOMAIN log[k] /\ log[k][del.seen.version].entry = del.seen
  BY <1>1 DEF LastsOK, LoggedOK, PermanentOK, DeletingOK
<1>8. DOMAIN log[k] = 1..Len(log[k]) /\ Len(log[k]) \in Nat
  BY <1>1 DEF TypeOK
<1>9. del.seen.version = Len(log[k]) /\ CurrentVersion(k) > 0
  <2> HIDE DEF k, del
  <2>1. QED
    BY <1>5, <1>6, <1>7, <1>8
<1>10. ctx[k] = del.seen
  <2> HIDE DEF k, del
  <2>1. Exists(k)
    BY <1>9 DEF Exists, CurrentVersion, NoEntry
  <2>2. QED
    BY <1>7, <1>9, <2>1 DEF Logged
<1>11. ctx'[k] = e
  <2> HIDE DEF k, del, r
  <2>1. QED
    BY <1>1, <1>3, CommitCtx DEF Commits
<1>12. LuaResolve(ctx[k], r, CasGiven(r)).value = r.value
  BY <1>2 DEF LuaResolve, IncomingWins
<1>13. QED
  BY <1>2, <1>3, <1>10, <1>11, <1>12

(* What a caller commits it commits as itself: a delete whose end changes  *)
(* the log has run its script.                                             *)
LEMMA DeleteIsOwn ==
    ASSUME TypeOK, [Next]_vars, NEW d \in Deleters,
           deleting[d] # Idle, deleting'[d] = Idle, log' # log
    PROVE  WriteScript(deleting[d].key, deleting[d].operationId, Tombstone(deleting[d]),
                       deleting[d].at)
<1>1. deleting \in [Deleters -> InDelete \cup {Idle}]
  BY DEF TypeOK
<1>2. ASSUME NEW j \in Deleters, DeleteWrite(j), j # d
      PROVE  FALSE
  BY <1>1, <1>2 DEF DeleteWrite
<1>3. ASSUME NEW j \in Deleters, NEW k, NEW op, NEW x, DeleteRead(j, k, op, x)
      PROVE  FALSE
  BY <1>3 DEF DeleteRead
<1>4. DeleteWrite(d)
  BY <1>2, <1>3
     DEF Next, Step, vars, callers, Write, AppendTo, Increment, ListStart, ListGet, ListReturn,
         CasRead, CasWrite, Tick
<1>5. QED
  BY <1>4 DEF DeleteWrite

(* A delete that names a version makes a tombstone of the entry it read,   *)
(* on every key that never expires and whatever writes race it, and a list *)
(* unlists a live key only if it was written while the list ran.           *)
THEOREM ActsOnReads == Spec => ActsOnWhatItRead
<1>1. Init => ListOK
  BY DEF Init, ListOK, SinceOK, StaleOK
<1>2. ASSUME TypeOK, LoggedOK, LastsOK, ListOK, [Next]_vars
      PROVE  /\ \A d \in Deleters : DeletesWhatItRead(d)
             /\ \A k \in FullKeys : UnlistsOnlyRewritten(k)
  <2>1. ASSUME NEW d \in Deleters
        PROVE  DeletesWhatItRead(d)
    <3>1. SUFFICES ASSUME deleting[d] # Idle, deleting'[d] = Idle, log' # log,
                          NeverExpires(deleting[d].key), NamesVersionSeen(deleting[d])
                   PROVE  /\ ctx[deleting[d].key] = deleting[d].seen
                          /\ ctx'[deleting[d].key].isDeleted
                          /\ ctx'[deleting[d].key].value = deleting[d].seen.value
      BY DEF DeletesWhatItRead
    <3>2. QED
      BY <1>2, <3>1, DeleteIsOwn, DeleteMatches
  <2>2. QED
    BY <1>2, <2>1, ListUnlists
<1>3. QED
  BY <1>1, <1>2, ListStep, LastsInit, LastsStep, LoggedStep, TypeCorrect, PTL
     DEF Spec, ActsOnWhatItRead

-----------------------------------------------------------------------------
(* Keys that last: nothing but an update changes them, and each update     *)
(* starts from what the one before it left.                                *)
Untouched(k) == ctx'[k] = ctx[k] /\ log'[k] = log[k]

UpdatedBy(k, e) ==
    \/ \E r \in Writes(k) :
          /\ Decision(k, Candidate(r)) \in {"written", "deleted"}
          /\ e.value = LuaResolve(ctx[k], Candidate(r), CasGiven(r)).value
          /\ e.confidence = r.confidence
    \/ \E r \in Appends(k) :
          /\ Exists(k) => LuaIsArray(ctx[k].value)
          /\ e.value = AppendItems(IF Exists(k) THEN ctx[k].value ELSE EmptyArray,
                                   <<e.operationId>>, r.maxItems)
    \/ \E r \in Increments(k) :
          /\ Exists(k) => LuaIsNumeric(ctx[k].value)
          /\ e.value = AddTo(IF Exists(k) THEN ctx[k].value ELSE <<"number", 0>>, r.by)
    \/ /\ IsCounter(k)
       /\ e.value = IF Exists(k) THEN AddTo(ctx[k].value, 1) ELSE <<"number", 1>>

Updated(k, e) ==
    /\ e \in Entry /\ e.version = CurrentVersion(k) + 1 /\ ~e.isDeleted
    /\ ctx'[k] = e
    /\ Len(log[k]) \in Nat /\ DOMAIN log[k] = 1 .. Len(log[k])
    /\ Len(log'[k]) = Len(log[k]) + 1 /\ DOMAIN log'[k] = 1 .. Len(log[k]) + 1
    /\ \A i \in DOMAIN log[k] : log'[k][i] = log[k][i]
    /\ log'[k][Len(log[k]) + 1].entry = e
    /\ UpdatedBy(k, e)

LEMMA UpdatedCommit ==
    ASSUME TypeOK, NEW k \in FullKeys, NEW e, NEW ttl, NEW outcome,
           Commits(k, e, ttl, outcome), ~e.isDeleted, UpdatedBy(k, e)
    PROVE  Updated(k, e)
<1>1. /\ e \in Entry /\ ttl \in Nat /\ outcome \in {"written", "deleted"}
      /\ e.version = CurrentVersion(k) + 1 /\ Commit(k, e, ttl, outcome)
  BY DEF Commits
<1>2. /\ ctx'[k] = e /\ Len(log[k]) \in Nat /\ Len(log'[k]) = Len(log[k]) + 1
      /\ log'[k][Len(log'[k])].entry = e
  BY <1>1, CommitCtx
<1>3. /\ DOMAIN log[k] = 1 .. Len(log[k]) /\ DOMAIN log'[k] = 1 .. Len(log[k]) + 1
      /\ \A i \in DOMAIN log[k] : log'[k][i] = log[k][i]
  BY <1>1, CommitLog, ZenonT(40)
<1>4. QED
  BY <1>1, <1>2, <1>3 DEF Updated

LEMMA LastingCases ==
    ASSUME TypeOK, LoggedOK, LastsOK, [Next]_vars, NEW k \in FullKeys, Lasting(k)
    PROVE  Untouched(k) \/ \E e : Updated(k, e)
<1>1. NeverExpires(k) /\ DeleteExpects(k) = {} /\ PermanentOK(k) /\ now \in Nat
  BY DEF Lasting, LastsOK, TypeOK
<1>2. CASE ByWrite(k)
  <2>1. PICK op \in OperationIds, r \in Writes(k) : WriteScript(k, op, Candidate(r), now)
    BY <1>2 DEF ByWrite
  <2>2. r \in WriteRequest
    BY RequestTypes
  <2>3. /\ Candidate(r).value \in Value /\ Candidate(r).confidence \in Confidences
        /\ Candidate(r).ttlSeconds \in Nat /\ Candidate(r).isDeleted \in BOOLEAN
        /\ ~Candidate(r).isDeleted /\ Candidate(r).confidence = r.confidence
        /\ CasGiven(Candidate(r)) = CasGiven(r)
    BY <2>2 DEF Candidate, WriteRequest, CasGiven
  <2>4. /\ Decision(k, Candidate(r)) \in {"written", "deleted"}
        /\ \E e \in Entry, outcome \in {"written", "deleted"} :
              /\ Commits(k, e, Candidate(r).ttlSeconds, outcome)
              /\ e.value = LuaResolve(ctx[k], Candidate(r), CasGiven(Candidate(r))).value
              /\ e.confidence = Candidate(r).confidence /\ e.ttlSeconds = Candidate(r).ttlSeconds
              /\ e.isDeleted = Candidate(r).isDeleted /\ e.operationId = op
    BY <1>1, <2>1, <2>3, WriteCommits
  <2>5. PICK e \in Entry, outcome \in {"written", "deleted"} :
              /\ Commits(k, e, Candidate(r).ttlSeconds, outcome)
              /\ e.value = LuaResolve(ctx[k], Candidate(r), CasGiven(Candidate(r))).value
              /\ e.confidence = Candidate(r).confidence
              /\ e.isDeleted = Candidate(r).isDeleted
    BY <2>4
  <2>6. UpdatedBy(k, e) /\ ~e.isDeleted
    BY <2>3, <2>4, <2>5 DEF UpdatedBy
  <2>7. QED
    BY <2>5, <2>6, UpdatedCommit
<1>3. CASE ByAppend(k)
  <2>1. PICK op \in OperationIds, r \in Appends(k) : AppendTo(k, op, r)
    BY <1>3 DEF ByAppend
  <2>2. /\ Exists(k) => LuaIsArray(ctx[k].value)
        /\ \E e \in Entry :
              /\ Commits(k, e, r.ttlSeconds, "written")
              /\ e.value = AppendItems(IF Exists(k) THEN ctx[k].value ELSE EmptyArray,
                                       <<op>>, r.maxItems)
              /\ e.ttlSeconds = IF Exists(k) THEN ctx[k].ttlSeconds ELSE r.ttlSeconds
              /\ ~e.isDeleted /\ e.operationId = op
    BY <2>1, AppendCommits
  <2>3. PICK e \in Entry :
              /\ Commits(k, e, r.ttlSeconds, "written")
              /\ e.value = AppendItems(IF Exists(k) THEN ctx[k].value ELSE EmptyArray,
                                       <<op>>, r.maxItems)
              /\ ~e.isDeleted /\ e.operationId = op
    BY <2>2
  <2>4. UpdatedBy(k, e)
    BY <2>2, <2>3 DEF UpdatedBy
  <2>5. QED
    BY <2>3, <2>4, UpdatedCommit
<1>4. CASE ByIncrement(k)
  <2>1. PICK op \in OperationIds, r \in Increments(k) : Increment(k, op, r)
    BY <1>4 DEF ByIncrement
  <2>2. /\ Exists(k) => LuaIsNumeric(ctx[k].value)
        /\ \E e \in Entry :
              /\ Commits(k, e, r.ttlSeconds, "written")
              /\ e.value = AddTo(IF Exists(k) THEN ctx[k].value ELSE <<"number", 0>>, r.by)
              /\ e.ttlSeconds = IF Exists(k) THEN ctx[k].ttlSeconds ELSE r.ttlSeconds
              /\ ~e.isDeleted /\ e.operationId = op
    BY <2>1, IncrementCommits
  <2>3. PICK e \in Entry :
              /\ Commits(k, e, r.ttlSeconds, "written")
              /\ e.value = AddTo(IF Exists(k) THEN ctx[k].value ELSE <<"number", 0>>, r.by)
              /\ ~e.isDeleted
    BY <2>2
  <2>4. UpdatedBy(k, e)
    BY <2>2, <2>3 DEF UpdatedBy
  <2>5. QED
    BY <2>3, <2>4, UpdatedCommit
<1>5. CASE ByDelete(k)
  BY <1>1, <1>5 DEF ByDelete, LastsOK, DeletingOK
<1>6. CASE ByCas(k)
  <2>1. PICK c \in CasClients, op \in OperationIds :
           /\ swapping[c] # Idle /\ swapping[c].key = k
           /\ WriteScript(k, op, CasRequest(swapping[c].seen), now)
    BY <1>6 DEF ByCas
  <2>2. swapping[c].seen \in Entry \cup {NoEntry} /\ IsCounter(k)
    BY <2>1 DEF TypeOK, InCas, LastsOK, SwappingOK
  <2>3. swapping[c].seen = ctx[k]
    BY <1>1, <2>1, CasMatches
  <2>4. PICK e \in Entry, outcome \in {"written", "deleted"} :
           /\ Commits(k, e, 0, outcome)
           /\ e.value = CasRequest(swapping[c].seen).value /\ ~e.isDeleted
    BY <2>1, <2>2, CasCommits
  <2>5. UpdatedBy(k, e)
    BY <2>2, <2>3, <2>4 DEF UpdatedBy, CasRequest, Exists
  <2>6. QED
    BY <2>4, <2>5, UpdatedCommit
<1>7. CASE Tick
  BY <1>1, <1>7 DEF Tick, Due, PermanentOK, Untouched
<1>8. CASE Left(k)
  BY <1>8 DEF Left, Untouched
<1>9. QED
  BY <1>2, <1>3, <1>4, <1>5, <1>6, <1>7, <1>8, KeyCases

(* The requests made of a key are the same after a step.                   *)
LEMMA SameRequests ==
    ASSUME [Next]_vars, NEW k
    PROVE  /\ Writes(k)' = Writes(k) /\ Appends(k)' = Appends(k)
           /\ Increments(k)' = Increments(k) /\ (Lasting(k)' <=> Lasting(k))
           /\ (IsCounter(k)' <=> IsCounter(k)) /\ workload'[k] = workload[k]
BY DEF Next, vars, Writes, Appends, Increments, Lasting, NeverExpires, DeleteExpects, IsCounter

(* What lasts is alive, and what is counted is a number: that of its       *)
(* commits, when each counts one.                                          *)
ByOnes(k) == \A r \in Increments(k) : r.by = 1
LivingOK ==
    \A k \in FullKeys : Lasting(k) /\ Exists(k) =>
        /\ ~ctx[k].isDeleted
        /\ IsCounter(k) =>
              /\ ctx[k].value[1] = "number"
              /\ ByOnes(k) => ctx[k].value = <<"number", CurrentVersion(k)>>

LEMMA LivingStep ==
    ASSUME TypeOK, LoggedOK, LastsOK, LivingOK, [Next]_vars
    PROVE  LivingOK'
<1>1. SUFFICES ASSUME NEW k \in FullKeys, Lasting(k), Exists(k)'
               PROVE  /\ ~ctx'[k].isDeleted
                      /\ IsCounter(k) =>
                            /\ ctx'[k].value[1] = "number"
                            /\ ByOnes(k) => ctx'[k].value = <<"number", ctx'[k].version>>
  BY SameRequests DEF LivingOK, ByOnes, CurrentVersion
<1>2. CASE Untouched(k)
  BY <1>1, <1>2 DEF Untouched, LivingOK, Exists, CurrentVersion
<1>3. ASSUME NEW e, Updated(k, e)
      PROVE  /\ ~ctx'[k].isDeleted
             /\ IsCounter(k) =>
                   /\ ctx'[k].value[1] = "number"
                   /\ ByOnes(k) => ctx'[k].value = <<"number", ctx'[k].version>>
  <2>1. ctx'[k] = e /\ ~e.isDeleted /\ e.version = CurrentVersion(k) + 1 /\ UpdatedBy(k, e)
    BY <1>3 DEF Updated
  <2>2. CurrentVersion(k) \in Nat /\ (~Exists(k) => CurrentVersion(k) = 0)
    BY VersionIsNat DEF CurrentVersion, Exists, NoEntry
  <2>3. ASSUME IsCounter(k), ByOnes(k)
        PROVE  e.value = <<"number", CurrentVersion(k) + 1>>
    <3>1. e.value = IF Exists(k) THEN AddTo(ctx[k].value, 1) ELSE <<"number", 1>>
      BY <2>1, <2>3 DEF UpdatedBy, IsCounter, ByOnes, AddTo
    <3>2. Exists(k) => ctx[k].value = <<"number", CurrentVersion(k)>>
      BY <1>1, <2>3 DEF LivingOK
    <3>3. QED
      BY <2>2, <3>1, <3>2 DEF AddTo
  <2>4. ASSUME IsCounter(k)
        PROVE  e.value[1] = "number"
    BY <2>1, <2>4 DEF UpdatedBy, IsCounter, AddTo
  <2>5. QED
    BY <2>1, <2>3, <2>4
<1>4. QED
  BY <1>1, <1>2, <1>3, LastingCases

(* The last record of a lasting key's log is of the live entry it holds.   *)
LEMMA LastOfLasting ==
    ASSUME TypeOK, LoggedOK, LastsOK, LivingOK, NEW k \in FullKeys, Lasting(k),
           DOMAIN log[k] # {}
    PROVE  /\ Exists(k) /\ Live(ctx[k])
           /\ Len(log[k]) \in DOMAIN log[k] /\ log[k][Len(log[k])].entry = ctx[k]
<1>1. Len(log[k]) \in Nat /\ DOMAIN log[k] = 1 .. Len(log[k])
  BY DEF TypeOK
<1>2. CurrentVersion(k) = Len(log[k]) /\ Logged(k)
  BY DEF Lasting, LastsOK, PermanentOK, LoggedOK
<1>3. CurrentVersion(k) > 0
  BY <1>1, <1>2
<1>4. Exists(k)
  <2>1. NoEntry.version = 0
    BY DEF NoEntry
  <2>2. QED
    BY <1>3, <2>1 DEF Exists, CurrentVersion
<1>5. QED
  BY <1>1, <1>2, <1>3, <1>4 DEF Logged, LivingOK, Live, CurrentVersion

(* Every record of a log is of its type.                                   *)
LEMMA LoggedTypes ==
    ASSUME TypeOK, NEW k \in FullKeys, NEW i \in DOMAIN log[k]
    PROVE  /\ log[k][i].entry \in Entry /\ log[k][i].entry.confidence \in Confidences
           /\ log[k][i].entry.operationId \in OperationIds
<1>1. log[k] \in Seq(LogRecord)
  BY DEF TypeOK
<1>2. log[k][i] \in LogRecord
  BY <1>1
<1>3. QED
  BY <1>2 DEF LogRecord, Entry

-----------------------------------------------------------------------------
(* A merge keeps the fields of what it meets; so does every update of a    *)
(* key whose writes are merges of objects.                                 *)
LEMMA FieldsStep ==
    ASSUME TypeOK, LoggedOK, LastsOK, LivingOK, FieldsAreKept, [Next]_vars
    PROVE  FieldsAreKept'
<1>1. SUFFICES ASSUME NEW k \in FullKeys,
                      \A r \in Writes(k) : r.strategy = "merge" /\ r.value[1] = "object",
                      Lasting(k), NEW i \in DOMAIN log'[k], NEW j \in DOMAIN log'[k], i < j
               PROVE  FieldsOf(log'[k][i].entry.value) \subseteq FieldsOf(log'[k][j].entry.value)
  BY SameRequests DEF FieldsAreKept
<1>2. \A m, n \in DOMAIN log[k] : m < n =>
         FieldsOf(log[k][m].entry.value) \subseteq FieldsOf(log[k][n].entry.value)
  BY <1>1 DEF FieldsAreKept
<1>3. CASE Untouched(k)
  BY <1>1, <1>2, <1>3 DEF Untouched
<1>4. ASSUME NEW e, Updated(k, e)
      PROVE  FieldsOf(log'[k][i].entry.value) \subseteq FieldsOf(log'[k][j].entry.value)
  <2>1. /\ Len(log[k]) \in Nat /\ DOMAIN log[k] = 1 .. Len(log[k])
        /\ DOMAIN log'[k] = 1 .. Len(log[k]) + 1
        /\ \A m \in DOMAIN log[k] : log'[k][m] = log[k][m]
        /\ log'[k][Len(log[k]) + 1].entry = e
        /\ UpdatedBy(k, e)
    BY <1>4 DEF Updated
  <2>2. i \in DOMAIN log[k]
    BY <1>1, <2>1
  <2>3. CASE j \in DOMAIN log[k]
    BY <1>1, <1>2, <2>1, <2>2, <2>3
  <2>4. CASE j \notin DOMAIN log[k]
    <3>1. /\ Exists(k) /\ Live(ctx[k])
          /\ Len(log[k]) \in DOMAIN log[k] /\ log[k][Len(log[k])].entry = ctx[k]
      BY <1>1, <2>2, LastOfLasting
    <3>2. FieldsOf(log[k][i].entry.value) \subseteq FieldsOf(ctx[k].value)
      <4>1. CASE i = Len(log[k])
        BY <3>1, <4>1
      <4>2. CASE i < Len(log[k])
        <5>1. FieldsOf(log[k][i].entry.value) \subseteq FieldsOf(log[k][Len(log[k])].entry.value)
          BY <1>2, <2>2, <3>1, <4>2
        <5>2. QED
          BY <3>1, <5>1
      <4>3. QED
        BY <2>1, <2>2, <4>1, <4>2
    <3>3. FieldsOf(ctx[k].value) \subseteq FieldsOf(e.value)
      <4>1. CASE ctx[k].value[1] # "object"
        BY <4>1 DEF FieldsOf
      <4>2. ASSUME NEW r \in Writes(k), ctx[k].value[1] = "object",
                   e.value = LuaResolve(ctx[k], Candidate(r), CasGiven(r)).value
            PROVE  FieldsOf(ctx[k].value) \subseteq FieldsOf(e.value)
        <5>1. /\ Candidate(r).strategy = "merge" /\ ~Candidate(r).isDeleted
              /\ LuaIsObject(ctx[k].value) /\ LuaIsObject(Candidate(r).value)
          BY <1>1, <4>2 DEF Candidate, LuaIsObject
        <5>2. e.value = <<"object", Overlay(ctx[k].value[2], Candidate(r).value[2])>>
          BY <3>1, <4>2, <5>1 DEF LuaResolve, IncomingWins
        <5>3. FieldsOf(e.value) = DOMAIN ctx[k].value[2] \cup DOMAIN Candidate(r).value[2]
          BY <5>2 DEF FieldsOf, Overlay
        <5>4. QED
          BY <4>2, <5>3 DEF FieldsOf
      <4>3. CASE ctx[k].value[1] = "object" /\ LuaIsArray(ctx[k].value)
        BY <4>3 DEF LuaIsArray, FieldsOf
      <4>4. CASE IsCounter(k)
        BY <1>1, <3>1, <4>4 DEF LivingOK, FieldsOf
      <4>5. ctx[k].value[1] = "object" => ~LuaIsNumeric(ctx[k].value)
        BY DEF LuaIsNumeric
      <4>6. QED
        BY <2>1, <3>1, <4>1, <4>2, <4>3, <4>4, <4>5 DEF UpdatedBy
    <3>4. j = Len(log[k]) + 1
      BY <2>1, <2>4
    <3>5. QED
      BY <2>1, <2>2, <3>2, <3>3, <3>4
  <2>5. QED
    BY <2>3, <2>4
<1>5. QED
  BY <1>1, <1>3, <1>4, LastingCases

(* Among writes of the confidence strategy, the next one to win is the     *)
(* more confident.                                                         *)
LEMMA ClimbStep ==
    ASSUME TypeOK, LoggedOK, LastsOK, LivingOK, ConfidenceClimbs, [Next]_vars
    PROVE  ConfidenceClimbs'
<1>1. SUFFICES ASSUME NEW k \in FullKeys, Appends(k) \cup Increments(k) = {},
                      \A r \in Writes(k) : r.strategy = "conf" /\ ~CasGiven(r),
                      Lasting(k), NEW i \in DOMAIN log'[k], NEW j \in DOMAIN log'[k], i < j
               PROVE  log'[k][i].entry.confidence < log'[k][j].entry.confidence
  BY SameRequests DEF ConfidenceClimbs, CasGiven
<1>2. \A m, n \in DOMAIN log[k] : m < n =>
         log[k][m].entry.confidence < log[k][n].entry.confidence
  BY <1>1 DEF ConfidenceClimbs
<1>3. CASE Untouched(k)
  BY <1>1, <1>2, <1>3 DEF Untouched
<1>4. ASSUME NEW e, Updated(k, e)
      PROVE  log'[k][i].entry.confidence < log'[k][j].entry.confidence
  <2>1. /\ Len(log[k]) \in Nat /\ DOMAIN log[k] = 1 .. Len(log[k])
        /\ DOMAIN log'[k] = 1 .. Len(log[k]) + 1
        /\ \A m \in DOMAIN log[k] : log'[k][m] = log[k][m]
        /\ log'[k][Len(log[k]) + 1].entry = e
        /\ e \in Entry /\ UpdatedBy(k, e)
    BY <1>4 DEF Updated
  <2>2. i \in DOMAIN log[k]
    BY <1>1, <2>1
  <2>3. CASE j \in DOMAIN log[k]
    BY <1>1, <1>2, <2>1, <2>2, <2>3
  <2>4. CASE j \notin DOMAIN log[k]
    <3>1. /\ Exists(k) /\ Live(ctx[k])
          /\ Len(log[k]) \in DOMAIN log[k] /\ log[k][Len(log[k])].entry = ctx[k]
      BY <1>1, <2>2, LastOfLasting
    <3>2. PICK r \in Writes(k) :
             Decision(k, Candidate(r)) \in {"written", "deleted"} /\ e.confidence = r.confidence
      BY <1>1, <2>1 DEF UpdatedBy, IsCounter
    <3>3. /\ Candidate(r).strategy = "conf" /\ ~Candidate(r).isDeleted
          /\ Candidate(r).confidence = r.confidence /\ ~CasGiven(Candidate(r))
      BY <1>1 DEF Candidate, CasGiven
    <3>4. LuaResolve(ctx[k], Candidate(r), CasGiven(Candidate(r))).winner # "existing"
      BY <3>2 DEF Decision
    <3>5. r.confidence > ctx[k].confidence
      BY <3>1, <3>3, <3>4 DEF LuaResolve, ExistingWins
    <3>6. j = Len(log[k]) + 1
      BY <2>1, <2>4
    <3>7. /\ log[k][i].entry.confidence \in Int /\ ctx[k].confidence \in Int
          /\ e.confidence \in Int
      <4>1. /\ log[k][i].entry.confidence \in Confidences
            /\ log[k][Len(log[k])].entry.confidence \in Confidences
        BY <2>2, <3>1, LoggedTypes
      <4>2. e.confidence \in Confidences
        BY <2>1 DEF Entry
      <4>3. ctx[k].confidence \in Confidences
        BY <3>1, <4>1
      <4>4. Confidences \subseteq Int
        BY DEF Confidences
      <4>5. QED
        BY <4>1, <4>2, <4>3, <4>4
    <3>8. log[k][i].entry.confidence <= ctx[k].confidence
      <4>1. CASE i = Len(log[k])
        BY <3>1, <3>7, <4>1
      <4>2. CASE i < Len(log[k])
        <5>1. log[k][i].entry.confidence < log[k][Len(log[k])].entry.confidence
          BY <1>2, <2>2, <3>1, <4>2
        <5>2. QED
          BY <3>1, <3>7, <5>1
      <4>3. QED
        BY <2>1, <2>2, <4>1, <4>2
    <3>9. ctx[k].confidence < e.confidence
      BY <3>2, <3>5, <3>7
    <3>10. log[k][i].entry.confidence < e.confidence
      BY <3>7, <3>8, <3>9
    <3>11. QED
      BY <2>1, <2>2, <3>6, <3>10
  <2>5. QED
    BY <2>3, <2>4
<1>5. QED
  BY <1>1, <1>3, <1>4, LastingCases

-----------------------------------------------------------------------------
(* Trimming a list before an item joins it takes nothing more than         *)
(* trimming it after.                                                      *)
LEMMA NewestOfNewest ==
    ASSUME NEW S, NEW s \in Seq(S), NEW x \in S, NEW n \in Nat
    PROVE  Newest(Newest(s, n) \o <<x>>, n) = Newest(s \o <<x>>, n)
<1>1. CASE n = 0 \/ Len(s) <= n
  BY <1>1 DEF Newest
<1>2. CASE n > 0 /\ Len(s) > n
  <2> DEFINE t == SubSeq(s, Len(s) - n + 1, Len(s))
  <2>1. /\ Newest(s, n) = t /\ t \in Seq(S) /\ Len(t) = n
        /\ \A i \in 1..n : t[i] = s[Len(s) - n + i]
    <3>1. PICK m \in Nat : m = Len(s) - n
      BY <1>2
    <3>2. t = SubSeq(s, m + 1, m + n)
      BY <3>1
    <3>3. Newest(s, n) = t
      BY <1>2 DEF Newest
    <3>4. m + n = Len(s)
      BY <3>1
    <3> HIDE DEF t
    <3>5. t = [i \in 1..n |-> s[m + i]]
      BY <1>2, <3>2, <3>4
    <3>6. t \in [1..n -> S]
      BY <3>1, <3>4, <3>5
    <3>7. t \in Seq(S) /\ Len(t) = n
      BY <3>6
    <3>8. QED
      BY <3>1, <3>3, <3>5, <3>7
  <2> HIDE DEF t
  <2>2. /\ t \o <<x>> \in Seq(S) /\ Len(t \o <<x>>) = n + 1
        /\ \A i \in 1..n : (t \o <<x>>)[i] = t[i]
        /\ (t \o <<x>>)[n + 1] = x
    BY <2>1
  <2>3. /\ s \o <<x>> \in Seq(S) /\ Len(s \o <<x>>) = Len(s) + 1
        /\ \A i \in 1..Len(s) : (s \o <<x>>)[i] = s[i]
        /\ (s \o <<x>>)[Len(s) + 1] = x
    OBVIOUS
  <2> DEFINE u == t \o <<x>>
             v == s \o <<x>>
  <2>4. Newest(u, n) = SubSeq(u, 2, n + 1)
    <3>1. Len(u) > n /\ Len(u) - n + 1 = 2 /\ Len(u) = n + 1
      BY <1>2, <2>2
    <3> HIDE DEF u
    <3>2. QED
      BY <1>2, <3>1 DEF Newest
  <2>5. Newest(v, n) = SubSeq(v, Len(s) - n + 2, Len(s) + 1)
    <3>1. Len(v) > n /\ Len(v) - n + 1 = Len(s) - n + 2 /\ Len(v) = Len(s) + 1
      BY <1>2, <2>3
    <3> HIDE DEF v
    <3>2. QED
      BY <1>2, <3>1 DEF Newest
  <2> HIDE DEF u, v
  <2>6. u \in Seq(S) /\ v \in Seq(S) /\ Len(u) = n + 1 /\ Len(v) = Len(s) + 1
    BY <2>2, <2>3 DEF u, v
  <2>7. \A i \in 1..n : u[i + 1] = v[Len(s) - n + 1 + i]
    BY <1>2, <2>1, <2>2, <2>3 DEF u, v
  <2>8. SubSeq(u, 2, n + 1) = [i \in 1..n |-> u[i + 1]]
    BY <1>2, <2>6
  <2>9. SubSeq(v, Len(s) - n + 2, Len(s) + 1) = [i \in 1..n |-> v[Len(s) - n + 1 + i]]
    BY <1>2, <2>6
  <2>10. SubSeq(u, 2, n + 1) = SubSeq(v, Len(s) - n + 2, Len(s) + 1)
    BY <2>7, <2>8, <2>9
  <2>11. QED
    BY <2>1, <2>4, <2>5, <2>10 DEF u, v
<1>3. QED
  BY <1>1, <1>2

(* The operations of a key's log, in commit order.                         *)
Committed(k) == [i \in DOMAIN log[k] |-> log[k][i].entry.operationId]

LEMMA AppendStep ==
    ASSUME TypeOK, LoggedOK, LastsOK, LivingOK, AppendsAreKept, [Next]_vars
    PROVE  AppendsAreKept'
<1>1. SUFFICES ASSUME NEW k \in FullKeys, NEW r \in Appends(k),
                      Writes(k) \cup Increments(k) = {},
                      \A q \in Appends(k) : q.maxItems = r.maxItems,
                      Lasting(k), Live(ctx'[k])
               PROVE  ctx'[k].value = <<"array", Newest(Committed(k)', r.maxItems)>>
  BY SameRequests DEF AppendsAreKept, Committed
<1>2. Live(ctx[k]) => ctx[k].value = <<"array", Newest(Committed(k), r.maxItems)>>
  BY <1>1 DEF AppendsAreKept, Committed
<1>3. CASE Untouched(k)
  BY <1>1, <1>2, <1>3 DEF Untouched, Committed
<1>4. ASSUME NEW e, Updated(k, e)
      PROVE  ctx'[k].value = <<"array", Newest(Committed(k)', r.maxItems)>>
  <2>1. /\ e \in Entry /\ ctx'[k] = e
        /\ Len(log[k]) \in Nat /\ DOMAIN log[k] = 1 .. Len(log[k])
        /\ DOMAIN log'[k] = 1 .. Len(log[k]) + 1
        /\ \A m \in DOMAIN log[k] : log'[k][m] = log[k][m]
        /\ log'[k][Len(log[k]) + 1].entry = e
        /\ UpdatedBy(k, e)
    BY <1>4 DEF Updated
  <2>2. /\ Committed(k) \in Seq(OperationIds) /\ e.operationId \in OperationIds
        /\ Len(Committed(k)) = Len(log[k])
    <3>1. Committed(k) \in [1 .. Len(log[k]) -> OperationIds]
      BY <2>1, LoggedTypes DEF Committed
    <3>2. QED
      BY <2>1, <3>1 DEF Entry
  <2>3. Committed(k)' = Committed(k) \o <<e.operationId>>
    <3>1. Committed(k)' = [i \in 1 .. Len(log[k]) + 1 |-> log'[k][i].entry.operationId]
      BY <2>1 DEF Committed
    <3>2. \A i \in 1 .. Len(log[k]) : log'[k][i].entry.operationId = Committed(k)[i]
      BY <2>1 DEF Committed
    <3>3. Committed(k) \o <<e.operationId>>
             = [i \in 1 .. Len(log[k]) + 1 |->
                   IF i <= Len(log[k]) THEN Committed(k)[i] ELSE e.operationId]
      BY <2>1, <2>2, SMTT(30)
    <3>4. ASSUME NEW i \in 1 .. Len(log[k]) + 1
          PROVE  log'[k][i].entry.operationId
                    = IF i <= Len(log[k]) THEN Committed(k)[i] ELSE e.operationId
      BY <2>1, <3>2
    <3>5. QED
      BY <3>1, <3>3, <3>4
  <2>4. PICK q \in Appends(k) :
           /\ Exists(k) => LuaIsArray(ctx[k].value)
           /\ e.value = AppendItems(IF Exists(k) THEN ctx[k].value ELSE EmptyArray,
                                    <<e.operationId>>, q.maxItems)
    BY <1>1, <2>1 DEF UpdatedBy, IsCounter
  <2>5. q.maxItems = r.maxItems /\ r.maxItems \in Nat
    BY <1>1, RequestTypes DEF AppendRequest
  <2>6. CASE Exists(k)
    <3>1. ctx[k].value = <<"array", Newest(Committed(k), r.maxItems)>>
      BY <1>1, <1>2, <2>6, VersionIsNat, EntryFacts DEF LivingOK, Live
    <3>2. e.value = <<"array", Newest(Newest(Committed(k), r.maxItems) \o <<e.operationId>>,
                                      r.maxItems)>>
      BY <2>4, <2>5, <2>6, <3>1 DEF AppendItems, Elements
    <3>3. QED
      BY <2>1, <2>2, <2>3, <2>5, <3>2, NewestOfNewest
  <2>7. CASE ~Exists(k)
    <3>1. Len(log[k]) = 0
      <4>1. CurrentVersion(k) = Len(log[k])
        BY <1>1 DEF Lasting, LastsOK, PermanentOK
      <4>2. QED
        BY <2>7, <4>1 DEF Exists, CurrentVersion, NoEntry
    <3>2. Committed(k)' = <<e.operationId>>
      BY <2>2, <2>3, <3>1
    <3>3. e.value = <<"array", Newest(<<e.operationId>>, r.maxItems)>>
      BY <2>2, <2>4, <2>5, <2>7 DEF AppendItems, Elements, EmptyArray
    <3>4. QED
      BY <2>1, <3>2, <3>3
  <2>8. QED
    BY <2>6, <2>7
<1>5. QED
  BY <1>1, <1>3, <1>4, LastingCases

-----------------------------------------------------------------------------
(* While operations are remembered no two commits of a key are of one      *)
(* operation, so a counter's version is the number of its operations.      *)
UntilOK == \A k \in FullKeys : now <= workload[k].until

LEMMA UntilStep ==
    ASSUME TypeOK, UntilOK, [Next]_vars
    PROVE  UntilOK'
<1>1. workload' = workload /\ now \in Nat
  BY DEF Next, vars, TypeOK
<1>2. CASE CommitStep
  BY <1>1, <1>2 DEF CommitStep, Commit, UntilOK
<1>3. CASE Tick
  <2>1. \A k \in FullKeys : workload[k].until \in Nat
    BY StoreConstants DEF TypeOK, Workload
  <2>2. now' = now + 1 /\ \A k \in FullKeys : now < workload[k].until
    BY <1>3 DEF Tick
  <2>3. QED
    BY <1>1, <2>1, <2>2 DEF UntilOK
<1>4. CASE Quiet
  BY <1>1, <1>4 DEF Quiet, UntilOK
<1>5. QED
  BY <1>2, <1>3, <1>4, StepCases

LEMMA OperationsDiffer ==
    ASSUME TypeOK, Remembers, OncePerOpsTtl, UntilOK, NEW k \in FullKeys,
           workload[k].until < OpsTtl, NEW i \in DOMAIN log[k], NEW j \in DOMAIN log[k], i # j
    PROVE  log[k][i].entry.operationId # log[k][j].entry.operationId
<1>1. ASSUME NEW m \in DOMAIN log[k], NEW n \in DOMAIN log[k], m < n,
             log[k][m].entry.operationId = log[k][n].entry.operationId
      PROVE  FALSE
  <2>1. log[k][n].at >= log[k][m].at + OpsTtl
    BY <1>1 DEF OncePerOpsTtl
  <2>2. log[k][m].at \in Nat /\ log[k][n].at \in Nat /\ log[k][n].at <= now
    BY <1>1 DEF Remembers
  <2>3. now \in Nat /\ now <= workload[k].until /\ OpsTtl \in Nat
    BY StoreConstants DEF UntilOK, TypeOK
  <2>4. workload[k].until \in Nat
    BY StoreConstants DEF TypeOK, Workload
  <2>5. QED
    BY <2>1, <2>2, <2>3, <2>4
<1>2. i \in Nat /\ j \in Nat
  BY DEF TypeOK
<1>3. QED
  BY <1>1, <1>2

LEMMA CountsOperations ==
    ASSUME TypeOK, LastsOK, LivingOK, Remembers, OncePerOpsTtl, UntilOK
    PROVE  CounterIsExact
<1>1. SUFFICES ASSUME NEW k \in FullKeys, IsCounter(k), \A r \in Increments(k) : r.by = 1,
                      Lasting(k), workload[k].until < OpsTtl, Live(ctx[k])
               PROVE  ctx[k].value =
                         <<"number",
                           Cardinality({log[k][i].entry.operationId : i \in DOMAIN log[k]})>>
  BY DEF CounterIsExact
<1> DEFINE n == Len(log[k])
           T == {log[k][i].entry.operationId : i \in DOMAIN log[k]}
           f == [i \in 1..n |-> log[k][i].entry.operationId]
<1>2. n \in Nat /\ DOMAIN log[k] = 1..n
  BY DEF TypeOK
<1>3. ctx[k].value = <<"number", CurrentVersion(k)>> /\ CurrentVersion(k) = n
  BY <1>1, VersionIsNat DEF LivingOK, ByOnes, Lasting, LastsOK, PermanentOK
<1>4. f \in Bijection(1..n, T)
  <2>1. f \in [1..n -> T]
    BY <1>2
  <2>2. \A i, j \in 1..n : f[i] = f[j] => i = j
    BY <1>1, <1>2, OperationsDiffer
  <2>3. \A t \in T : \E i \in 1..n : f[i] = t
    BY <1>2
  <2>4. QED
    BY <2>1, <2>2, <2>3 DEF Bijection, Injection, Surjection, IsInjective
<1>5. ExistsBijection(1..n, T)
  BY <1>4 DEF ExistsBijection
<1>6. Cardinality(T) = n
  BY <1>2, <1>5, FS_CountingElements
<1>7. QED
  BY <1>3, <1>6

(* Nothing a committed increment, append, merge or confident write gave a  *)
(* key is lost or counted twice, in any interleaving of its callers.       *)
THEOREM NoUpdateIsLost == Spec => []UpdatesAreKept
<1>1. Init => Remembers /\ LivingOK /\ UntilOK /\ AppendsAreKept /\ FieldsAreKept
                 /\ ConfidenceClimbs
  <2>1. SUFFICES ASSUME Init
                 PROVE  Remembers /\ LivingOK /\ UntilOK /\ AppendsAreKept /\ FieldsAreKept
                           /\ ConfidenceClimbs
    OBVIOUS
  <2>2. \A k \in FullKeys : ~Exists(k) /\ log[k] = << >> /\ DOMAIN log[k] = {}
    BY <2>1 DEF Init, Exists
  <2>3. \A k \in FullKeys : ~Live(ctx[k])
    BY <2>1 DEF Init, Live, NoEntry
  <2>4. \A k \in FullKeys : workload[k].until \in Nat /\ now = 0
    BY <2>1, StoreConstants DEF Init, Workload
  <2>5. QED
    BY <2>2, <2>3, <2>4
       DEF Remembers, LivingOK, UntilOK, AppendsAreKept, FieldsAreKept, ConfidenceClimbs
<1>2. TypeOK /\ LastsOK /\ LivingOK /\ Remembers /\ OncePerOpsTtl /\ UntilOK => CounterIsExact
  BY CountsOperations
<1>3. QED
  BY <1>1, <1>2, LastsInit, LoggedStep, LastsStep, LivingStep, FieldsStep, ClimbStep, AppendStep,
     UntilStep, RemembersStep, AppliedOnce, TypeCorrect, PTL DEF Spec, UpdatesAreKept
=============================================================================
