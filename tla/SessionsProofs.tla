---------------------------- MODULE SessionsProofs ----------------------------
(***************************************************************************)
(* Theorems about the session registry, for any sessions, agents, numbers  *)
(* of callers and cleaners, TTLs and caps.                                 *)
(***************************************************************************)
EXTENDS Sessions, FiniteSetTheorems, TLAPS

(* Type correctness in parts, with what makes it inductive: the TTL a join *)
(* carries to its EXPIREs is that of a record it found.                    *)
MetaOK ==
    /\ meta \in [Ids -> Nat] /\ metaExpiresAt \in [Ids -> Nat]
    /\ \A id \in Ids : meta[id] > 0 => metaExpiresAt[id] > now
RosterOK ==
    /\ members \in [Ids -> SUBSET Agents] /\ membersExpiresAt \in [Ids -> Nat]
    /\ \A id \in Ids : members[id] = {} => membersExpiresAt[id] = 0
Joining == {"member", "count", "add", "refreshMeta", "refreshMembers"}
CallsOK ==
    /\ calls \in [Callers -> Call \cup Pass \cup {Idle}]
    /\ \A c \in Callers : calls[c].at \in Joining => calls[c].ttl > 0
RestOK ==
    /\ abortExpiresAt \in [Ids -> Nat] /\ index \subseteq Ids /\ mishaps \subseteq {"raced", "died"}
    /\ cleaning \in [Cleaners -> Pass \cup {Idle}]
Typed == setting \in Setting /\ now \in Nat /\ MetaOK /\ RosterOK /\ CallsOK /\ RestOK

-----------------------------------------------------------------------------
(* What each command does to the types.                                    *)

LEMMA SetMetaTyped ==
    ASSUME MetaOK, now \in Nat, NEW id \in Ids, NEW ttl \in Nat \ {0}, SetMeta(id, ttl), now' = now
    PROVE  MetaOK'
BY DEF MetaOK, SetMeta

LEMMA ExpireMetaTyped ==
    ASSUME MetaOK, now \in Nat, NEW id \in Ids, NEW ttl \in Nat \ {0}, ExpireMeta(id, ttl),
           meta' = meta, now' = now
    PROVE  MetaOK'
BY DEF MetaOK, ExpireMeta, Exists

LEMMA SetMembersTyped ==
    ASSUME RosterOK, NEW id \in Ids, NEW roster \in SUBSET Agents, SetMembers(id, roster),
           roster # {} => members[id] # {} \/ membersExpiresAt[id] \in Nat
    PROVE  RosterOK'
BY DEF RosterOK, SetMembers

LEMMA CallFields ==
    ASSUME CallsOK, NEW c \in Callers,
           calls[c].at \notin {"visit", "remove", "report", "idle"}
    PROVE  /\ calls[c] \in Call /\ calls[c].req \in Request /\ calls[c].ttl \in Nat
           /\ calls[c].req.id \in Ids /\ calls[c].req.agent \in Agents
<1>1. calls[c] \in Call \cup Pass \cup {Idle}
  BY DEF CallsOK
<1>2. calls[c] \notin Pass
  BY DEF Pass
<1>3. calls[c] # Idle
  BY DEF Idle
<1>4. calls[c] \in Call
  BY <1>1, <1>2, <1>3
<1>5. QED
  BY <1>4 DEF Call, Request

LEMMA GoTyped ==
    ASSUME CallsOK, NEW c \in Callers, NEW at, NEW req \in Request, NEW ttl \in Nat,
           at \in {"member", "count", "add", "refreshMeta", "refreshMembers",
                   "list", "keep", "audit", "delete", "abort"},
           at \in Joining => ttl > 0, Go(c, at, req, ttl)
    PROVE  CallsOK'
<1> DEFINE call == [at |-> at, req |-> req, ttl |-> ttl]
<1>1. call \in Call
  BY DEF Call
<1>2. calls' = [calls EXCEPT ![c] = call]
  BY DEF Go
<1>3. call.at = at /\ call.ttl = ttl
  OBVIOUS
<1> HIDE DEF call
<1>4. QED
  BY <1>1, <1>2, <1>3 DEF CallsOK

LEMMA ThenTyped ==
    ASSUME CallsOK, NEW c \in Callers, NEW at,
           at \in {"count", "add", "refreshMeta", "refreshMembers"},
           calls[c].at \in Joining, Then(c, at)
    PROVE  CallsOK'
<1>1. calls[c] \in Call /\ calls[c].ttl > 0
  BY CallFields DEF CallsOK, Joining
<1> DEFINE call == [calls[c] EXCEPT !.at = at]
<1>2. call \in Call /\ call.ttl = calls[c].ttl
  BY <1>1 DEF Call
<1>3. calls' = [calls EXCEPT ![c] = call]
  BY DEF Then
<1> HIDE DEF call
<1>4. QED
  BY <1>1, <1>2, <1>3 DEF CallsOK

LEMMA ReturnTyped ==
    ASSUME CallsOK, NEW c \in Callers, Return(c)
    PROVE  CallsOK'
<1>1. Idle.at \notin Joining
  BY DEF Idle, Joining
<1>2. QED
  BY <1>1 DEF CallsOK, Return

LEMMA DroppingTyped ==
    ASSUME index \subseteq Ids, mishaps \subseteq {"raced", "died"}, NEW ids, Dropping(ids)
    PROVE  index' \subseteq Ids /\ mishaps' \subseteq {"raced", "died"}
BY DEF Dropping

LEMMA VisitTyped ==
    ASSUME NEW pass \in Pass, NEW id \in pass.ids, pass.at = "visit"
    PROVE  /\ Visit(pass, id) \in Pass /\ Visit(pass, id).at = "visit"
           /\ AfterVisit(Visit(pass, id)) \in Pass
<1>1. Visit(pass, id) \in Pass /\ Visit(pass, id).at = "visit"
  BY DEF Visit, Pass
<1>2. QED
  BY <1>1 DEF AfterVisit, Pass

-----------------------------------------------------------------------------
(* Types are kept by every request that starts, ...                        *)

LEMMA BeginTyped ==
    ASSUME Typed, NEW c \in Callers, NEW req \in setting.requests, Begin(c, req)
    PROVE  Typed'
<1> USE SessionConstants
<1>1. req \in Request /\ req.id \in Ids /\ req.agent \in Agents /\ req.ttlSeconds \in Nat
  BY DEF Typed, Setting, Request
<1>2. TtlOf(req) \in Nat \ {0}
  BY <1>1 DEF TtlOf
<1>3. CASE Create(c, req)
  <2>1. MetaOK'
    BY <1>1, <1>2, <1>3, SetMetaTyped DEF Create, Typed
  <2>2. RosterOK' /\ CallsOK' /\ RestOK' /\ setting' = setting /\ now' = now
    BY <1>1, <1>3 DEF Create, Typed, RosterOK, CallsOK, RestOK, Listed
  <2>3. QED
    BY <2>1, <2>2 DEF Typed
<1>4. CASE JoinRead(c, req)
  <2>1. meta[req.id] \in Nat \ {0}
    BY <1>1, <1>4 DEF JoinRead, Exists, Typed, MetaOK
  <2>2. CallsOK'
    <3>1. CASE setting.cap > 0
      BY <1>1, <1>4, <2>1, <3>1, GoTyped DEF JoinRead, Typed
    <3>2. CASE ~(setting.cap > 0)
      BY <1>1, <1>4, <2>1, <3>2, GoTyped DEF JoinRead, Typed
    <3>3. QED
      BY <3>1, <3>2
  <2>3. QED
    BY <1>4, <2>2 DEF JoinRead, keys, Typed, MetaOK, RosterOK, RestOK
<1>5. CASE Leave(c, req)
  <2>1. RosterOK'
    BY <1>1, <1>5, SetMembersTyped DEF Leave, Typed, RosterOK
  <2>2. QED
    BY <1>5, <2>1 DEF Leave, Typed, MetaOK, CallsOK, RestOK
<1>6. CASE EndAudit(c, req)
  <2>1. CallsOK'
    BY <1>1, <1>6, GoTyped DEF EndAudit, Typed, Joining
  <2>2. QED
    BY <1>6, <2>1 DEF EndAudit, keys, Typed, MetaOK, RosterOK, RestOK
<1>7. CASE TouchSet(c, req)
  <2>1. CallsOK'
    <3>1. Go(c, "keep", req, 0) \/ Go(c, "list", req, 0)
      BY <1>7 DEF TouchSet
    <3>2. QED
      BY <1>1, <3>1, GoTyped DEF Typed, Joining
  <2>2. MetaOK'
    <3>1. CASE Exists(req.id)
      BY <1>7, <3>1 DEF TouchSet, Typed, MetaOK
    <3>2. CASE ~Exists(req.id)
      BY <1>1, <1>7, <3>2, SetMetaTyped DEF TouchSet, Typed
    <3>3. QED
      BY <3>1, <3>2
  <2>3. QED
    BY <1>7, <2>1, <2>2 DEF TouchSet, Typed, RosterOK, RestOK
<1>8. CASE AbortRead(c, req)
  <2>1. PICK ttl : ttl \in Nat /\ Go(c, "abort", req, ttl)
    <3>1. CASE req.ttlSeconds > 0
      BY <1>1, <1>8, <3>1 DEF AbortRead
    <3>2. CASE req.ttlSeconds = 0 /\ Exists(req.id)
      BY <1>1, <1>8, <3>2 DEF AbortRead, Typed, MetaOK
    <3>3. CASE req.ttlSeconds = 0 /\ ~Exists(req.id)
      BY <1>1, <1>8, <3>3 DEF AbortRead
    <3>4. QED
      BY <1>1, <3>1, <3>2, <3>3
  <2>2. CallsOK'
    BY <1>1, <2>1, GoTyped DEF Typed, Joining
  <2>3. QED
    BY <1>8, <2>2 DEF AbortRead, keys, Typed, MetaOK, RosterOK, RestOK
<1>9. CASE ListIds(c, req)
  <2> DEFINE pass == [at |-> "visit", ids |-> index, gone |-> {}]
  <2>1. pass \in Pass /\ pass.at \notin Joining
    BY DEF Pass, Joining, Typed, RestOK
  <2>2. calls' = [calls EXCEPT ![c] = pass]
    BY <1>9 DEF ListIds
  <2> HIDE DEF pass
  <2>3. CallsOK'
    BY <2>1, <2>2 DEF CallsOK, Typed
  <2>4. QED
    BY <1>9, <2>3 DEF ListIds, keys, Typed, MetaOK, RosterOK, RestOK
<1>10. QED
  BY <1>3, <1>4, <1>5, <1>6, <1>7, <1>8, <1>9 DEF Begin

(* ... by every later command of a call, ...                               *)
LEMMA CallStepTyped ==
    ASSUME Typed, NEW c \in Callers, CallStep(c)
    PROVE  Typed'
<1> USE SessionConstants
<1> DEFINE id == calls[c].req.id
<1>1. CallsOK /\ MetaOK /\ RosterOK /\ RestOK /\ now \in Nat
  BY DEF Typed
<1>2. CASE JoinIsMember(c)
  <2>1. CallsOK'
    <3>1. Then(c, "add") \/ Then(c, "count")
      BY <1>2 DEF JoinIsMember
    <3>2. QED
      BY <1>1, <1>2, <3>1, ThenTyped DEF JoinIsMember, Joining
  <2>2. QED
    BY <1>2, <2>1 DEF JoinIsMember, keys, Typed, MetaOK, RosterOK, RestOK
<1>3. CASE JoinCount(c)
  <2>1. CallsOK'
    <3>1. Then(c, "add") \/ Return(c)
      BY <1>3 DEF JoinCount
    <3>2. QED
      BY <1>1, <1>3, <3>1, ThenTyped, ReturnTyped DEF JoinCount, Joining
  <2>2. QED
    BY <1>3, <2>1 DEF JoinCount, keys, Typed, MetaOK, RosterOK, RestOK
<1>4. CASE JoinAdd(c)
  <2>1. id \in Ids /\ calls[c].req.agent \in Agents
    BY <1>1, <1>4, CallFields DEF JoinAdd
  <2>2. CallsOK'
    BY <1>1, <1>4, ThenTyped DEF JoinAdd, Joining
  <2>3. RosterOK'
    <3>1. members[id] \cup {calls[c].req.agent} \in SUBSET Agents
      BY <1>1, <2>1 DEF RosterOK
    <3>2. membersExpiresAt[id] \in Nat
      BY <1>1, <2>1 DEF RosterOK
    <3>3. QED
      BY <1>1, <1>4, <2>1, <3>1, <3>2, SetMembersTyped DEF JoinAdd
  <2>4. QED
    BY <1>4, <2>2, <2>3 DEF JoinAdd, Typed, MetaOK, RestOK
<1>5. CASE JoinRefreshMeta(c)
  <2>1. id \in Ids /\ calls[c].ttl \in Nat \ {0}
    BY <1>1, <1>5, CallFields DEF JoinRefreshMeta, CallsOK, Joining
  <2>2. CallsOK'
    BY <1>1, <1>5, ThenTyped DEF JoinRefreshMeta, Joining
  <2>3. MetaOK'
    BY <1>1, <1>5, <2>1, ExpireMetaTyped DEF JoinRefreshMeta
  <2>4. QED
    BY <1>5, <2>2, <2>3 DEF JoinRefreshMeta, Typed, RosterOK, RestOK
<1>6. CASE JoinRefreshMembers(c)
  <2>1. id \in Ids /\ calls[c].ttl \in Nat
    BY <1>1, <1>6, CallFields DEF JoinRefreshMembers
  <2>2. CallsOK'
    BY <1>1, <1>6, ReturnTyped DEF JoinRefreshMembers
  <2>3. RosterOK'
    BY <1>1, <1>6, <2>1 DEF JoinRefreshMembers, RosterOK
  <2>4. QED
    BY <1>6, <2>2, <2>3 DEF JoinRefreshMembers, Typed, MetaOK, RestOK
<1>7. CASE EndDelete(c)
  <2>1. id \in Ids
    BY <1>1, <1>7, CallFields DEF EndDelete
  <2>2. CallsOK'
    BY <1>1, <1>7, ReturnTyped DEF EndDelete
  <2>3. RosterOK'
    BY <1>1, <1>7, <2>1, SetMembersTyped DEF EndDelete
  <2>4. MetaOK'
    BY <1>1, <1>7, <2>1 DEF EndDelete, MetaOK
  <2>5. QED
    BY <1>1, <1>7, <2>1, <2>2, <2>3, <2>4 DEF EndDelete, Typed, RestOK
<1>8. CASE TouchList(c)
  <2>1. id \in Ids
    BY <1>1, <1>8, CallFields DEF TouchList
  <2>2. CallsOK'
    BY <1>1, <1>8, ReturnTyped DEF TouchList
  <2>3. QED
    BY <1>8, <2>1, <2>2 DEF TouchList, Listed, Typed, MetaOK, RosterOK, RestOK
<1>9. CASE TouchKeep(c)
  <2>1. id \in Ids
    BY <1>1, <1>9, CallFields DEF TouchKeep
  <2>2. CallsOK'
    BY <1>1, <1>9, ReturnTyped DEF TouchKeep
  <2>3. MetaOK'
    BY <1>1, <1>9, <2>1, ExpireMetaTyped DEF TouchKeep
  <2>4. QED
    BY <1>9, <2>2, <2>3 DEF TouchKeep, Typed, RosterOK, RestOK
<1>10. CASE AbortSet(c)
  <2>1. id \in Ids /\ calls[c].ttl \in Nat
    BY <1>1, <1>10, CallFields DEF AbortSet
  <2>2. CallsOK'
    BY <1>1, <1>10, ReturnTyped DEF AbortSet
  <2>3. RestOK'
    BY <1>1, <1>10, <2>1 DEF AbortSet, RestOK
  <2>4. QED
    BY <1>10, <2>2, <2>3 DEF AbortSet, Typed, MetaOK, RosterOK
<1>11. CASE ListGet(c)
  <2>1. calls[c] \in Pass /\ calls[c].at = "visit"
    BY <1>1, <1>11 DEF ListGet, CallsOK, Call, Idle
  <2>2. PICK i \in calls[c].ids : calls' = [calls EXCEPT ![c] = Visit(calls[c], i)]
    BY <1>11 DEF ListGet
  <2>3. Visit(calls[c], i) \in Pass /\ Visit(calls[c], i).at = "visit"
    BY <2>1, VisitTyped
  <2>4. CallsOK'
    BY <1>1, <2>2, <2>3 DEF CallsOK, Joining
  <2>5. QED
    BY <1>11, <2>4 DEF ListGet, keys, Typed, MetaOK, RosterOK, RestOK
<1>12. CASE ListPrune(c)
  <2>1. CallsOK'
    BY <1>1, <1>12, ReturnTyped DEF ListPrune
  <2>2. RestOK'
    BY <1>1, <1>12, DroppingTyped DEF ListPrune, RestOK
  <2>3. QED
    BY <1>12, <2>1, <2>2 DEF ListPrune, Typed, MetaOK, RosterOK
<1>13. QED
  BY <1>2, <1>3, <1>4, <1>5, <1>6, <1>7, <1>8, <1>9, <1>10, <1>11, <1>12 DEF CallStep

(* ... by the cleaners, by deaths and by expiry.                           *)
LEMMA CleanStepTyped ==
    ASSUME Typed, NEW j \in Cleaners, CleanStep(j)
    PROVE  Typed'
<1>1. RestOK
  BY DEF Typed
<1>2. cleaning[j] \in Pass \cup {Idle}
  BY <1>1 DEF RestOK
<1>3. CASE CleanIds(j)
  <2>1. [at |-> "visit", ids |-> index, gone |-> {}] \in Pass
    BY <1>1 DEF RestOK, Pass
  <2>2. QED
    BY <1>1, <1>3, <2>1 DEF CleanIds, keys, Typed, MetaOK, RosterOK, CallsOK, RestOK
<1>4. CASE CleanExists(j)
  <2>1. cleaning[j] \in Pass /\ cleaning[j].at = "visit"
    BY <1>2, <1>4 DEF CleanExists, Idle
  <2>2. PICK i \in cleaning[j].ids : cleaning' = [cleaning EXCEPT ![j] = AfterVisit(Visit(cleaning[j], i))]
    BY <1>4 DEF CleanExists
  <2>3. AfterVisit(Visit(cleaning[j], i)) \in Pass
    BY <2>1, VisitTyped
  <2>4. QED
    BY <1>1, <1>4, <2>2, <2>3 DEF CleanExists, keys, Typed, MetaOK, RosterOK, CallsOK, RestOK
<1>5. CASE CleanRemove(j)
  <2>1. cleaning[j] \in Pass
    BY <1>2, <1>5 DEF CleanRemove, Idle
  <2>2. [cleaning[j] EXCEPT !.at = "report"] \in Pass
    BY <2>1 DEF Pass
  <2>3. cleaning' = [cleaning EXCEPT ![j] = [cleaning[j] EXCEPT !.at = "report"]]
    BY <1>5 DEF CleanRemove
  <2>4. index' \subseteq Ids /\ mishaps' \subseteq {"raced", "died"}
    BY <1>1, <1>5, DroppingTyped DEF CleanRemove, RestOK
  <2>5. QED
    BY <1>1, <1>5, <2>2, <2>3, <2>4 DEF CleanRemove, Typed, MetaOK, RosterOK, CallsOK, RestOK
<1>6. CASE CleanReport(j)
  <2> DEFINE pass == [cleaning[j] EXCEPT !.at = "visit", !.gone = {}]
  <2>1. cleaning[j] \in Pass
    BY <1>2, <1>6 DEF CleanReport, Idle
  <2>2. pass \in Pass
    BY <2>1 DEF Pass
  <2>3. cleaning' = [cleaning EXCEPT ![j] = pass]
    BY <1>1, <1>6 DEF CleanReport, RestOK
  <2> HIDE DEF pass
  <2>4. QED
    BY <1>1, <1>6, <2>2, <2>3 DEF CleanReport, keys, Typed, MetaOK, RosterOK, CallsOK, RestOK
<1>7. CASE CleanEnd(j)
  BY <1>1, <1>7 DEF CleanEnd, keys, Typed, MetaOK, RosterOK, CallsOK, RestOK
<1>8. QED
  BY <1>3, <1>4, <1>5, <1>6, <1>7 DEF CleanStep

LEMMA DeathTyped ==
    ASSUME Typed,
           \/ \E c \in Callers : Die(c)
           \/ \E j \in Cleaners : DieCleaning(j)
    PROVE  Typed'
<1>1. CASE \E c \in Callers : Die(c)
  <2>1. CallsOK'
    BY <1>1, ReturnTyped DEF Die, Typed
  <2>2. QED
    BY <1>1, <2>1 DEF Die, Died, keys, Typed, MetaOK, RosterOK, RestOK
<1>2. CASE \E j \in Cleaners : DieCleaning(j)
  BY <1>2 DEF DieCleaning, Died, keys, Typed, MetaOK, RosterOK, CallsOK, RestOK
<1>3. QED
  BY <1>1, <1>2

LEMMA TickTyped ==
    ASSUME Typed, Tick
    PROVE  Typed'
<1>1. now \in Nat /\ now' = now + 1 /\ MetaOK /\ RosterOK /\ RestOK
  BY DEF Typed, Tick
<1>2. MetaOK'
  <2>1. meta' \in [Ids -> Nat] /\ metaExpiresAt' \in [Ids -> Nat]
    BY <1>1 DEF Tick, Lapsed, MetaOK
  <2>2. ASSUME NEW id \in Ids, meta'[id] > 0
        PROVE  metaExpiresAt'[id] > now'
    <3>1. metaExpiresAt[id] # now + 1 /\ meta'[id] = meta[id] /\ metaExpiresAt'[id] = metaExpiresAt[id]
      BY <2>2 DEF Tick, Lapsed, Due
    <3>2. QED
      BY <1>1, <2>2, <3>1 DEF MetaOK
  <2>3. QED
    BY <2>1, <2>2 DEF MetaOK
<1>3. RosterOK'
  BY <1>1 DEF Tick, Lapsed, RosterOK
<1>4. RestOK'
  BY <1>1 DEF Tick, Lapsed, RestOK
<1>5. CallsOK'
  BY DEF Tick, CallsOK, Typed
<1>6. QED
  BY <1>1, <1>2, <1>3, <1>4, <1>5 DEF Tick, Typed

LEMMA TypedInit == Init => Typed
<1> SUFFICES ASSUME Init PROVE Typed
  OBVIOUS
<1>1. setting \in Setting /\ now \in Nat
  BY SessionConstants DEF Init
<1>2. Idle.at \notin Joining
  BY DEF Idle, Joining
<1>3. QED
  BY <1>1, <1>2 DEF Init, Typed, MetaOK, RosterOK, CallsOK, RestOK

LEMMA TypedStep == Typed /\ [Next]_vars => Typed'
<1> SUFFICES ASSUME Typed, [Next]_vars PROVE Typed'
  OBVIOUS
<1>1. CASE \E c \in Callers : \E req \in setting.requests : Begin(c, req)
  BY <1>1, BeginTyped
<1>2. CASE \E c \in Callers : CallStep(c)
  BY <1>2, CallStepTyped
<1>3. CASE \E j \in Cleaners : CleanStep(j)
  BY <1>3, CleanStepTyped
<1>4. CASE (\E c \in Callers : Die(c)) \/ (\E j \in Cleaners : DieCleaning(j))
  BY <1>4, DeathTyped
<1>5. CASE Tick
  BY <1>5, TickTyped
<1>6. CASE UNCHANGED vars
  BY <1>6 DEF vars, keys, Typed, MetaOK, RosterOK, CallsOK, RestOK
<1>7. QED
  BY <1>1, <1>2, <1>3, <1>4, <1>5, <1>6 DEF Next

(* TypeOK, the type invariant of the registry: among others, a record that *)
(* exists has an expiry in the future, whoever creates, joins, touches or  *)
(* ends it.                                                                *)
THEOREM SessionsTypeCorrect == Spec => []TypeOK
<1>1. Typed => TypeOK
  BY DEF Typed, MetaOK, RosterOK, CallsOK, RestOK, TypeOK, Exists
<1>2. QED
  BY <1>1, TypedInit, TypedStep, PTL DEF Spec

-----------------------------------------------------------------------------
(* The cap.  A roster and the agents that have passed the check, and so    *)
(* will be in it, whatever else happens:                                   *)

Passed(id) == {c \in Callers : calls[c].at = "add" /\ calls[c].req.id = id}
Joined(id) == members[id] \cup {calls[c].req.agent : c \in Passed(id)}
Fits(S)    == IsFiniteSet(S) /\ Cardinality(S) < setting.cap + Cardinality(Callers)
CapOK      == setting.cap > 0 => \A id \in Ids : Fits(Joined(id))

LEMMA SmallerFits ==
    ASSUME Typed, NEW S, NEW T \in SUBSET S, Fits(S)
    PROVE  Fits(T)
<1>1. IsFiniteSet(T) /\ Cardinality(T) <= Cardinality(S)
  BY FS_Subset DEF Fits
<1>2. Cardinality(S) \in Nat /\ Cardinality(T) \in Nat /\ Cardinality(Callers) \in Nat /\ setting.cap \in Nat
  BY <1>1, FS_CardinalityType, SessionConstants DEF Fits, Typed, Setting
<1>3. QED
  BY <1>1, <1>2 DEF Fits

(* A roster with room, and any agents of calls in flight, fit.             *)
LEMMA RoomFits ==
    ASSUME Typed, NEW id \in Ids, IsFiniteSet(members[id]), HasRoom(id), setting.cap > 0,
           NEW P \in SUBSET Callers, NEW f, f = [c \in P |-> f[c]]
    PROVE  Fits(members[id] \cup {f[c] : c \in P})
<1> DEFINE T == {f[c] : c \in P}
<1>1. IsFiniteSet(P) /\ Cardinality(P) <= Cardinality(Callers)
  BY SessionConstants, FS_Subset
<1>2. f \in Surjection(P, T)
  BY DEF Surjection
<1>3. IsFiniteSet(T) /\ Cardinality(T) <= Cardinality(P)
  BY <1>1, <1>2, FS_Surjection
<1> HIDE DEF T
<1>4. /\ IsFiniteSet(members[id] \cup T)
      /\ Cardinality(members[id] \cup T)
            = Cardinality(members[id]) + Cardinality(T) - Cardinality(members[id] \cap T)
  BY <1>3, FS_Union
<1>5. IsFiniteSet(members[id] \cap T)
  BY <1>3, FS_Subset
<1>6. /\ Cardinality(members[id]) \in Nat /\ Cardinality(T) \in Nat
      /\ Cardinality(members[id] \cap T) \in Nat /\ Cardinality(Callers) \in Nat
      /\ Cardinality(P) \in Nat /\ setting.cap \in Nat
  BY <1>1, <1>3, <1>5, FS_CardinalityType, SessionConstants DEF Typed, Setting
<1>7. Cardinality(members[id] \cup T) < setting.cap + Cardinality(Callers)
  BY <1>1, <1>3, <1>4, <1>6 DEF HasRoom
<1>8. QED
  BY <1>4, <1>7 DEF Fits, T

(* A step that lets nobody pass and adds nobody.                           *)
LEMMA NobodyJoins ==
    ASSUME Typed, CapOK, setting' = setting,
           \A id \in Ids : members'[id] \subseteq members[id],
           \A c \in Callers : calls'[c].at = "add" => calls'[c] = calls[c]
    PROVE  CapOK'
<1>1. \A id \in Ids : Joined(id)' \subseteq Joined(id)
  BY DEF Joined, Passed
<1>2. ASSUME setting.cap > 0, NEW id \in Ids
      PROVE  Fits(Joined(id)')
  <2>1. Fits(Joined(id))
    BY <1>2 DEF CapOK
  <2>2. QED
    BY <1>1, <2>1, SmallerFits
<1>3. QED
  BY <1>2 DEF CapOK, Fits

(* The two steps that let a call pass, and the one that adds its agent.    *)
LEMMA IsMemberKeepsCap ==
    ASSUME Typed, CapOK, NEW c \in Callers, JoinIsMember(c)
    PROVE  CapOK'
<1> DEFINE at == IF calls[c].req.agent \in members[calls[c].req.id] THEN "add" ELSE "count"
<1>1. calls[c] \in Call /\ calls \in [Callers -> Call \cup Pass \cup {Idle}]
  BY CallFields DEF Typed, CallsOK, JoinIsMember
<1>2. /\ calls' = [calls EXCEPT ![c] = [calls[c] EXCEPT !.at = at]]
      /\ setting' = setting /\ members' = members
  BY DEF JoinIsMember, Then, keys
<1>3. calls'[c].at = at /\ calls'[c].req = calls[c].req
  BY <1>1, <1>2 DEF Call
<1>4. \A x \in Callers \ {c} : calls'[x] = calls[x]
  BY <1>1, <1>2
<1>5. \A id \in Ids : Joined(id)' \subseteq Joined(id)
  BY <1>2, <1>3, <1>4 DEF Joined, Passed
<1>6. ASSUME setting.cap > 0, NEW id \in Ids
      PROVE  Fits(Joined(id)')
  BY <1>5, <1>6, SmallerFits DEF CapOK
<1>7. QED
  BY <1>2, <1>6 DEF CapOK, Fits

LEMMA CountKeepsCap ==
    ASSUME Typed, CapOK, NEW c \in Callers, JoinCount(c), HasRoom(calls[c].req.id)
    PROVE  CapOK'
<1> DEFINE own == calls[c].req.id
<1>1. /\ calls[c] \in Call /\ own \in Ids
      /\ calls \in [Callers -> Call \cup Pass \cup {Idle}]
  BY CallFields DEF Typed, CallsOK, JoinCount
<1>2. /\ calls' = [calls EXCEPT ![c] = [calls[c] EXCEPT !.at = "add"]]
      /\ setting' = setting /\ members' = members
  BY DEF JoinCount, Then, keys
<1>3. calls'[c].req = calls[c].req
  BY <1>1, <1>2 DEF Call
<1>4. \A x \in Callers \ {c} : calls'[x] = calls[x]
  BY <1>1, <1>2
<1>5. ASSUME setting.cap > 0, NEW id \in Ids, id # own
      PROVE  Fits(Joined(id)')
  <2>1. Joined(id)' \subseteq Joined(id)
    BY <1>2, <1>3, <1>4, <1>5 DEF Joined, Passed
  <2>2. QED
    BY <1>5, <2>1, SmallerFits DEF CapOK
<1>6. ASSUME setting.cap > 0
      PROVE  Fits(Joined(own)')
  <2> DEFINE P == Passed(own)'
             f == [x \in P |-> calls'[x].req.agent]
  <2>1. IsFiniteSet(members[own])
    <3>1. Fits(Joined(own)) /\ members[own] \in SUBSET Joined(own)
      BY <1>1, <1>6 DEF CapOK, Joined
    <3>2. QED
      BY <3>1, FS_Subset DEF Fits
  <2>2. P \in SUBSET Callers
    BY DEF Passed
  <2>3. Joined(own)' = members[own] \cup {f[x] : x \in P}
    BY <1>2, <1>3 DEF Joined
  <2>4. f = [x \in P |-> f[x]]
    OBVIOUS
  <2> HIDE DEF P, f
  <2>5. Fits(members[own] \cup {f[x] : x \in P})
    BY <1>1, <1>6, <2>1, <2>2, <2>4, RoomFits
  <2>6. QED
    BY <2>3, <2>5
<1>7. QED
  BY <1>2, <1>5, <1>6 DEF CapOK, Fits

LEMMA AddKeepsCap ==
    ASSUME Typed, CapOK, NEW c \in Callers, JoinAdd(c)
    PROVE  CapOK'
<1> DEFINE own == calls[c].req.id
<1>1. /\ calls[c] \in Call /\ own \in Ids /\ calls[c].at = "add"
      /\ calls \in [Callers -> Call \cup Pass \cup {Idle}]
      /\ members \in [Ids -> SUBSET Agents]
  BY CallFields DEF Typed, CallsOK, RosterOK, JoinAdd
<1>2. /\ calls' = [calls EXCEPT ![c] = [calls[c] EXCEPT !.at = "refreshMeta"]]
      /\ setting' = setting
      /\ members' = [members EXCEPT ![own] = members[own] \cup {calls[c].req.agent}]
  BY DEF JoinAdd, Then, SetMembers
<1>3. calls'[c].at # "add"
  BY <1>1, <1>2 DEF Call
<1>4. \A x \in Callers \ {c} : calls'[x] = calls[x]
  BY <1>1, <1>2
<1>5. \A id \in Ids : Joined(id)' \subseteq Joined(id)
  <2>1. TAKE id \in Ids
  <2>2. Passed(id)' \subseteq Passed(id)
    BY <1>3, <1>4 DEF Passed
  <2>3. members'[id] \subseteq Joined(id)
    BY <1>1, <1>2 DEF Joined, Passed
  <2>4. {calls'[x].req.agent : x \in Passed(id)'} \subseteq Joined(id)
    BY <1>3, <1>4, <2>2 DEF Joined, Passed
  <2>5. QED
    BY <2>3, <2>4 DEF Joined
<1>6. ASSUME setting.cap > 0, NEW id \in Ids
      PROVE  Fits(Joined(id)')
  BY <1>5, <1>6, SmallerFits DEF CapOK
<1>7. QED
  BY <1>2, <1>6 DEF CapOK, Fits

LEMMA BeginKeepsCap ==
    ASSUME Typed, CapOK, NEW c \in Callers, NEW req \in setting.requests, Begin(c, req)
    PROVE  CapOK'
<1>1. setting' = setting
  BY DEF Begin, Create, JoinRead, Leave, EndAudit, TouchSet, AbortRead, ListIds
<1>2. CASE setting.cap > 0
  <2>1. req.id \in Ids /\ members \in [Ids -> SUBSET Agents]
        /\ calls \in [Callers -> Call \cup Pass \cup {Idle}]
    BY SessionConstants DEF Typed, Setting, Request, RosterOK, CallsOK
  <2>2. \A id \in Ids : members'[id] \subseteq members[id]
    <3>1. CASE Leave(c, req)
      BY <2>1, <3>1 DEF Leave, SetMembers
    <3>2. CASE members' = members
      BY <3>2
    <3>3. QED
      BY <3>1, <3>2 DEF Begin, Create, JoinRead, EndAudit, TouchSet, AbortRead, ListIds, keys
  <2>3. \A x \in Callers : calls'[x].at = "add" => calls'[x] = calls[x]
    <3>1. CASE calls' = calls
      BY <3>1
    <3>2. ASSUME NEW r, calls' = [calls EXCEPT ![c] = r], r.at # "add"
          PROVE  \A x \in Callers : calls'[x].at = "add" => calls'[x] = calls[x]
      BY <2>1, <3>2
    <3>3. CASE \E at, ttl : at # "add" /\ Go(c, at, req, ttl)
      <4>1. PICK at, ttl : at # "add" /\ Go(c, at, req, ttl)
        BY <3>3
      <4>2. [at |-> at, req |-> req, ttl |-> ttl].at # "add"
        BY <4>1
      <4>3. calls' = [calls EXCEPT ![c] = [at |-> at, req |-> req, ttl |-> ttl]]
        BY <4>1 DEF Go
      <4>4. QED
        BY <3>2, <4>2, <4>3
    <3>4. CASE ListIds(c, req)
      <4>1. [at |-> "visit", ids |-> index, gone |-> {}].at # "add"
        OBVIOUS
      <4>2. QED
        BY <3>2, <3>4, <4>1 DEF ListIds
    <3>5. CASE JoinRead(c, req)
      <4>1. Go(c, "member", req, meta[req.id])
        BY <1>2, <3>5 DEF JoinRead
      <4>2. QED
        BY <3>3, <4>1
    <3>6. CASE EndAudit(c, req) \/ TouchSet(c, req)
      <4>1. Go(c, "delete", req, 0) \/ Go(c, "keep", req, 0) \/ Go(c, "list", req, 0)
        BY <3>6 DEF EndAudit, TouchSet
      <4>2. QED
        BY <3>3, <4>1
    <3>7. CASE AbortRead(c, req)
      <4>1. \E ttl : Go(c, "abort", req, ttl)
        BY <3>7 DEF AbortRead
      <4>2. QED
        BY <3>3, <4>1
    <3>8. QED
      BY <3>1, <3>4, <3>5, <3>6, <3>7 DEF Begin, Create, Leave
  <2>4. QED
    BY <1>1, <2>2, <2>3, NobodyJoins
<1>3. CASE ~(setting.cap > 0)
  BY <1>1, <1>3 DEF CapOK
<1>4. QED
  BY <1>2, <1>3

LEMMA CallStepKeepsCap ==
    ASSUME Typed, CapOK, NEW c \in Callers, CallStep(c)
    PROVE  CapOK'
<1>1. /\ calls \in [Callers -> Call \cup Pass \cup {Idle}]
      /\ members \in [Ids -> SUBSET Agents]
  BY DEF Typed, RosterOK, CallsOK
<1>2. ASSUME Return(c)
      PROVE  \A x \in Callers : calls'[x].at = "add" => calls'[x] = calls[x]
  BY <1>1, <1>2 DEF Return, Idle
<1>3. CASE JoinIsMember(c)
  BY <1>3, IsMemberKeepsCap
<1>4. CASE JoinAdd(c)
  BY <1>4, AddKeepsCap
<1>5. CASE JoinCount(c) /\ HasRoom(calls[c].req.id)
  BY <1>5, CountKeepsCap
<1>6. CASE JoinCount(c) /\ ~HasRoom(calls[c].req.id)
  <2>1. Return(c) /\ setting' = setting /\ members' = members
    BY <1>6 DEF JoinCount, keys
  <2>2. QED
    BY <1>2, <2>1, NobodyJoins
<1>7. CASE JoinRefreshMeta(c)
  <2>1. calls[c] \in Call
    BY <1>7, CallFields DEF JoinRefreshMeta, Typed
  <2>2. calls' = [calls EXCEPT ![c] = [calls[c] EXCEPT !.at = "refreshMembers"]]
    BY <1>7 DEF JoinRefreshMeta, Then
  <2>3. calls'[c].at # "add"
    BY <1>1, <2>1, <2>2 DEF Call
  <2>4. \A x \in Callers : calls'[x].at = "add" => calls'[x] = calls[x]
    BY <1>1, <2>2, <2>3
  <2>5. setting' = setting /\ members' = members
    BY <1>7 DEF JoinRefreshMeta
  <2>6. QED
    BY <2>4, <2>5, NobodyJoins
<1>8. CASE EndDelete(c)
  <2>1. calls[c].req.id \in Ids
    BY <1>8, CallFields DEF EndDelete, Typed
  <2>2. Return(c) /\ setting' = setting /\ \A id \in Ids : members'[id] \subseteq members[id]
    BY <1>1, <1>8, <2>1 DEF EndDelete, SetMembers
  <2>3. QED
    BY <1>2, <2>2, NobodyJoins
<1>9. CASE \/ JoinRefreshMembers(c) \/ TouchList(c) \/ TouchKeep(c) \/ AbortSet(c) \/ ListPrune(c)
  <2>1. Return(c) /\ setting' = setting /\ members' = members
    BY <1>9 DEF JoinRefreshMembers, TouchList, TouchKeep, AbortSet, ListPrune
  <2>2. QED
    BY <1>2, <2>1, NobodyJoins
<1>10. CASE ListGet(c)
  <2>1. calls[c] \in Pass /\ calls[c].at = "visit"
    BY <1>1, <1>10 DEF ListGet, Call, Idle
  <2>2. PICK i \in calls[c].ids : calls' = [calls EXCEPT ![c] = Visit(calls[c], i)]
    BY <1>10 DEF ListGet
  <2>3. Visit(calls[c], i).at # "add"
    BY <2>1, VisitTyped
  <2>4. \A x \in Callers : calls'[x].at = "add" => calls'[x] = calls[x]
    BY <1>1, <2>2, <2>3
  <2>5. setting' = setting /\ members' = members
    BY <1>10 DEF ListGet, keys
  <2>6. QED
    BY <2>4, <2>5, NobodyJoins
<1>11. QED
  BY <1>3, <1>4, <1>5, <1>6, <1>7, <1>8, <1>9, <1>10 DEF CallStep

LEMMA CapStep == Typed /\ CapOK /\ [Next]_vars => CapOK'
<1> SUFFICES ASSUME Typed, CapOK, [Next]_vars PROVE CapOK'
  OBVIOUS
<1>1. CASE \E c \in Callers : \E req \in setting.requests : Begin(c, req)
  BY <1>1, BeginKeepsCap
<1>2. CASE \E c \in Callers : CallStep(c)
  BY <1>2, CallStepKeepsCap
<1>3. CASE \E c \in Callers : Die(c)
  <2>1. PICK c \in Callers : Die(c)
    BY <1>3
  <2>2. \A x \in Callers : calls'[x].at = "add" => calls'[x] = calls[x]
    BY <2>1 DEF Die, Return, Idle, Typed, CallsOK
  <2>3. QED
    BY <2>1, <2>2, NobodyJoins DEF Die, keys
<1>4. CASE \E j \in Cleaners : CleanStep(j) \/ DieCleaning(j)
  <2>1. setting' = setting /\ members' = members /\ calls' = calls
    BY <1>4 DEF CleanStep, CleanIds, CleanExists, CleanRemove, CleanReport, CleanEnd, DieCleaning, keys
  <2>2. QED
    BY <2>1, NobodyJoins
<1>5. CASE Tick
  <2>1. setting' = setting /\ calls' = calls /\ \A id \in Ids : members'[id] \subseteq members[id]
    BY <1>5 DEF Tick, Lapsed
  <2>2. QED
    BY <2>1, NobodyJoins
<1>6. CASE UNCHANGED vars
  <2>1. setting' = setting /\ members' = members /\ calls' = calls
    BY <1>6 DEF vars, keys
  <2>2. QED
    BY <2>1, NobodyJoins
<1>7. QED
  BY <1>1, <1>2, <1>3, <1>4, <1>5, <1>6 DEF Next

(* RosterHolds: however many agents join, leave, end and expire a session  *)
(* at once, join's check (sessions/index.ts:81-86), which is not atomic    *)
(* with its SADD, lets the roster exceed the cap by less than the number   *)
(* of requests in flight.                                                  *)
THEOREM RosterIsBounded == Spec => []RosterHolds
<1>1. Init => CapOK
  <2> SUFFICES ASSUME Init, setting.cap > 0, NEW id \in Ids PROVE Fits(Joined(id))
    BY DEF CapOK
  <2>1. Joined(id) = {}
    BY DEF Init, Joined, Passed, Idle
  <2>2. Cardinality(Callers) \in Nat /\ setting.cap \in Nat
    BY FS_CardinalityType, SessionConstants DEF Init, Setting
  <2>3. QED
    BY <2>1, <2>2, FS_EmptySet DEF Fits
<1>2. Typed /\ CapOK => RosterHolds
  <2> SUFFICES ASSUME Typed, CapOK, setting.cap > 0, NEW id \in Ids
               PROVE  Cardinality(members[id]) < setting.cap + Cardinality(Callers)
    BY DEF RosterHolds
  <2>1. Fits(Joined(id)) /\ members[id] \in SUBSET Joined(id)
    BY DEF CapOK, Joined
  <2>2. QED
    BY <2>1, SmallerFits DEF Fits
<1>3. QED
  BY <1>1, <1>2, TypedInit, TypedStep, CapStep, PTL DEF Spec

-----------------------------------------------------------------------------
(* The index.  A step that makes no session, drops none from the index and *)
(* stops no touch before its SADD.                                         *)
LEMMA NothingUnlisted ==
    ASSUME UnlistedIsExplained, mishaps' = mishaps,
           \A id \in Ids : Exists(id)' => Exists(id),
           index \subseteq index',
           \A c \in Callers : calls[c].at = "list" => calls'[c] = calls[c]
    PROVE  UnlistedIsExplained'
BY DEF UnlistedIsExplained

(* A step of one call, or of none, that is not about to list a session.    *)
LEMMA OtherCalls ==
    ASSUME Typed, UnlistedIsExplained, NEW c \in Callers, calls[c].at # "list", NEW r,
           calls' = [calls EXCEPT ![c] = r], mishaps' = mishaps,
           \A id \in Ids : Exists(id)' => Exists(id),
           index \subseteq index'
    PROVE  UnlistedIsExplained'
<1>1. \A x \in Callers : calls[x].at = "list" => calls'[x] = calls[x]
  BY DEF Typed, CallsOK
<1>2. QED
  BY <1>1, NothingUnlisted

(* SREM of ids of which a session may live again.                          *)
LEMMA DroppingExplained ==
    ASSUME UnlistedIsExplained, NEW ids, Dropping(ids), meta' = meta,
           \A c \in Callers : calls[c].at = "list" => calls'[c] = calls[c]
    PROVE  UnlistedIsExplained'
<1> SUFFICES ASSUME mishaps' = {}, NEW id \in Ids, Exists(id)
             PROVE  id \in index' \/ \E c \in Callers : calls'[c].at = "list" /\ calls'[c].req.id = id
  BY DEF UnlistedIsExplained, Exists
<1>1. mishaps = {} /\ id \notin ids \cap index
  BY DEF Dropping
<1>2. id \in index \/ \E c \in Callers : calls[c].at = "list" /\ calls[c].req.id = id
  BY <1>1 DEF UnlistedIsExplained
<1>3. QED
  BY <1>1, <1>2 DEF Dropping

LEMMA BeginExplained ==
    ASSUME Typed, UnlistedIsExplained, NEW c \in Callers, NEW req \in setting.requests, Begin(c, req)
    PROVE  UnlistedIsExplained'
<1>1. /\ calls[c].at # "list" /\ req.id \in Ids /\ mishaps' = mishaps
      /\ meta \in [Ids -> Nat] /\ calls \in [Callers -> Call \cup Pass \cup {Idle}]
  BY SessionConstants DEF Begin, Create, JoinRead, Leave, EndAudit, TouchSet, AbortRead, ListIds,
     Starts, Idle, Typed, Setting, Request, MetaOK, CallsOK
<1>2. CASE Create(c, req)
  <2>1. meta' = [meta EXCEPT ![req.id] = TtlOf(req)] /\ index' = index \cup {req.id} /\ calls' = calls
    BY <1>2 DEF Create, SetMeta, Listed
  <2>2. QED
    BY <1>1, <2>1 DEF UnlistedIsExplained, Exists
<1>3. CASE Leave(c, req)
  BY <1>1, <1>3, NothingUnlisted DEF Leave, Exists
<1>4. CASE JoinRead(c, req) \/ EndAudit(c, req) \/ AbortRead(c, req) \/ ListIds(c, req)
  <2>1. PICK r : calls' = [calls EXCEPT ![c] = r]
    BY <1>4 DEF JoinRead, EndAudit, AbortRead, ListIds, Go
  <2>2. meta' = meta /\ index' = index
    BY <1>4 DEF JoinRead, EndAudit, AbortRead, ListIds, keys
  <2>3. QED
    BY <1>1, <2>1, <2>2, OtherCalls DEF Exists
<1>5. CASE TouchSet(c, req) /\ Exists(req.id)
  <2>1. calls' = [calls EXCEPT ![c] = [at |-> "keep", req |-> req, ttl |-> 0]]
    BY <1>5 DEF TouchSet, Go
  <2>2. meta' = meta /\ index' = index
    BY <1>5 DEF TouchSet
  <2>3. QED
    BY <1>1, <2>1, <2>2, OtherCalls DEF Exists
<1>6. CASE TouchSet(c, req) /\ ~Exists(req.id)
  <2> DEFINE r == [at |-> "list", req |-> req, ttl |-> 0]
  <2>1. /\ calls' = [calls EXCEPT ![c] = r] /\ index' = index
        /\ meta' = [meta EXCEPT ![req.id] = DefaultTtl]
    BY <1>6 DEF TouchSet, Go, SetMeta
  <2>2. r.at = "list" /\ r.req.id = req.id
    OBVIOUS
  <2> HIDE DEF r
  <2>3. calls'[c].at = "list" /\ calls'[c].req.id = req.id
    BY <1>1, <2>1, <2>2
  <2>4. \A x \in Callers \ {c} : calls'[x] = calls[x]
    BY <1>1, <2>1
  <2>5. \A id \in Ids : Exists(id)' => id = req.id \/ Exists(id)
    BY <1>1, <2>1 DEF Exists
  <2>6. QED
    BY <1>1, <2>1, <2>3, <2>4, <2>5 DEF UnlistedIsExplained
<1>7. QED
  BY <1>2, <1>3, <1>4, <1>5, <1>6 DEF Begin

LEMMA CallStepExplained ==
    ASSUME Typed, UnlistedIsExplained, NEW c \in Callers, CallStep(c)
    PROVE  UnlistedIsExplained'
<1>1. /\ meta \in [Ids -> Nat] /\ index \subseteq Ids
      /\ calls \in [Callers -> Call \cup Pass \cup {Idle}]
  BY DEF Typed, MetaOK, CallsOK, RestOK
<1>2. CASE \/ JoinIsMember(c) \/ JoinCount(c) \/ JoinAdd(c) \/ JoinRefreshMeta(c)
           \/ JoinRefreshMembers(c) \/ TouchKeep(c) \/ AbortSet(c) \/ ListGet(c)
  <2>1. calls[c].at # "list" /\ meta' = meta /\ index' = index /\ mishaps' = mishaps
    BY <1>2 DEF JoinIsMember, JoinCount, JoinAdd, JoinRefreshMeta, JoinRefreshMembers, TouchKeep,
                AbortSet, ListGet, keys
  <2>2. PICK r : calls' = [calls EXCEPT ![c] = r]
    BY <1>2 DEF JoinIsMember, JoinCount, JoinAdd, JoinRefreshMeta, JoinRefreshMembers, TouchKeep,
                AbortSet, ListGet, Then, Return
  <2>3. QED
    BY <2>1, <2>2, OtherCalls DEF Exists
<1>3. CASE EndDelete(c)
  <2> DEFINE own == calls[c].req.id
  <2>1. own \in Ids /\ calls[c].at = "delete"
    BY <1>3, CallFields DEF EndDelete, Typed
  <2>2. /\ meta' = [meta EXCEPT ![own] = 0] /\ index' = index \ {own}
        /\ mishaps' = mishaps /\ calls' = [calls EXCEPT ![c] = Idle]
    BY <1>3 DEF EndDelete, Return
  <2>3. \A id \in Ids : Exists(id)' => id # own /\ Exists(id)
    BY <1>1, <2>1, <2>2 DEF Exists
  <2>4. \A x \in Callers : calls[x].at = "list" => calls'[x] = calls[x]
    BY <1>1, <2>1, <2>2
  <2> HIDE DEF own
  <2>5. QED
    BY <2>2, <2>3, <2>4 DEF UnlistedIsExplained
<1>4. CASE TouchList(c)
  <2> DEFINE own == calls[c].req.id
  <2>1. own \in Ids
    BY <1>4, CallFields DEF TouchList, Typed
  <2>2. /\ index' = index \cup {own} /\ meta' = meta
        /\ mishaps' = mishaps /\ calls' = [calls EXCEPT ![c] = Idle]
    BY <1>4 DEF TouchList, Listed, Return
  <2>3. \A x \in Callers \ {c} : calls'[x] = calls[x]
    BY <1>1, <2>2
  <2>4. \A id \in Ids : Exists(id)' => Exists(id)
    BY <2>2 DEF Exists
  <2>5. QED
    BY <2>2, <2>3, <2>4 DEF UnlistedIsExplained
<1>5. CASE ListPrune(c)
  <2>1. \A x \in Callers : calls[x].at = "list" => calls'[x] = calls[x]
    BY <1>1, <1>5 DEF ListPrune, Return
  <2>2. QED
    BY <1>5, <2>1, DroppingExplained DEF ListPrune
<1>6. QED
  BY <1>2, <1>3, <1>4, <1>5 DEF CallStep

LEMMA ExplainedStep == Typed /\ UnlistedIsExplained /\ [Next]_vars => UnlistedIsExplained'
<1> SUFFICES ASSUME Typed, UnlistedIsExplained, [Next]_vars PROVE UnlistedIsExplained'
  OBVIOUS
<1>1. CASE \E c \in Callers : \E req \in setting.requests : Begin(c, req)
  BY <1>1, BeginExplained
<1>2. CASE \E c \in Callers : CallStep(c)
  BY <1>2, CallStepExplained
<1>3. CASE (\E c \in Callers : Die(c)) \/ (\E j \in Cleaners : DieCleaning(j))
  <2>1. mishaps' # {}
    BY <1>3 DEF Die, DieCleaning, Died
  <2>2. QED
    BY <2>1 DEF UnlistedIsExplained
<1>4. CASE \E j \in Cleaners : CleanStep(j)
  <2>1. PICK j \in Cleaners : CleanStep(j)
    BY <1>4
  <2>2. CASE CleanRemove(j)
    BY <2>2, DroppingExplained DEF CleanRemove
  <2>3. CASE CleanIds(j) \/ CleanExists(j) \/ CleanReport(j) \/ CleanEnd(j)
    <3>1. meta' = meta /\ index' = index /\ calls' = calls /\ mishaps' = mishaps
      BY <2>3 DEF CleanIds, CleanExists, CleanReport, CleanEnd, keys
    <3>2. QED
      BY <3>1, NothingUnlisted DEF Exists
  <2>4. QED
    BY <2>1, <2>2, <2>3 DEF CleanStep
<1>5. CASE Tick
  <2>1. index' = index /\ calls' = calls /\ mishaps' = mishaps /\ \A id \in Ids : Exists(id)' => Exists(id)
    BY <1>5 DEF Tick, Lapsed, Exists
  <2>2. QED
    BY <2>1, NothingUnlisted
<1>6. CASE UNCHANGED vars
  BY <1>6 DEF vars, keys, UnlistedIsExplained, Exists
<1>7. QED
  BY <1>1, <1>2, <1>3, <1>4, <1>5, <1>6 DEF Next

(* UnlistedIsExplained: a live session is missing from the index only      *)
(* while its touch has yet to list it, after a death, or after a cleaner   *)
(* or a list dropped what had come back since they looked.                 *)
THEOREM IndexIsExplained == Spec => []UnlistedIsExplained
<1>1. Init => UnlistedIsExplained
  BY DEF Init, UnlistedIsExplained, Exists
<1>2. QED
  BY <1>1, TypedInit, TypedStep, ExplainedStep, PTL DEF Spec
=============================================================================
