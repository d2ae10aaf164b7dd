----------------------------- MODULE ContextStore -----------------------------
(***************************************************************************)
(* The context store of one session: context-store/index.ts over a         *)
(* versioned register for each key (what RedisStore is shown to implement),*)
(* the audit log (append, once it returns, has the entry stored or         *)
(* buffered) and live events.                                              *)
(*                                                                         *)
(* A call goes from round trip to round trip: entry cap, storage, audit,   *)
(* live event.  A caller may make a call again, also while it is running.  *)
(* Values with text are embedded and indexed for search.  touch, which the *)
(* Sessions module has, is left out.                                       *)
(***************************************************************************)
EXTENDS LiveEvents

CONSTANTS
    Callers,
    OperationIds,
    Awaited,        \* the key all awaitKey calls wait for
    Settings        \* who does what in an instance

(* A setting: the request of each operation, how often it is made, the     *)
(* entry cap, who takes part, whether there is an embedder, how many       *)
(* broadcasts may be in flight at once and how many calls may die, which   *)
(* are bounds, and what may happen to what is not awaited: to live events  *)
(* once each, to any embedding.                                            *)
Kinds   == {"write", "append", "increment", "delete"}
Request == [kind : Kinds, fullKey : FullKeys]
Setting == [requests : [OperationIds -> Request], attempts : [OperationIds -> Nat], cap : Nat,
            callers : SUBSET Callers, listeners : SUBSET Listeners, embeds : BOOLEAN,
            inFlight : Nat, deaths : Nat, faults : SUBSET {"loss", "lapse", "embed"}]

ASSUME StoreSettings ==
    Settings \subseteq Setting /\ Awaited \in FullKeys /\ IsFiniteSet(Callers)

VARIABLES
    setting,
    version, writer, remembered,    \* the register of each key
    isDeleted,                      \* whether its entry is a tombstone
    index,                          \* the session's key set
    calls,                          \* the call each caller is making
    tries,                          \* how often each operation was called
    trail,                          \* the audit entries of the session's run
    waits,                          \* the loop of each awaitKey
    embeddings,                     \* the upserts of the search index in flight
    rows,                           \* the version it has of each key, 0 for none
    died,                           \* history: deaths of calls so far
    unsure                          \* history: keys whose last embedding may not win

register  == <<version, writer, remembered>>
search    == <<embeddings, rows>>
entries   == <<register, isDeleted, index, unsure>>
storeVars == <<setting, entries, calls, tries, trail, waits, search, died>>
vars      == <<storeVars, liveVars>>

Storage == INSTANCE VersionedRegister

Events     == {"CTX_WRITE", "CTX_CONFLICT", "CTX_DELETE"}
Note       == [event : Events, op : OperationIds, fullKey : FullKeys, version : Nat]
Idle       == [at |-> "idle"]
Call       == [at : {"has", "count", "store", "get", "tombstone"}, op : OperationIds]
                  \cup [at : {"audit", "emit"}, op : OperationIds, note : Note]
KeyOf(op)  == setting.requests[op].fullKey
KindOf(op) == setting.requests[op].kind
IsLive(k)  == version[k] > 0 /\ ~isDeleted[k]

-----------------------------------------------------------------------------
(* Calls.  Those of write and append check the cap first, and delete reads *)
(* the entry it is to mark.                                                *)

GoTo(c, at) == calls' = [calls EXCEPT ![c].at = at]
Return(c)   == calls' = [calls EXCEPT ![c] = Idle]
Tell(c, event, v) ==
    LET op == calls[c].op
    IN  calls' = [calls EXCEPT ![c] =
            [at |-> "audit", op |-> op,
             note |-> [event |-> event, op |-> op, fullKey |-> KeyOf(op), version |-> v]]]

FirstStep(op) ==
    CASE KindOf(op) \in {"write", "append"} -> IF setting.cap = 0 THEN "store" ELSE "has"
      [] KindOf(op) = "increment" -> "store"
      [] KindOf(op) = "delete" -> "get"

Begin(c, op) ==
    /\ c \in setting.callers
    /\ calls[c] = Idle
    /\ tries[op] < setting.attempts[op]
    /\ tries' = [tries EXCEPT ![op] = @ + 1]
    /\ calls' = [calls EXCEPT ![c] = [at |-> FirstStep(op), op |-> op]]
    /\ UNCHANGED <<setting, entries, trail, waits, search, died, liveVars>>

(* assertEntryCap: SISMEMBER, then SCARD.  The mutant is off by one.       *)
AssertHas(c) ==
    /\ calls[c].at = "has"
    /\ GoTo(c, IF KeyOf(calls[c].op) \in index THEN "store" ELSE "count")
    /\ UNCHANGED <<setting, entries, tries, trail, waits, search, died, liveVars>>

PastCap == Cardinality(index) > setting.cap                        \* mutant
AtCap   == Cardinality(index) >= setting.cap

AssertCount(c) ==
    /\ calls[c].at = "count"
    /\ IF AtCap THEN Return(c) ELSE GoTo(c, "store")
    /\ UNCHANGED <<setting, entries, tries, trail, waits, search, died, liveVars>>

(* What is to be embedded: the values of writes and appends, which have    *)
(* text here, and of no increment.                                         *)
HasText(op) == KindOf(op) \in {"write", "append"}
ToIndex(n)  ==
    IF setting.embeds /\ n.event = "CTX_WRITE" /\ HasText(n.op)
    THEN {[fullKey |-> n.fullKey, version |-> n.version]}
    ELSE {}

(* The storage's write, append or increment: a commit, a conflict or the   *)
(* replay of a commit.  The mutant reports a replay like a commit.         *)
Unfinished(k) ==
    \/ \E c \in Callers : calls[c].at \in {"audit", "emit"}
                         /\ \E e \in ToIndex(calls[c].note) : e.fullKey = k
    \/ \E e \in embeddings : e.fullKey = k

Stores(k, op, deleted) ==
    /\ Storage!Commit(k, op)
    /\ isDeleted' = [isDeleted EXCEPT ![k] = deleted]
    /\ index' = index \cup {k}
    /\ unsure' = IF Unfinished(k) THEN unsure \cup {k} ELSE unsure

ReplayTold(c) == Tell(c, "CTX_WRITE", version[KeyOf(calls[c].op)])
ReplayEnds(c) == Return(c)

Store(c) ==
    LET op == calls[c].op
        k == KeyOf(op)
    IN  /\ calls[c].at = "store"
        /\ \/ op \in remembered[k] /\ ReplayEnds(c) /\ UNCHANGED entries
           \/ Stores(k, op, FALSE) /\ Tell(c, "CTX_WRITE", version'[k])
           \/ /\ op \notin remembered[k]
              /\ version[k] > 0 \/ KindOf(op) = "write"
              /\ Tell(c, "CTX_CONFLICT", version[k])
              /\ UNCHANGED entries
        /\ UNCHANGED <<setting, tries, trail, waits, search, died, liveVars>>

(* The storage's delete: GET, then the script that writes the tombstone.   *)
DeleteGet(c) ==
    /\ calls[c].at = "get"
    /\ IF IsLive(KeyOf(calls[c].op)) THEN GoTo(c, "tombstone") ELSE Return(c)
    /\ UNCHANGED <<setting, entries, tries, trail, waits, search, died, liveVars>>

DeleteStore(c) ==
    LET op == calls[c].op
        k == KeyOf(op)
    IN  /\ calls[c].at = "tombstone"
        /\ \/ Stores(k, op, TRUE) /\ Tell(c, "CTX_DELETE", version'[k])
           \/ Return(c) /\ UNCHANGED entries      \* a replay or a conflict
        /\ UNCHANGED <<setting, tries, trail, waits, search, died, liveVars>>

AppendAudit(c) ==
    /\ calls[c].at = "audit"
    /\ trail' = Append(trail, calls[c].note)
    /\ GoTo(c, "emit")
    /\ UNCHANGED <<setting, entries, tries, waits, search, died, liveVars>>

(* The event is sent and the value embedded, and neither is awaited.       *)
EmitNote(c) ==
    /\ calls[c].at = "emit"
    /\ Cardinality(broadcasts) < setting.inFlight
    /\ Emit(calls[c].note.fullKey)
    /\ embeddings' = embeddings \cup ToIndex(calls[c].note)
    /\ Return(c)
    /\ UNCHANGED <<setting, entries, tries, trail, waits, rows, died>>

(* The embedding ends, after any time, with an upsert of whatever version  *)
(* it was made of, or fails unnoticed.                                     *)
Upsert(e) ==
    /\ rows' = [rows EXCEPT ![e.fullKey] = e.version]
    /\ embeddings' = embeddings \ {e}
    /\ UNCHANGED <<setting, entries, calls, tries, trail, waits, died, liveVars>>

FailToIndex(e) ==
    /\ embeddings' = embeddings \ {e}
    /\ unsure' = unsure \cup {e.fullKey}
    /\ UNCHANGED <<setting, register, isDeleted, index, calls, tries, trail, waits, rows, died, liveVars>>

(* search drops the hits that storage no longer reads.                     *)
Found == {k \in FullKeys : rows[k] > 0 /\ IsLive(k)}

Die(c) ==
    /\ calls[c] # Idle
    /\ died < setting.deaths
    /\ died' = died + 1
    /\ Return(c)
    /\ UNCHANGED <<setting, entries, tries, trail, waits, search, liveVars>>
-----------------------------------------------------------------------------
(* awaitKey: subscribe, then read, and wait for an event of the key, the   *)
(* poll timer or the deadline.  An event that arrives while the call reads *)
(* ends its next wait at once.                                             *)

WaitBegin(w) ==
    /\ w \in setting.listeners
    /\ Subscribe(w)
    /\ UNCHANGED <<storeVars, counter, buffer, broadcasts, client, mishaps>>

WaitRead(w) ==
    /\ listening[w] = "on" /\ waits[w].at = "read"
    /\ waits' = [waits EXCEPT ![w].at = IF IsLive(Awaited) THEN "done" ELSE "check"]
    /\ UNCHANGED <<setting, entries, calls, tries, trail, search, died, liveVars>>

(* The mutant makes the promise of the next wait after the read.           *)
RaceAnew(w) == waits' = [waits EXCEPT ![w] = [at |-> "race", woken |-> FALSE]]
Race(w)     == waits' = [waits EXCEPT ![w].at = "race"]

WaitCheck(w) ==
    /\ waits[w].at = "check"
    /\ \/ Race(w)
       \/ waits' = [waits EXCEPT ![w].at = "done"]     \* past the deadline
    /\ UNCHANGED <<setting, entries, calls, tries, trail, search, died, liveVars>>

WaitWake(w) ==
    /\ waits[w].at = "race"
    /\ waits' = [waits EXCEPT ![w] = [at |-> "read", woken |-> FALSE]]
    /\ UNCHANGED <<setting, entries, calls, tries, trail, search, died, liveVars>>

WaitEnd(w) ==
    /\ waits[w].at = "done"
    /\ Unsubscribe(w)
    /\ UNCHANGED <<storeVars, counter, buffer, broadcasts, client, mishaps>>

(* An event wakes the waiters it is for, and the socket sends it on.       *)
Woken(e) ==
    [w \in Waiters |->
        [waits[w] EXCEPT !.woken = @ \/ (w \in handlers /\ e.fullKey = Awaited)]]

HandleEvent ==
    /\ TakeEvent
    /\ waits' = Woken(Head(arriving))
    /\ UNCHANGED <<setting, entries, calls, tries, trail, search, died>>

-----------------------------------------------------------------------------
Init ==
    /\ setting \in Settings
    /\ Storage!Init
    /\ isDeleted = [k \in FullKeys |-> FALSE]
    /\ index = {}
    /\ calls = [c \in Callers |-> Idle]
    /\ tries = [op \in OperationIds |-> 0]
    /\ trail = << >>
    /\ waits = [w \in Waiters |-> [at |-> "read", woken |-> FALSE]]
    /\ embeddings = {}
    /\ rows = [k \in FullKeys |-> 0]
    /\ died = 0
    /\ unsure = {}
    /\ LiveInit

CallStep(c) ==
    \/ AssertHas(c) \/ AssertCount(c) \/ Store(c) \/ DeleteGet(c) \/ DeleteStore(c)
    \/ AppendAudit(c) \/ EmitNote(c)

WaitStep(w) == WaitBegin(w) \/ WaitRead(w) \/ WaitCheck(w) \/ WaitWake(w) \/ WaitEnd(w)

MayHappen(fault) == fault \in setting.faults \ mishaps

(* Steps of the live events that the store has no part in.                 *)
LiveStep ==
    \/ \E b \in broadcasts : Record(b) \/ Publish(b) \/ (MayHappen("loss") /\ Lose(b))
    \/ MayHappen("lapse") /\ BufferLapse
    \/ Execute \/ TakeAnswer
    \/ \E x \in Sockets : (x \in setting.listeners /\ Connect(x)) \/ OnClose(x)
    \/ Resync \/ Disconnect

Next ==
    \/ \E c \in Callers : (\E op \in OperationIds : Begin(c, op)) \/ CallStep(c) \/ Die(c)
    \/ \E e \in embeddings : Upsert(e) \/ ("embed" \in setting.faults /\ FailToIndex(e))
    \/ \E w \in Waiters : WaitStep(w)
    \/ HandleEvent
    \/ LiveStep /\ UNCHANGED storeVars

Spec == Init /\ [][Next]_vars

-----------------------------------------------------------------------------
(* Properties.                                                             *)

(* Every variable has its type.                                            *)
TypeOK ==
    /\ setting \in Setting
    /\ version \in [FullKeys -> Nat]
    /\ writer \in [FullKeys -> OperationIds \cup {Storage!Nobody}]
    /\ remembered \in [FullKeys -> SUBSET OperationIds]
    /\ isDeleted \in [FullKeys -> BOOLEAN]
    /\ index \subseteq FullKeys
    /\ calls \in [Callers -> Call \cup {Idle}]
    /\ tries \in [OperationIds -> Nat]
    /\ trail \in Seq(Note)
    /\ waits \in [Waiters -> [at : {"read", "check", "race", "done"}, woken : BOOLEAN]]
    /\ embeddings \subseteq [fullKey : FullKeys, version : Nat]
    /\ rows \in [FullKeys -> Nat]
    /\ died \in Nat
    /\ unsure \subseteq FullKeys
    /\ LiveTypeOK

(* Concurrent creators overshoot the entry cap by what is in flight and no *)
(* more: the writes and appends of n callers leave at most n - 1 keys too  *)
(* many, however many they make.  increment checks no cap; its keys are    *)
(* not counted here.                                                       *)
Incremented == {KeyOf(op) : op \in {o \in OperationIds : KindOf(o) = "increment"}}
CapHolds ==
    setting.cap > 0 =>
        Cardinality(index \ Incremented) < setting.cap + Cardinality(setting.callers)

(* Every version of every key has one audit entry, or a call that is about *)
(* to append it, whatever is called again meanwhile; none only if a call   *)
(* died, and never two.                                                    *)
Tells(n, k, v) == n.event # "CTX_CONFLICT" /\ n.fullKey = k /\ n.version = v
Telling(k, v)  ==
    Cardinality({i \in DOMAIN trail : Tells(trail[i], k, v)})
      + Cardinality({c \in Callers : calls[c].at = "audit" /\ Tells(calls[c].note, k, v)})
AuditedOnce ==
    \A k \in FullKeys : \A v \in 1 .. version[k] :
        Telling(k, v) <= 1 /\ (died = 0 => Telling(k, v) = 1)

(* The search index has "one row per key (latest version)": once nothing of*)
(* a live key with text is unfinished, search finds it by its current      *)
(* version, deleted and restored meanwhile or not, unless a call died, an  *)
(* embedding failed, or two commits of the key overlapped.                 *)
SearchIsCurrent ==
    (setting.embeds /\ died = 0) =>
        \A k \in FullKeys \ unsure :
            (IsLive(k) /\ HasText(writer[k]) /\ ~Unfinished(k)) => k \in Found /\ rows[k] = version[k]

(* What follows a commit, once each and in the end for the last one.       *)
CommitsAreFollowedUp == AuditedOnce /\ SearchIsCurrent

(* awaitKey is "lost-wakeup-safe": while it waits for its timer although   *)
(* the key is there, an event that will wake it is on its way, unless the  *)
(* call or the broadcast that had to send it failed.                       *)
OnItsWay(k) ==
    \/ \E c \in Callers : calls[c].at \in {"audit", "emit"} /\ calls[c].note.fullKey = k
    \/ \E b \in broadcasts : b.event.fullKey = k
    \/ \E i \in DOMAIN arriving : ~IsAnswer(arriving[i]) /\ arriving[i].fullKey = k
WakeupIsNotLost ==
    (died = 0 /\ "loss" \notin mishaps) =>
        \A w \in Waiters :
            (waits[w].at = "race" /\ ~waits[w].woken /\ IsLive(Awaited)) => OnItsWay(Awaited)
=============================================================================
