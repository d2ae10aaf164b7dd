-------------------------- MODULE ContextStoreProofs --------------------------
(***************************************************************************)
(* Theorems about the context store of a session and its live events, for  *)
(* any keys, operations, callers, listeners, settings and buffer size.     *)
(***************************************************************************)
EXTENDS ContextStore, FiniteSetTheorems, SequenceTheorems, TLAPS

-----------------------------------------------------------------------------
(* Sequences, entry by entry.                                              *)

LEMMA AppendAt ==
    ASSUME NEW S, NEW s \in Seq(S), NEW e \in S
    PROVE  /\ Append(s, e) \in Seq(S) /\ Len(Append(s, e)) = Len(s) + 1 /\ Len(s) \in Nat
           /\ DOMAIN s = 1 .. Len(s) /\ DOMAIN Append(s, e) = 1 .. Len(s) + 1
           /\ \A i \in 1 .. Len(s) : Append(s, e)[i] = s[i]
           /\ Append(s, e)[Len(s) + 1] = e
OBVIOUS

LEMMA TailAt ==
    ASSUME NEW S, NEW s \in Seq(S), s # << >>
    PROVE  /\ Tail(s) \in Seq(S) /\ Len(Tail(s)) = Len(s) - 1 /\ Len(s) \in Nat \ {0}
           /\ DOMAIN s = 1 .. Len(s) /\ DOMAIN Tail(s) = 1 .. Len(s) - 1
           /\ \A i \in 1 .. Len(s) - 1 : Tail(s)[i] = s[i + 1]
           /\ Head(s) = s[1] /\ Head(s) \in S
OBVIOUS

(* LTRIM keeps the last n.                                                 *)
LEMMA LastAt ==
    ASSUME NEW S, NEW s \in Seq(S), NEW n \in Nat
    PROVE  /\ Last(s, n) \in Seq(S) /\ Len(Last(s, n)) <= n /\ Len(Last(s, n)) <= Len(s)
           /\ Len(s) > 0 /\ n > 0 => Len(Last(s, n)) > 0
           /\ DOMAIN Last(s, n) = 1 .. Len(Last(s, n)) /\ Len(Last(s, n)) \in Nat
           /\ \A i \in 1 .. Len(Last(s, n)) :
                 /\ Last(s, n)[i] = s[Len(s) - Len(Last(s, n)) + i]
                 /\ Len(s) - Len(Last(s, n)) + i \in 1 .. Len(s)
<1>1. Len(s) \in Nat /\ DOMAIN s = 1 .. Len(s)
  OBVIOUS
<1>2. PICK m : m = IF Len(s) > n THEN Len(s) - n + 1 ELSE 1
  OBVIOUS
<1>3. m \in 1 .. Len(s) + 1 /\ m \in Int
  BY <1>1, <1>2
<1>4. \A i \in m .. Len(s) : s[i] \in S
  BY <1>1, <1>3
<1>5. Last(s, n) = SubSeq(s, m, Len(s))
  BY <1>2 DEF Last
<1>6. /\ Last(s, n) \in Seq(S)
      /\ Len(Last(s, n)) = (IF m <= Len(s) THEN Len(s) - m + 1 ELSE 0)
      /\ \A i \in 1 .. Len(s) - m + 1 : Last(s, n)[i] = s[m + i - 1]
  BY <1>1, <1>3, <1>4, <1>5, SubSeqProperties
<1>7. Len(Last(s, n)) = Len(s) - m + 1 /\ Len(s) - m + 1 \in Nat
  BY <1>1, <1>3, <1>6
<1>8. Len(s) - m + 1 <= n /\ Len(s) - m + 1 <= Len(s) /\ (Len(s) > 0 /\ n > 0 => Len(s) - m + 1 > 0)
  <2>1. CASE Len(s) > n
    BY <1>1, <1>2, <2>1
  <2>2. CASE ~(Len(s) > n)
    <3>1. m = 1
      BY <1>2, <2>2
    <3>2. Len(s) \in Nat /\ Len(s) <= n
      BY <1>1, <2>2
    <3>3. QED
      BY <3>1, <3>2
  <2>3. QED
    BY <2>1, <2>2
<1>9. \A i \in 1 .. Len(s) - m + 1 :
         Len(s) - (Len(s) - m + 1) + i = m + i - 1 /\ m + i - 1 \in 1 .. Len(s)
  BY <1>1, <1>3
<1>10. DOMAIN Last(s, n) = 1 .. Len(Last(s, n))
  BY <1>6
<1>11. QED
  BY <1>6, <1>7, <1>8, <1>9, <1>10

-----------------------------------------------------------------------------
(* Types.                                                                  *)

(* A call that has its note is in the audit log or the broadcast.          *)
LEMMA CallTyped ==
    ASSUME TypeOK, NEW c \in Callers
    PROVE  /\ calls[c] \in Call \cup {Idle}
           /\ calls[c].at # "idle" => calls[c] \in Call /\ calls[c].op \in OperationIds
           /\ calls[c].at \in {"audit", "emit"} <=> calls[c] \in [at : {"audit", "emit"},
                 op : OperationIds, note : Note]
           /\ calls[c].at \in {"audit", "emit"} => calls[c].note \in Note
           /\ calls[c].at \in {"has", "count", "store", "get", "tombstone"} =>
                 calls[c] \in [at : {"has", "count", "store", "get", "tombstone"}, op : OperationIds]
           /\ calls[c].at \in {"idle", "has", "count", "store", "get", "tombstone", "audit", "emit"}
           /\ calls[c].at = "idle" <=> calls[c] = Idle
<1>1. calls[c] \in Call \cup {Idle}
  BY DEF TypeOK
<1>2. CASE calls[c] = Idle
  BY <1>2 DEF Idle
<1>3. CASE calls[c] \in [at : {"has", "count", "store", "get", "tombstone"}, op : OperationIds]
  BY <1>3 DEF Call, Idle
<1>4. CASE calls[c] \in [at : {"audit", "emit"}, op : OperationIds, note : Note]
  BY <1>4 DEF Call, Idle
<1>5. QED
  BY <1>1, <1>2, <1>3, <1>4 DEF Call

LEMMA RequestTyped ==
    ASSUME TypeOK, NEW op \in OperationIds
    PROVE  KeyOf(op) \in FullKeys /\ KindOf(op) \in Kinds
BY DEF TypeOK, Setting, Request, KeyOf, KindOf

LEMMA TellTyped ==
    ASSUME TypeOK, NEW c \in Callers, calls[c].at # "idle", NEW event \in Events, NEW v \in Nat,
           Tell(c, event, v)
    PROVE  calls' \in [Callers -> Call \cup {Idle}]
<1>1. calls[c].op \in OperationIds /\ KeyOf(calls[c].op) \in FullKeys
  BY CallTyped, RequestTyped
<1>2. PICK new : new = [at |-> "audit", op |-> calls[c].op,
                        note |-> [event |-> event, op |-> calls[c].op,
                                  fullKey |-> KeyOf(calls[c].op), version |-> v]]
  OBVIOUS
<1>3. new \in Call
  BY <1>1, <1>2 DEF Call, Note
<1>4. calls' = [calls EXCEPT ![c] = new]
  BY <1>2 DEF Tell
<1>5. QED
  BY <1>3, <1>4 DEF TypeOK

LEMMA GoToTyped ==
    ASSUME TypeOK, NEW c \in Callers, NEW at, GoTo(c, at),
           \/ calls[c].at \in {"has", "count", "get"} /\ at \in {"count", "store", "tombstone"}
           \/ calls[c].at = "audit" /\ at = "emit"
    PROVE  calls' \in [Callers -> Call \cup {Idle}]
<1>1. PICK new : new = [calls[c] EXCEPT !.at = at]
  OBVIOUS
<1>2. calls' = [calls EXCEPT ![c] = new]
  BY <1>1 DEF GoTo
<1>3. new \in Call
  <2>1. CASE calls[c].at = "audit"
    BY <1>1, <2>1, CallTyped DEF Call
  <2>2. CASE calls[c].at \in {"has", "count", "get"}
    BY <1>1, <2>2, CallTyped DEF Call
  <2>3. QED
    BY <2>1, <2>2
<1>4. QED
  BY <1>2, <1>3 DEF TypeOK

LEMMA ReturnTyped ==
    ASSUME TypeOK, NEW c \in Callers, Return(c)
    PROVE  calls' \in [Callers -> Call \cup {Idle}]
BY DEF Return, TypeOK

LEMMA StoresTyped ==
    ASSUME TypeOK, NEW k \in FullKeys, NEW op \in OperationIds, NEW deleted \in BOOLEAN,
           Stores(k, op, deleted)
    PROVE  /\ version' \in [FullKeys -> Nat]
           /\ writer' \in [FullKeys -> OperationIds \cup {Storage!Nobody}]
           /\ remembered' \in [FullKeys -> SUBSET OperationIds]
           /\ isDeleted' \in [FullKeys -> BOOLEAN]
           /\ index' \subseteq FullKeys /\ unsure' \subseteq FullKeys
           /\ version' = [version EXCEPT ![k] = version[k] + 1]
           /\ version'[k] = version[k] + 1 /\ version'[k] \in Nat
BY DEF TypeOK, Stores, Storage!Commit

LEMMA ToIndexTyped ==
    ASSUME NEW n \in Note
    PROVE  ToIndex(n) \subseteq [fullKey : FullKeys, version : Nat]
BY DEF ToIndex, Note

(* The part of the types that is about the store.                          *)
StoreTypeOK ==
    /\ setting \in Setting
    /\ version \in [FullKeys -> Nat]
    /\ writer \in [FullKeys -> OperationIds \cup {Storage!Nobody}]
    /\ remembered \in [FullKeys -> SUBSET OperationIds]
    /\ isDeleted \in [FullKeys -> BOOLEAN]
    /\ index \subseteq FullKeys
    /\ calls \in [Callers -> Call \cup {Idle}]
    /\ tries \in [OperationIds -> Nat]
    /\ trail \in Seq(Note)
    /\ waits \in [Waiters -> [at : {"read", "check", "race", "done"}, woken : BOOLEAN]]
    /\ embeddings \subseteq [fullKey : FullKeys, version : Nat]
    /\ rows \in [FullKeys -> Nat]
    /\ died \in Nat
    /\ unsure \subseteq FullKeys

LEMMA CallStepTyped ==
    ASSUME TypeOK, NEW c \in Callers, CallStep(c)
    PROVE  StoreTypeOK'
<1> DEFINE op == calls[c].op
<1>1. StoreTypeOK
  BY DEF TypeOK, StoreTypeOK
<1>2. ASSUME calls[c].at # "idle"
      PROVE  op \in OperationIds /\ KeyOf(op) \in FullKeys /\ version[KeyOf(op)] \in Nat
  BY <1>2, CallTyped, RequestTyped DEF TypeOK
<1> HIDE DEF op
<1>3. CASE AssertHas(c)
  <2>1. PICK at : GoTo(c, at) /\ at \in {"count", "store", "tombstone"}
    BY <1>3 DEF AssertHas
  <2>2. calls' \in [Callers -> Call \cup {Idle}]
    BY <1>3, <2>1, GoToTyped DEF AssertHas
  <2>3. QED
    BY <1>1, <1>3, <2>2 DEF AssertHas, StoreTypeOK, entries, register, search
<1>4. CASE AssertCount(c)
  <2>1. calls' \in [Callers -> Call \cup {Idle}]
    BY <1>4, GoToTyped, ReturnTyped DEF AssertCount
  <2>2. QED
    BY <1>1, <1>4, <2>1 DEF AssertCount, StoreTypeOK, entries, register, search
<1>5. CASE Store(c)
  <2>1. calls[c].at = "store" /\ UNCHANGED <<setting, tries, trail, waits, search, died>>
    BY <1>5 DEF Store
  <2>2. op \in OperationIds /\ KeyOf(op) \in FullKeys /\ version[KeyOf(op)] \in Nat
    BY <1>2, <2>1
  <2>3. CASE ReplayEnds(c) /\ UNCHANGED entries
    BY <1>1, <2>1, <2>3, ReturnTyped DEF StoreTypeOK, entries, register, search, ReplayEnds
  <2>4. CASE Stores(KeyOf(op), op, FALSE) /\ Tell(c, "CTX_WRITE", version'[KeyOf(op)])
    <3>1. PICK v \in Nat : v = version'[KeyOf(op)]
      BY <2>2, <2>4, StoresTyped
    <3>2. calls' \in [Callers -> Call \cup {Idle}]
      BY <2>1, <2>4, <3>1, TellTyped DEF Events
    <3>3. QED
      BY <1>1, <2>1, <2>2, <2>4, <3>2, StoresTyped DEF StoreTypeOK, search
  <2>5. CASE Tell(c, "CTX_CONFLICT", version[KeyOf(op)]) /\ UNCHANGED entries
    <3>1. calls' \in [Callers -> Call \cup {Idle}]
      BY <2>1, <2>2, <2>5, TellTyped DEF Events
    <3>2. QED
      BY <1>1, <2>1, <2>5, <3>1 DEF StoreTypeOK, entries, register, search
  <2>6. QED
    BY <1>5, <2>3, <2>4, <2>5 DEF Store, op
<1>6. CASE DeleteGet(c)
  <2>1. calls' \in [Callers -> Call \cup {Idle}]
    BY <1>6, GoToTyped, ReturnTyped DEF DeleteGet
  <2>2. QED
    BY <1>1, <1>6, <2>1 DEF DeleteGet, StoreTypeOK, entries, register, search
<1>7. CASE DeleteStore(c)
  <2>1. calls[c].at = "tombstone" /\ UNCHANGED <<setting, tries, trail, waits, search, died>>
    BY <1>7 DEF DeleteStore
  <2>2. op \in OperationIds /\ KeyOf(op) \in FullKeys /\ version[KeyOf(op)] \in Nat
    BY <1>2, <2>1
  <2>3. CASE Return(c) /\ UNCHANGED entries
    BY <1>1, <2>1, <2>3, ReturnTyped DEF StoreTypeOK, entries, register, search
  <2>4. CASE Stores(KeyOf(op), op, TRUE) /\ Tell(c, "CTX_DELETE", version'[KeyOf(op)])
    <3>1. PICK v \in Nat : v = version'[KeyOf(op)]
      BY <2>2, <2>4, StoresTyped
    <3>2. calls' \in [Callers -> Call \cup {Idle}]
      BY <2>1, <2>4, <3>1, TellTyped DEF Events
    <3>3. QED
      BY <1>1, <2>1, <2>2, <2>4, <3>2, StoresTyped DEF StoreTypeOK, search
  <2>5. QED
    BY <1>7, <2>3, <2>4 DEF DeleteStore, op
<1>8. CASE AppendAudit(c)
  <2>1. calls' \in [Callers -> Call \cup {Idle}]
    BY <1>8, GoToTyped DEF AppendAudit
  <2>2. calls[c].note \in Note /\ trail' = Append(trail, calls[c].note)
    BY <1>8, CallTyped DEF AppendAudit
  <2>3. trail' \in Seq(Note)
    BY <1>1, <2>2 DEF StoreTypeOK
  <2>4. QED
    BY <1>1, <1>8, <2>1, <2>3 DEF AppendAudit, StoreTypeOK, entries, register, search
<1>9. CASE EmitNote(c)
  <2>1. calls[c].note \in Note
    BY <1>9, CallTyped DEF EmitNote
  <2>2. embeddings' \subseteq [fullKey : FullKeys, version : Nat]
    BY <1>1, <1>9, <2>1, ToIndexTyped DEF EmitNote, StoreTypeOK
  <2>3. QED
    BY <1>1, <1>9, <2>2, ReturnTyped DEF EmitNote, StoreTypeOK, entries, register
<1>10. QED
  BY <1>3, <1>4, <1>5, <1>6, <1>7, <1>8, <1>9 DEF CallStep

LEMMA WaitStepTyped ==
    ASSUME TypeOK, NEW w \in Waiters, WaitStep(w)
    PROVE  StoreTypeOK'
<1>1. StoreTypeOK
  BY DEF TypeOK, StoreTypeOK
<1>2. CASE UNCHANGED storeVars
  BY <1>1, <1>2 DEF StoreTypeOK, storeVars, entries, register, search
<1>3. CASE WaitRead(w) \/ WaitCheck(w) \/ WaitWake(w)
  <2>1. waits' \in [Waiters -> [at : {"read", "check", "race", "done"}, woken : BOOLEAN]]
    <3>1. PICK x : x = waits[w]
      OBVIOUS
    <3>2. x \in [at : {"read", "check", "race", "done"}, woken : BOOLEAN]
      BY <1>1, <3>1 DEF StoreTypeOK
    <3>3. \/ \E at \in {"check", "race", "done"} : waits' = [waits EXCEPT ![w] = [x EXCEPT !.at = at]]
          \/ waits' = [waits EXCEPT ![w] = [at |-> "read", woken |-> FALSE]]
      BY <1>3, <3>1 DEF WaitRead, WaitCheck, WaitWake, Race
    <3>4. \A at \in {"check", "race", "done"} :
             [x EXCEPT !.at = at] \in [at : {"read", "check", "race", "done"}, woken : BOOLEAN]
      BY <3>2
    <3>5. PICK y \in [at : {"read", "check", "race", "done"}, woken : BOOLEAN] :
             waits' = [waits EXCEPT ![w] = y]
      BY <3>3, <3>4
    <3>6. QED
      BY <1>1, <3>5 DEF StoreTypeOK
  <2>2. QED
    BY <1>1, <1>3, <2>1
       DEF WaitRead, WaitCheck, WaitWake, StoreTypeOK, entries, register, search
<1>4. QED
  BY <1>2, <1>3 DEF WaitStep, WaitBegin, WaitEnd

LEMMA OtherStepTyped ==
    ASSUME TypeOK,
           \/ \E c \in Callers : (\E op \in OperationIds : Begin(c, op)) \/ Die(c)
           \/ \E e \in embeddings : Upsert(e) \/ FailToIndex(e)
           \/ HandleEvent
    PROVE  StoreTypeOK'
<1>1. StoreTypeOK
  BY DEF TypeOK, StoreTypeOK
<1>2. ASSUME NEW c \in Callers, NEW op \in OperationIds, Begin(c, op)
      PROVE  StoreTypeOK'
  <2>1. FirstStep(op) \in {"store", "has", "get"}
    BY RequestTyped DEF FirstStep, Kinds
  <2>2. PICK new : new = [at |-> FirstStep(op), op |-> op]
    OBVIOUS
  <2>3. new \in Call /\ calls' = [calls EXCEPT ![c] = new]
    BY <1>2, <2>1, <2>2 DEF Call, Begin
  <2>4. tries' \in [OperationIds -> Nat]
    BY <1>1, <1>2 DEF Begin, StoreTypeOK
  <2>5. QED
    BY <1>1, <1>2, <2>3, <2>4 DEF Begin, StoreTypeOK, entries, register, search
<1>3. ASSUME NEW c \in Callers, Die(c)
      PROVE  StoreTypeOK'
  BY <1>1, <1>3, ReturnTyped DEF Die, StoreTypeOK, entries, register, search
<1>4. ASSUME NEW e \in embeddings, Upsert(e) \/ FailToIndex(e)
      PROVE  StoreTypeOK'
  BY <1>1, <1>4 DEF Upsert, FailToIndex, StoreTypeOK, entries, register
<1>5. CASE HandleEvent
  <2>1. PICK e : e = Head(arriving)
    OBVIOUS
  <2>2. waits' = Woken(e)
    BY <1>5, <2>1 DEF HandleEvent
  <2>3. waits' \in [Waiters -> [at : {"read", "check", "race", "done"}, woken : BOOLEAN]]
    BY <1>1, <2>2 DEF Woken, StoreTypeOK
  <2>4. QED
    BY <1>1, <1>5, <2>3 DEF HandleEvent, StoreTypeOK, entries, register, search
<1>6. QED
  BY <1>2, <1>3, <1>4, <1>5

(* Live events.                                                            *)

LEMMA EventsAreNoAnswers ==
    \A e \in Event : ~IsAnswer(e)
<1>1. \A e \in Event : DOMAIN e = {"fullKey", "seq"}
  BY DEF Event
<1>2. \A c \in Command : DOMAIN c = {"do", "of"}
  BY DEF Command
<1>3. {"fullKey", "seq"} # {"do", "of"}
  OBVIOUS
<1>4. QED
  BY <1>1, <1>2, <1>3 DEF IsAnswer

LEMMA ArrivalTyped ==
    ASSUME LiveTypeOK, arriving # << >>
    PROVE  /\ Head(arriving) \in Event \cup Command /\ Head(arriving) = arriving[1]
           /\ IsAnswer(Head(arriving)) => Head(arriving) \in Command
           /\ ~IsAnswer(Head(arriving)) => Head(arriving) \in Event
BY TailAt DEF LiveTypeOK, IsAnswer

LEMMA SubscribeTyped ==
    ASSUME LiveTypeOK, NEW l \in Listeners, Subscribe(l) \/ Unsubscribe(l)
    PROVE  /\ handlers' \subseteq Listeners
           /\ channelTaken' \in BOOLEAN /\ subscribed' \in BOOLEAN
           /\ commands' \in Seq(Command) /\ arriving' \in Seq(Event \cup Command)
           /\ listening' \in [Listeners -> {"new", "subscribing", "on", "off", "left"}]
<1>1. PICK s, u : s = [do |-> "subscribe", of |-> l] /\ u = [do |-> "unsubscribe", of |-> l]
  OBVIOUS
<1>2. commands' \in Seq(Command)
  <2>1. s \in Command /\ u \in Command /\ commands \in Seq(Command)
    BY <1>1 DEF Command, LiveTypeOK
  <2>2. commands' = commands \/ commands' = Append(commands, s) \/ commands' = Append(commands, u)
    BY <1>1 DEF Subscribe, Unsubscribe
  <2>3. QED
    BY <2>1, <2>2, AppendAt
<1>3. QED
  BY <1>2 DEF Subscribe, Unsubscribe, LiveTypeOK

Client == [at : {"down", "opening", "up"}, socket : Sockets \cup {NoSocket},
           asked : Nat, lastSeq : Nat, first : Nat, seen : SUBSET Nat]

LEMMA ClientTyped ==
    ASSUME LiveTypeOK
    PROVE  /\ client \in Client
           /\ client.at \in {"down", "opening", "up"} /\ client.socket \in Sockets \cup {NoSocket}
           /\ client.asked \in Nat /\ client.lastSeq \in Nat /\ client.first \in Nat
           /\ client.seen \in SUBSET Nat
<1>1. client \in Client
  BY DEF LiveTypeOK, Client
<1>2. QED
  BY <1>1 DEF Client

LEMMA ClientField ==
    ASSUME NEW x \in Client, NEW s \in SUBSET Nat, NEW n \in Nat
    PROVE  /\ [x EXCEPT !.seen = s] \in Client /\ [x EXCEPT !.first = n] \in Client
           /\ [x EXCEPT !.lastSeq = n] \in Client /\ [x EXCEPT !.at = "up"] \in Client
BY DEF Client

LEMMA ClientChanges ==
    ASSUME NEW x \in Client, NEW s \in SUBSET Nat, NEW n \in Nat
    PROVE  /\ [x EXCEPT !.seen = s, !.lastSeq = n] \in Client
           /\ [x EXCEPT !.at = "up", !.first = n] \in Client
           /\ [x EXCEPT !.at = "up", !.seen = s, !.first = n] \in Client
<1>1. PICK y, z, u : y = [x EXCEPT !.seen = s] /\ z = [x EXCEPT !.at = "up"]
                     /\ u = [z EXCEPT !.seen = s]
  OBVIOUS
<1>2. y \in Client /\ z \in Client /\ u \in Client
  BY <1>1, ClientField
<1>3. [x EXCEPT !.seen = s, !.lastSeq = n] = [y EXCEPT !.lastSeq = n]
  BY <1>1, Zenon
<1>4. [x EXCEPT !.at = "up", !.first = n] = [z EXCEPT !.first = n]
  BY <1>1, Zenon
<1>5. [x EXCEPT !.at = "up", !.seen = s, !.first = n] = [u EXCEPT !.first = n]
  BY <1>1, Zenon
<1>6. QED
  BY <1>2, <1>3, <1>4, <1>5, ClientField

LEMMA EmitTyped ==
    ASSUME LiveTypeOK, NEW k \in FullKeys, Emit(k)
    PROVE  LiveTypeOK'
<1>1. counter' \in Nat /\ counter + 1 \in Nat \ {0}
  BY DEF LiveTypeOK, Emit
<1>2. [at |-> "buffer", event |-> [fullKey |-> k, seq |-> counter + 1]] \in Broadcast
  BY <1>1 DEF Broadcast, Event
<1>3. QED
  BY <1>1, <1>2 DEF LiveTypeOK, Emit, pubsub

LEMMA BroadcastTyped ==
    ASSUME LiveTypeOK, NEW b \in broadcasts, Record(b) \/ Publish(b) \/ Lose(b)
    PROVE  LiveTypeOK'
<1>1. b \in Broadcast /\ b.event \in Event
  BY DEF LiveTypeOK, Broadcast
<1>2. CASE Record(b)
  <2>1. [b EXCEPT !.at = "publish"] \in Broadcast
    BY <1>1 DEF Broadcast
  <2>2. buffer' \in Seq(Event) /\ Len(buffer') <= BufferSize
    <3>1. PICK s : s = Append(buffer, b.event)
      OBVIOUS
    <3>2. s \in Seq(Event) /\ BufferSize \in Nat
      BY <1>1, <3>1, AppendAt, LiveConstants DEF LiveTypeOK
    <3>3. buffer' = Last(s, BufferSize)
      BY <1>2, <3>1 DEF Record
    <3>4. QED
      BY <3>2, <3>3, LastAt
  <2>3. QED
    BY <1>2, <2>1, <2>2 DEF LiveTypeOK, Record, pubsub
<1>3. CASE Publish(b)
  <2>1. arriving' \in Seq(Event \cup Command)
    BY <1>1, <1>3, AppendAt DEF LiveTypeOK, Publish
  <2>2. QED
    BY <1>3, <2>1 DEF LiveTypeOK, Publish
<1>4. CASE Lose(b)
  BY <1>4 DEF LiveTypeOK, Lose, pubsub
<1>5. QED
  BY <1>2, <1>3, <1>4

LEMMA MissedTyped ==
    ASSUME LiveTypeOK, NEW asked
    PROVE  Missed(asked) \in SUBSET Nat
BY DEF LiveTypeOK, Missed

LEMMA ServerTyped ==
    ASSUME LiveTypeOK, Execute \/ TakeAnswer \/ TakeEvent
    PROVE  LiveTypeOK'
<1>1. CASE Execute
  <2>1. commands \in Seq(Command) /\ commands # << >> /\ arriving \in Seq(Event \cup Command)
    BY <1>1 DEF LiveTypeOK, Execute
  <2>2. Head(commands) \in Event \cup Command /\ Tail(commands) \in Seq(Command)
    BY <2>1, TailAt
  <2>3. arriving' \in Seq(Event \cup Command) /\ commands' \in Seq(Command) /\ subscribed' \in BOOLEAN
    BY <1>1, <2>1, <2>2, AppendAt DEF Execute
  <2>4. QED
    BY <1>1, <2>3 DEF LiveTypeOK, Execute
<1>2. CASE TakeAnswer \/ TakeEvent
  <2>1. arriving # << >> /\ arriving' = Tail(arriving) /\ arriving \in Seq(Event \cup Command)
    BY <1>2 DEF TakeAnswer, TakeEvent, LiveTypeOK
  <2>2. arriving' \in Seq(Event \cup Command)
    BY <2>1, TailAt
  <2>3. PICK e : e = Head(arriving)
    OBVIOUS
  <2>4. CASE TakeAnswer
    <3>1. e \in Command
      BY <2>1, <2>3, <2>4, ArrivalTyped DEF TakeAnswer
    <3>2. e.of \in Listeners
      BY <3>1 DEF Command
    <3>3. channelTaken' \in BOOLEAN
          /\ listening' \in [Listeners -> {"new", "subscribing", "on", "off", "left"}]
      BY <2>3, <2>4, <3>2 DEF TakeAnswer, LiveTypeOK
    <3>4. QED
      BY <2>2, <2>4, <3>3 DEF TakeAnswer, LiveTypeOK
  <2>5. CASE TakeEvent
    <3>1. e \in Event
      BY <2>1, <2>3, <2>5, ArrivalTyped DEF TakeEvent
    <3>2. e.seq \in Nat
      BY <3>1 DEF Event
    <3>3. PICK noted : noted = client.seen \cup {e.seq}
      OBVIOUS
    <3>4. client' = client \/ client' = [client EXCEPT !.seen = noted, !.lastSeq = e.seq]
      BY <2>3, <2>5, <3>3 DEF TakeEvent, Noted
    <3>5. client' \in Client
      <4>1. noted \in SUBSET Nat
        BY <3>2, <3>3, ClientTyped
      <4>2. PICK x : x = client
        OBVIOUS
      <4>3. [x EXCEPT !.seen = noted, !.lastSeq = e.seq] \in Client
        BY <3>2, <4>1, <4>2, ClientTyped, ClientChanges
      <4>4. QED
        BY <3>4, <4>2, <4>3, ClientTyped
    <3>6. QED
      BY <2>2, <2>5, <3>5 DEF TakeEvent, LiveTypeOK, Client
  <2>6. QED
    BY <1>2, <2>4, <2>5
<1>3. QED
  BY <1>1, <1>2

LEMMA StreamTyped ==
    ASSUME LiveTypeOK,
           \/ BufferLapse \/ Resync \/ Disconnect
           \/ \E x \in Sockets : Connect(x) \/ OnClose(x)
    PROVE  LiveTypeOK'
<1>1. CASE BufferLapse
  <2>1. << >> \in Seq(Event) /\ Len(<< >>) <= BufferSize
    BY LiveConstants
  <2>2. QED
    BY <1>1, <2>1 DEF LiveTypeOK, BufferLapse, pubsub
<1>2. CASE Resync
  <2>1. PICK missed : missed = Missed(client.asked)
    OBVIOUS
  <2>2. missed \in SUBSET Nat
    BY <2>1, MissedTyped
  <2>3. PICK seen, first :
           /\ seen = client.seen \cup missed
           /\ first = IF client.first = 0 THEN client.asked + 1 ELSE client.first
    OBVIOUS
  <2>4. seen \in SUBSET Nat
    BY <2>2, <2>3, ClientTyped
  <2>5. first \in Nat
    BY <2>3, ClientTyped
  <2>6. counter + 1 \in Nat
    BY DEF LiveTypeOK
  <2>7. \/ client' = [client EXCEPT !.at = "up", !.first = counter + 1]
        \/ client' = [client EXCEPT !.at = "up", !.seen = seen, !.first = first]
    BY <1>2, <2>1, <2>3 DEF Resync
  <2>8. client' \in Client
    <3>1. PICK x : x = client
      OBVIOUS
    <3>2. [x EXCEPT !.at = "up", !.first = counter + 1] \in Client
      BY <2>4, <2>6, <3>1, ClientTyped, ClientChanges
    <3>3. [x EXCEPT !.at = "up", !.seen = seen, !.first = first] \in Client
      BY <2>4, <2>5, <3>1, ClientTyped, ClientChanges
    <3>4. QED
      BY <2>7, <3>1, <3>2, <3>3
  <2>9. QED
    BY <1>2, <2>8 DEF LiveTypeOK, Resync, pubsub, Client
<1>3. CASE Disconnect
  BY <1>3 DEF LiveTypeOK, Disconnect, pubsub
<1>4. ASSUME NEW x \in Sockets, Connect(x)
      PROVE  LiveTypeOK'
  <2>1. x \in Listeners
    BY DEF Listeners
  <2>2. client' \in [at : {"down", "opening", "up"}, socket : Sockets \cup {NoSocket},
                     asked : Nat, lastSeq : Nat, first : Nat, seen : SUBSET Nat]
    BY <1>4 DEF LiveTypeOK, Connect
  <2>3. QED
    BY <1>4, <2>1, <2>2, SubscribeTyped DEF LiveTypeOK, Connect
<1>5. ASSUME NEW x \in Sockets, OnClose(x)
      PROVE  LiveTypeOK'
  <2>1. x \in Listeners
    BY DEF Listeners
  <2>2. QED
    BY <1>5, <2>1, SubscribeTyped DEF LiveTypeOK, OnClose
<1>6. QED
  BY <1>1, <1>2, <1>3, <1>4, <1>5

LEMMA NextTyped ==
    ASSUME TypeOK, [Next]_vars
    PROVE  TypeOK'
<1>1. LiveTypeOK /\ StoreTypeOK
  BY DEF TypeOK, StoreTypeOK
<1>2. ASSUME UNCHANGED liveVars
      PROVE  LiveTypeOK'
  BY <1>1, <1>2 DEF LiveTypeOK, liveVars, pubsub
<1>3. ASSUME UNCHANGED storeVars
      PROVE  StoreTypeOK'
  BY <1>1, <1>3 DEF StoreTypeOK, storeVars, entries, register, search
<1>4. ASSUME NEW c \in Callers, CallStep(c)
      PROVE  LiveTypeOK'
  <2>1. CASE EmitNote(c)
    <3>1. calls[c].note.fullKey \in FullKeys
      BY <2>1, CallTyped DEF EmitNote, Note
    <3>2. QED
      BY <1>1, <2>1, <3>1, EmitTyped DEF EmitNote
  <2>2. QED
    BY <1>2, <1>4, <2>1
       DEF CallStep, AssertHas, AssertCount, Store, DeleteGet, DeleteStore, AppendAudit
<1>5. ASSUME NEW w \in Waiters, WaitStep(w)
      PROVE  LiveTypeOK'
  <2>1. w \in Listeners
    BY DEF Listeners
  <2>2. CASE WaitBegin(w) \/ WaitEnd(w)
    BY <1>1, <2>1, <2>2, SubscribeTyped DEF WaitBegin, WaitEnd, LiveTypeOK
  <2>3. QED
    BY <1>2, <1>5, <2>2 DEF WaitStep, WaitRead, WaitCheck, WaitWake
<1>6. CASE UNCHANGED vars
  BY <1>2, <1>3, <1>6 DEF vars, TypeOK, StoreTypeOK
<1>7. CASE Next
  <2>1. StoreTypeOK'
    BY <1>3, <1>7, CallStepTyped, WaitStepTyped, OtherStepTyped DEF Next
  <2>2. LiveTypeOK'
    BY <1>1, <1>2, <1>4, <1>5, <1>7, BroadcastTyped, ServerTyped, StreamTyped
       DEF Next, LiveStep, Begin, Die, Upsert, FailToIndex, HandleEvent
  <2>3. QED
    BY <2>1, <2>2 DEF TypeOK, StoreTypeOK
<1>8. QED
  BY <1>6, <1>7

(* Every variable of the store and of live events keeps its type.          *)
THEOREM StoreTypeCorrect == Spec => []TypeOK
<1>1. Init => TypeOK
  <2>1. Init => LiveTypeOK
    <3>1. << >> \in Seq(Event) /\ Len(<< >>) <= BufferSize
      BY LiveConstants
    <3>2. [at |-> "down", socket |-> NoSocket, asked |-> 0, lastSeq |-> 0, first |-> 0,
           seen |-> {}] \in Client
      BY DEF Client
    <3>3. [l \in Listeners |-> "new"] \in [Listeners -> {"new", "subscribing", "on", "off", "left"}]
      OBVIOUS
    <3>4. << >> \in Seq(Command) /\ << >> \in Seq(Event \cup Command)
      OBVIOUS
    <3>5. QED
      BY <3>1, <3>2, <3>3, <3>4 DEF Init, LiveInit, LiveTypeOK, Client
  <2>2. Init => StoreTypeOK
    BY StoreSettings DEF Init, StoreTypeOK, Storage!Init
  <2>3. QED
    BY <2>1, <2>2 DEF TypeOK, StoreTypeOK
<1>2. QED
  BY <1>1, NextTyped, PTL DEF Spec

-----------------------------------------------------------------------------
(* The subscription.  An UNSUBSCRIBE is sent only when no listener is left,*)
(* so that no SUBSCRIBE is on its way then: the connection carries at most *)
(* UNSUBSCRIBEs before SUBSCRIBEs.                                         *)

Asks(m)       == IsAnswer(m) /\ m.do = "subscribe"
IsWaiting(l)  == listening[l] \in {"subscribing", "left"}
HandlersOK    == \A l \in Listeners : l \in handlers <=> IsWaiting(l) \/ listening[l] = "on"
AskersWait    ==
    /\ \A i \in DOMAIN commands : Asks(commands[i]) => IsWaiting(commands[i].of)
    /\ \A i \in DOMAIN arriving : Asks(arriving[i]) => IsWaiting(arriving[i].of)
AskedOnce     ==
    /\ \A i, j \in DOMAIN commands :
          Asks(commands[i]) /\ Asks(commands[j]) /\ commands[i].of = commands[j].of => i = j
    /\ \A i, j \in DOMAIN arriving :
          Asks(arriving[i]) /\ Asks(arriving[j]) /\ arriving[i].of = arriving[j].of => i = j
    /\ \A i \in DOMAIN commands, j \in DOMAIN arriving :
          ~(Asks(commands[i]) /\ Asks(arriving[j]) /\ commands[i].of = arriving[j].of)
OnlyAsks      == \A i \in DOMAIN commands : Asks(commands[i])
AsksAreLast   ==
    \A i, j \in DOMAIN commands : i < j /\ Asks(commands[i]) => Asks(commands[j])
InUse         ==
    \/ channelTaken
    \/ \E l \in Listeners : listening[l] = "on"
    \/ \E i \in DOMAIN arriving : Asks(arriving[i])
ServedOK      == InUse => subscribed /\ OnlyAsks
PubsubOK      == HandlersOK /\ AskersWait /\ AskedOnce /\ AsksAreLast /\ ServedOK

LEMMA CommandTyped ==
    ASSUME LiveTypeOK
    PROVE  /\ \A i \in DOMAIN commands :
                 /\ commands[i] \in Command /\ commands[i].of \in Listeners
                 /\ IsAnswer(commands[i])
           /\ \A i \in DOMAIN arriving : IsAnswer(arriving[i]) => arriving[i].of \in Listeners
           /\ commands \in Seq(Command) /\ arriving \in Seq(Event \cup Command)
<1>1. commands \in Seq(Command) /\ arriving \in Seq(Event \cup Command)
  BY DEF LiveTypeOK
<1>2. \A i \in DOMAIN commands : commands[i] \in Command
  BY <1>1
<1>3. \A c \in Command : c.of \in Listeners
  BY DEF Command
<1>4. QED
  BY <1>1, <1>2, <1>3 DEF IsAnswer

LEMMA SubscribePubsub ==
    ASSUME LiveTypeOK, PubsubOK, NEW l \in Listeners, Subscribe(l)
    PROVE  PubsubOK'
<1>1. l \notin handlers /\ ~IsWaiting(l) /\ listening[l] = "new"
  BY DEF Subscribe, PubsubOK, HandlersOK, IsWaiting
<1>2. arriving' = arriving /\ subscribed' = subscribed /\ channelTaken' = channelTaken
      /\ handlers' = handlers \cup {l}
  BY DEF Subscribe
<1>3. CASE channelTaken
  <2>1. commands' = commands /\ listening' = [listening EXCEPT ![l] = "on"]
    BY <1>3 DEF Subscribe
  <2>2. \A x \in Listeners : listening'[x] = IF x = l THEN "on" ELSE listening[x]
    BY <2>1 DEF LiveTypeOK
  <2>3. \A x \in Listeners : IsWaiting(x) => IsWaiting(x)'
    BY <1>1, <2>2 DEF IsWaiting
  <2>4. HandlersOK'
    BY <1>2, <2>2 DEF PubsubOK, HandlersOK, IsWaiting
  <2>5. AskersWait'
    BY <1>2, <2>1, <2>3, CommandTyped DEF PubsubOK, AskersWait, Asks
  <2>6. ServedOK'
    BY <1>2, <1>3, <2>1 DEF PubsubOK, ServedOK, InUse, OnlyAsks
  <2>7. QED
    BY <1>2, <2>1, <2>4, <2>5, <2>6 DEF PubsubOK, AskedOnce, AsksAreLast
<1>4. CASE ~channelTaken
  <2>1. PICK s : s = [do |-> "subscribe", of |-> l]
    OBVIOUS
  <2>2. commands' = Append(commands, s) /\ listening' = [listening EXCEPT ![l] = "subscribing"]
    BY <1>4, <2>1 DEF Subscribe
  <2>3. s \in Command /\ Asks(s) /\ s.of = l
    BY <2>1 DEF Command, Asks, IsAnswer
  <2>4. PICK n : n = Len(commands) + 1
    OBVIOUS
  <2>5. /\ n \in Nat \ {0} /\ DOMAIN commands = 1 .. n - 1 /\ DOMAIN commands' = 1 .. n
        /\ \A i \in 1 .. n - 1 : commands'[i] = commands[i]
        /\ commands'[n] = s
    <3>1. commands \in Seq(Command)
      BY CommandTyped
    <3>2. QED
      BY <2>2, <2>3, <2>4, <3>1, AppendAt
  <2>6. \A x \in Listeners : listening'[x] = IF x = l THEN "subscribing" ELSE listening[x]
    BY <2>2 DEF LiveTypeOK
  <2>7. \A x \in Listeners : IsWaiting(x)' <=> IsWaiting(x) \/ x = l
    BY <2>6 DEF IsWaiting
  <2>8. \A i \in DOMAIN commands' :
           (i \in DOMAIN commands /\ commands'[i] = commands[i]) \/ (i = n /\ commands'[i] = s)
    <3>1. \A i \in 1 .. n : i \in 1 .. n - 1 \/ i = n
      BY <2>5
    <3>2. \A i \in DOMAIN commands' : i \in 1 .. n
      BY <2>5
    <3>3. \A i \in 1 .. n - 1 : i \in DOMAIN commands
      BY <2>5
    <3>4. QED
      BY <2>5, <3>1, <3>2, <3>3
  <2>9. /\ \A i \in DOMAIN commands : Asks(commands[i]) => commands[i].of # l
        /\ \A i \in DOMAIN arriving : Asks(arriving[i]) => arriving[i].of # l
    BY <1>1 DEF PubsubOK, AskersWait
  <2>10. HandlersOK'
    BY <1>2, <2>6, <2>7 DEF PubsubOK, HandlersOK
  <2>11. AskersWait'
    <3>1. \A i \in DOMAIN commands' : Asks(commands'[i]) =>
             listening'[commands'[i].of] \in {"subscribing", "left"}
      BY <2>3, <2>6, <2>8, CommandTyped DEF PubsubOK, AskersWait, IsWaiting
    <3>2. \A i \in DOMAIN arriving' : Asks(arriving'[i]) =>
             listening'[arriving'[i].of] \in {"subscribing", "left"}
      BY <1>2, <2>6, CommandTyped DEF PubsubOK, AskersWait, IsWaiting, Asks
    <3>3. QED
      BY <3>1, <3>2 DEF AskersWait, IsWaiting
  <2>12. AskedOnce'
    BY <1>2, <2>3, <2>8, <2>9 DEF PubsubOK, AskedOnce
  <2>13. AsksAreLast'
    <3>1. \A i \in DOMAIN commands : ~(n < i)
      BY <2>5
    <3>2. QED
      BY <2>3, <2>8, <3>1 DEF PubsubOK, AsksAreLast
  <2>14. ServedOK'
    <3>1. \A x \in Listeners : listening'[x] = "on" => listening[x] = "on"
      BY <2>6
    <3>2. OnlyAsks => OnlyAsks'
      BY <2>3, <2>8 DEF OnlyAsks
    <3>3. QED
      BY <1>2, <3>1, <3>2 DEF PubsubOK, ServedOK, InUse
  <2>15. QED
    BY <2>10, <2>11, <2>12, <2>13, <2>14 DEF PubsubOK
<1>5. QED
  BY <1>3, <1>4

LEMMA UnsubscribePubsub ==
    ASSUME LiveTypeOK, PubsubOK, NEW l \in Listeners, Unsubscribe(l)
    PROVE  PubsubOK'
<1>1. listening[l] = "on" /\ listening' = [listening EXCEPT ![l] = "off"]
      /\ handlers' = handlers \ {l} /\ subscribed' = subscribed /\ arriving' = arriving
  BY DEF Unsubscribe
<1>2. \A x \in Listeners : listening'[x] = IF x = l THEN "off" ELSE listening[x]
  BY <1>1 DEF LiveTypeOK
<1>3. \A x \in Listeners : IsWaiting(x)' <=> IsWaiting(x)
  BY <1>1, <1>2 DEF IsWaiting
<1>4. HandlersOK'
  BY <1>1, <1>2 DEF PubsubOK, HandlersOK, IsWaiting
<1>5. CASE handlers' # {}
  <2>1. UNCHANGED <<channelTaken, commands>>
    BY <1>5 DEF Unsubscribe
  <2>2. AskersWait'
    BY <1>1, <1>3, <2>1, CommandTyped DEF PubsubOK, AskersWait, Asks
  <2>3. ServedOK'
    BY <1>1, <1>2, <2>1 DEF PubsubOK, ServedOK, InUse, OnlyAsks
  <2>4. QED
    BY <1>1, <1>4, <2>1, <2>2, <2>3 DEF PubsubOK, AskedOnce, AsksAreLast
<1>6. CASE handlers' = {}
  <2>1. PICK u : u = [do |-> "unsubscribe", of |-> l]
    OBVIOUS
  <2>2. commands' = Append(commands, u) /\ channelTaken' = FALSE
    BY <1>6, <2>1 DEF Unsubscribe
  <2>3. u \in Command /\ ~Asks(u)
    BY <2>1 DEF Command, Asks
  <2>4. \A x \in Listeners : ~IsWaiting(x) /\ listening'[x] # "on"
    BY <1>3, <1>4, <1>6 DEF HandlersOK
  <2>5. /\ \A i \in DOMAIN commands : ~Asks(commands[i])
        /\ \A i \in DOMAIN arriving : ~Asks(arriving[i])
    BY <2>4, CommandTyped DEF PubsubOK, AskersWait, Asks
  <2>6. \A i \in DOMAIN commands' : ~Asks(commands'[i])
    <3>1. commands \in Seq(Command)
      BY CommandTyped
    <3>2. PICK n : n = Len(commands) + 1
      OBVIOUS
    <3>3. /\ DOMAIN commands = 1 .. n - 1 /\ DOMAIN commands' = 1 .. n /\ n \in Nat
          /\ \A i \in 1 .. n - 1 : commands'[i] = commands[i]
          /\ commands'[n] = u
      BY <2>2, <2>3, <3>1, <3>2, AppendAt
    <3>4. \A i \in 1 .. n : i \in 1 .. n - 1 \/ i = n
      BY <3>3
    <3>5. QED
      BY <2>3, <2>5, <3>3, <3>4
  <2>7. AskersWait' /\ AskedOnce' /\ AsksAreLast'
    BY <1>1, <2>5, <2>6 DEF AskersWait, AskedOnce, AsksAreLast
  <2>8. ServedOK'
    BY <1>1, <2>2, <2>4, <2>5 DEF ServedOK, InUse
  <2>9. QED
    BY <1>4, <2>7, <2>8 DEF PubsubOK
<1>7. QED
  BY <1>5, <1>6

LEMMA ExecutePubsub ==
    ASSUME LiveTypeOK, PubsubOK, Execute
    PROVE  PubsubOK'
<1>1. PICK m : m = Head(commands)
  OBVIOUS
<1>2. PICK n, k : n = Len(commands) /\ k = Len(arriving) + 1
  OBVIOUS
<1>3. /\ commands \in Seq(Command) /\ arriving \in Seq(Event \cup Command) /\ commands # << >>
      /\ commands' = Tail(commands) /\ arriving' = Append(arriving, m)
      /\ subscribed' = (m.do = "subscribe")
      /\ UNCHANGED <<handlers, channelTaken, listening>>
  BY <1>1, CommandTyped DEF Execute
<1>4. /\ n \in Nat \ {0} /\ DOMAIN commands = 1 .. n /\ DOMAIN commands' = 1 .. n - 1
      /\ \A i \in 1 .. n - 1 : commands'[i] = commands[i + 1]
      /\ m = commands[1] /\ m \in Command
  BY <1>1, <1>2, <1>3, TailAt
<1>5. /\ k \in Nat \ {0} /\ DOMAIN arriving = 1 .. k - 1 /\ DOMAIN arriving' = 1 .. k
      /\ \A i \in 1 .. k - 1 : arriving'[i] = arriving[i]
      /\ arriving'[k] = m
  BY <1>2, <1>3, <1>4, AppendAt
<1>6. \A i \in DOMAIN arriving' :
         (i \in DOMAIN arriving /\ arriving'[i] = arriving[i]) \/ (i = k /\ arriving'[i] = m)
  <2>1. \A i \in 1 .. k : i \in 1 .. k - 1 \/ i = k
    BY <1>5
  <2>2. QED
    BY <1>5, <2>1
<1>7. \A i \in DOMAIN commands' :
         /\ i + 1 \in DOMAIN commands /\ commands'[i] = commands[i + 1] /\ i + 1 # 1
         /\ i \in Nat
  BY <1>4
<1>8. 1 \in DOMAIN commands
  BY <1>4
<1>9. AskersWait'
  BY <1>3, <1>4, <1>6, <1>7, <1>8 DEF PubsubOK, AskersWait, IsWaiting
<1>10. AskedOnce'
  <2>1. \A i, j \in DOMAIN commands' :
           Asks(commands'[i]) /\ Asks(commands'[j]) /\ commands'[i].of = commands'[j].of => i = j
    <3>1. \A i, j \in DOMAIN commands' : i + 1 = j + 1 => i = j
      BY <1>7
    <3>2. QED
      BY <1>7, <3>1 DEF PubsubOK, AskedOnce
  <2>2. \A i, j \in DOMAIN arriving' :
           Asks(arriving'[i]) /\ Asks(arriving'[j]) /\ arriving'[i].of = arriving'[j].of => i = j
    BY <1>4, <1>6, <1>8 DEF PubsubOK, AskedOnce
  <2>3. \A i \in DOMAIN commands', j \in DOMAIN arriving' :
           ~(Asks(commands'[i]) /\ Asks(arriving'[j]) /\ commands'[i].of = arriving'[j].of)
    BY <1>4, <1>6, <1>7, <1>8 DEF PubsubOK, AskedOnce
  <2>4. QED
    BY <2>1, <2>2, <2>3 DEF AskedOnce
<1>11. AsksAreLast'
  <2>1. \A i, j \in DOMAIN commands' : i < j => i + 1 < j + 1
    BY <1>7
  <2>2. QED
    BY <1>7, <2>1 DEF PubsubOK, AsksAreLast
<1>12. ServedOK'
  <2>1. CASE Asks(m)
    <3>1. \A i \in DOMAIN commands' : 1 < i + 1
      BY <1>7
    <3>2. \A i \in DOMAIN commands' : Asks(commands'[i])
      BY <1>4, <1>7, <1>8, <2>1, <3>1 DEF PubsubOK, AsksAreLast
    <3>3. QED
      BY <1>3, <2>1, <3>2 DEF ServedOK, OnlyAsks, Asks
  <2>2. CASE ~Asks(m)
    <3>1. ~InUse
      BY <1>4, <1>8, <2>2 DEF PubsubOK, ServedOK, OnlyAsks
    <3>2. ~InUse'
      BY <1>3, <1>6, <2>2, <3>1 DEF InUse
    <3>3. QED
      BY <3>2 DEF ServedOK
  <2>3. QED
    BY <2>1, <2>2
<1>13. HandlersOK'
  BY <1>3 DEF PubsubOK, HandlersOK, IsWaiting
<1>14. QED
  BY <1>9, <1>10, <1>11, <1>12, <1>13 DEF PubsubOK

(* What the server takes off the connection.                               *)
LEMMA TakenAt ==
    ASSUME LiveTypeOK, arriving # << >>, arriving' = Tail(arriving)
    PROVE  /\ 1 \in DOMAIN arriving /\ Head(arriving) = arriving[1]
           /\ \A i \in DOMAIN arriving' :
                 /\ i + 1 \in DOMAIN arriving /\ arriving'[i] = arriving[i + 1] /\ i + 1 # 1
                 /\ i \in Nat \ {0}
<1>1. PICK n : n = Len(arriving)
  OBVIOUS
<1>2. /\ n \in Nat \ {0} /\ DOMAIN arriving = 1 .. n /\ DOMAIN arriving' = 1 .. n - 1
      /\ \A i \in 1 .. n - 1 : arriving'[i] = arriving[i + 1]
      /\ Head(arriving) = arriving[1]
  BY <1>1, CommandTyped, TailAt
<1>3. QED
  BY <1>2

LEMMA TakePubsub ==
    ASSUME LiveTypeOK, PubsubOK, TakeAnswer \/ TakeEvent
    PROVE  PubsubOK'
<1>1. PICK m : m = arriving[1]
  OBVIOUS
<1>2. /\ arriving # << >> /\ arriving' = Tail(arriving)
      /\ UNCHANGED <<handlers, commands, subscribed>>
  BY DEF TakeAnswer, TakeEvent
<1>3. /\ 1 \in DOMAIN arriving /\ Head(arriving) = m
      /\ \A i \in DOMAIN arriving' :
            /\ i + 1 \in DOMAIN arriving /\ arriving'[i] = arriving[i + 1] /\ i + 1 # 1
            /\ i \in Nat \ {0}
  BY <1>1, <1>2, TakenAt
<1>4. AskedOnce'
  <2>1. \A i, j \in DOMAIN arriving' : i + 1 = j + 1 => i = j
    BY <1>3
  <2>2. QED
    BY <1>2, <1>3, <2>1 DEF PubsubOK, AskedOnce
<1>5. AsksAreLast' /\ (OnlyAsks' <=> OnlyAsks)
  BY <1>2 DEF PubsubOK, AsksAreLast, OnlyAsks
<1>6. CASE UNCHANGED <<channelTaken, listening>>
  <2>1. HandlersOK' /\ AskersWait'
    BY <1>2, <1>3, <1>6 DEF PubsubOK, HandlersOK, AskersWait, IsWaiting
  <2>2. InUse' => InUse
    BY <1>3, <1>6 DEF InUse
  <2>3. QED
    BY <1>2, <1>4, <1>5, <2>1, <2>2 DEF PubsubOK, ServedOK
<1>7. CASE /\ TakeAnswer /\ m.do = "subscribe" /\ channelTaken' = TRUE
           /\ listening' = [listening EXCEPT ![m.of] =
                               IF listening[m.of] = "subscribing" THEN "on" ELSE listening[m.of]]
  <2>1. Asks(m) /\ m.of \in Listeners
    BY <1>1, <1>3, <1>7, CommandTyped DEF TakeAnswer, Asks
  <2>2. \A x \in Listeners : listening'[x] =
           IF x = m.of /\ listening[x] = "subscribing" THEN "on" ELSE listening[x]
    BY <1>7, <2>1 DEF LiveTypeOK
  <2>3. HandlersOK'
    BY <1>2, <2>2 DEF PubsubOK, HandlersOK, IsWaiting
  <2>4. \A i \in DOMAIN commands : Asks(commands[i]) => commands[i].of # m.of
    BY <1>1, <1>3, <2>1 DEF PubsubOK, AskedOnce
  <2>5. \A i \in DOMAIN arriving' : Asks(arriving'[i]) => arriving'[i].of # m.of
    BY <1>1, <1>3, <2>1 DEF PubsubOK, AskedOnce
  <2>6. AskersWait'
    <3>1. \A i \in DOMAIN commands : Asks(commands[i]) =>
             listening'[commands[i].of] \in {"subscribing", "left"}
      BY <2>2, <2>4, CommandTyped DEF PubsubOK, AskersWait, IsWaiting
    <3>2. \A i \in DOMAIN arriving' : Asks(arriving'[i]) =>
             listening'[arriving'[i].of] \in {"subscribing", "left"}
      BY <1>3, <2>2, <2>5, CommandTyped DEF PubsubOK, AskersWait, IsWaiting, Asks
    <3>3. QED
      BY <1>2, <3>1, <3>2 DEF AskersWait, IsWaiting
  <2>7. ServedOK'
    BY <1>1, <1>2, <1>3, <1>5, <2>1 DEF PubsubOK, ServedOK, InUse
  <2>8. QED
    BY <1>4, <1>5, <2>3, <2>6, <2>7 DEF PubsubOK
<1>8. QED
  BY <1>3, <1>6, <1>7 DEF TakeAnswer, TakeEvent

LEMMA PublishPubsub ==
    ASSUME LiveTypeOK, PubsubOK, NEW b \in broadcasts, Publish(b)
    PROVE  PubsubOK'
<1>1. UNCHANGED <<handlers, channelTaken, commands, subscribed, listening>>
  BY DEF Publish
<1>2. b.event \in Event /\ ~Asks(b.event)
  BY EventsAreNoAnswers DEF LiveTypeOK, Broadcast, Asks
<1>3. CASE arriving' = arriving
  BY <1>1, <1>3 DEF PubsubOK, HandlersOK, AskersWait, IsWaiting, AskedOnce, AsksAreLast,
                    ServedOK, InUse, OnlyAsks
<1>4. CASE arriving' = Append(arriving, b.event)
  <2>1. PICK k : k = Len(arriving) + 1
    OBVIOUS
  <2>2. arriving \in Seq(Event \cup Command) /\ b.event \in Event \cup Command
    BY <1>2, CommandTyped
  <2>3. /\ k \in Nat \ {0} /\ DOMAIN arriving = 1 .. k - 1 /\ DOMAIN arriving' = 1 .. k
        /\ \A i \in 1 .. k - 1 : arriving'[i] = arriving[i]
        /\ arriving'[k] = b.event
    BY <1>4, <2>1, <2>2, AppendAt
  <2>4. \A i \in 1 .. k : i \in 1 .. k - 1 \/ i = k
    BY <2>3
  <2>5. \A i \in DOMAIN arriving' :
           Asks(arriving'[i]) => i \in DOMAIN arriving /\ arriving'[i] = arriving[i]
    BY <1>2, <2>3, <2>4
  <2>6. AskersWait' /\ AskedOnce'
    BY <1>1, <2>5 DEF PubsubOK, AskersWait, IsWaiting, AskedOnce
  <2>7. InUse' => InUse
    BY <1>1, <2>5 DEF InUse
  <2>8. QED
    BY <1>1, <2>6, <2>7 DEF PubsubOK, HandlersOK, IsWaiting, AsksAreLast, ServedOK, OnlyAsks
<1>5. QED
  BY <1>3, <1>4 DEF Publish

LEMMA LeavePubsub ==
    ASSUME LiveTypeOK, PubsubOK, NEW x \in Listeners, listening[x] = "subscribing",
           listening' = [listening EXCEPT ![x] = "left"],
           UNCHANGED <<handlers, channelTaken, commands, subscribed, arriving>>
    PROVE  PubsubOK'
<1>1. \A l \in Listeners : listening'[l] = IF l = x THEN "left" ELSE listening[l]
  BY DEF LiveTypeOK
<1>2. \A l \in Listeners : (IsWaiting(l)' <=> IsWaiting(l)) /\ (listening'[l] = "on" <=> listening[l] = "on")
  BY <1>1 DEF IsWaiting
<1>3. HandlersOK'
  BY <1>2 DEF PubsubOK, HandlersOK
<1>4. AskersWait'
  BY <1>2, CommandTyped DEF PubsubOK, AskersWait, Asks
<1>5. ServedOK'
  BY <1>2 DEF PubsubOK, ServedOK, InUse, OnlyAsks
<1>6. QED
  BY <1>3, <1>4, <1>5 DEF PubsubOK, AskedOnce, AsksAreLast

LEMMA PubsubStays ==
    ASSUME PubsubOK, UNCHANGED pubsub
    PROVE  PubsubOK'
BY DEF pubsub, PubsubOK, HandlersOK, AskersWait, IsWaiting, AskedOnce, AsksAreLast,
       ServedOK, InUse, OnlyAsks

LEMMA PubsubKeeps ==
    ASSUME TypeOK, PubsubOK, [Next]_vars
    PROVE  PubsubOK'
<1>1. LiveTypeOK
  BY DEF TypeOK
<1>2. CASE UNCHANGED vars
  BY <1>2, PubsubStays DEF vars, liveVars
<1>3. CASE Next
  <2>1. ASSUME UNCHANGED liveVars
        PROVE  PubsubOK'
    BY <2>1, PubsubStays DEF liveVars
  <2>2. ASSUME NEW c \in Callers, CallStep(c)
        PROVE  PubsubOK'
    BY <2>1, <2>2, PubsubStays
       DEF CallStep, AssertHas, AssertCount, Store, DeleteGet, DeleteStore, AppendAudit,
           EmitNote, Emit
  <2>3. ASSUME NEW w \in Waiters, WaitStep(w)
        PROVE  PubsubOK'
    <3>1. w \in Listeners
      BY DEF Listeners
    <3>2. QED
      BY <1>1, <2>1, <2>3, <3>1, SubscribePubsub, UnsubscribePubsub
         DEF WaitStep, WaitBegin, WaitRead, WaitCheck, WaitWake, WaitEnd
  <2>4. CASE LiveStep
    <3>1. ASSUME NEW b \in broadcasts, Record(b) \/ Publish(b) \/ Lose(b)
          PROVE  PubsubOK'
      BY <1>1, <3>1, PublishPubsub, PubsubStays DEF Record, Lose
    <3>2. ASSUME NEW x \in Sockets, Connect(x) \/ OnClose(x)
          PROVE  PubsubOK'
      <4>1. x \in Listeners
        BY DEF Listeners
      <4>2. QED
        BY <1>1, <3>2, <4>1, SubscribePubsub, UnsubscribePubsub, LeavePubsub DEF Connect, OnClose
    <3>3. CASE BufferLapse \/ Resync \/ Disconnect
      BY <3>3, PubsubStays DEF BufferLapse, Resync, Disconnect
    <3>4. QED
      BY <1>1, <2>4, <3>1, <3>2, <3>3, ExecutePubsub, TakePubsub DEF LiveStep
  <2>5. QED
    BY <1>1, <1>3, <2>1, <2>2, <2>3, <2>4, TakePubsub
       DEF Next, Begin, Die, Upsert, FailToIndex, HandleEvent
<1>4. QED
  BY <1>2, <1>3

LEMMA PubsubHolds == Spec => []PubsubOK
<1>1. Init => PubsubOK
  BY DEF Init, LiveInit, PubsubOK, HandlersOK, AskersWait, IsWaiting, AskedOnce, AsksAreLast,
         ServedOK, InUse, OnlyAsks
<1>2. QED
  BY <1>1, PubsubKeeps, StoreTypeCorrect, PTL DEF Spec

(* A listener is served from the return of its subscribe until it          *)
(* unsubscribes, however other listeners of the session come and go, and   *)
(* answers and events interleave on the connection.                        *)
THEOREM EveryListenerIsServed == Spec => []ListenersAreServed
<1>1. PubsubOK => ListenersAreServed
  BY DEF PubsubOK, HandlersOK, ServedOK, InUse, ListenersAreServed
<1>2. QED
  BY <1>1, PubsubHolds, PTL

-----------------------------------------------------------------------------
(* Gaps of the stream.  As long as nothing disturbs them, events are       *)
(* buffered and arrive in order, and of what a client is owed all that it  *)
(* has not seen is on its way or in the buffer.                            *)

IsEvent(m)  == ~IsAnswer(m)
OnTheWay(n) ==
    \/ \E i \in DOMAIN arriving : IsEvent(arriving[i]) /\ arriving[i].seq = n
    \/ \E b \in broadcasts : b.event.seq = n

OneBroadcast ==
    /\ \A b, d \in broadcasts : b = d
    /\ \A b \in broadcasts : b.event.seq = counter

Recorded == IF \E b \in broadcasts : b.at = "buffer" THEN counter - 1 ELSE counter
BufferOK ==
    /\ \A i \in DOMAIN buffer : buffer[i].seq = Recorded - Len(buffer) + i
    /\ buffer = << >> => Recorded = 0

ArrivingOK ==
    /\ \A i, j \in DOMAIN arriving :
          i < j /\ IsEvent(arriving[i]) /\ IsEvent(arriving[j])
              => arriving[i].seq < arriving[j].seq
    /\ \A i \in DOMAIN arriving : IsEvent(arriving[i]) =>
          /\ client.lastSeq < arriving[i].seq /\ arriving[i].seq <= counter
          /\ \A b \in broadcasts : arriving[i].seq < b.event.seq

NotedOK ==
    /\ client.asked <= client.lastSeq /\ client.lastSeq <= counter
    /\ \A b \in broadcasts : client.lastSeq < b.event.seq

SeenOK ==
    /\ client.at = "down" /\ client.first > 0 =>
          \A n \in client.first .. client.lastSeq : n \in client.seen
    /\ client.at = "opening" /\ client.first > 0 =>
          \A n \in client.first .. client.asked : n \in client.seen
    /\ client.at = "up" =>
          /\ client.first > 0
          /\ \A n \in client.first .. counter : n \in client.seen \/ OnTheWay(n)

OrderOK == OneBroadcast /\ BufferOK /\ ArrivingOK /\ NotedOK /\ SeenOK

SocketOK ==
    /\ client.at = "down" => client.socket = NoSocket
    /\ client.at # "down" => client.socket \in Sockets
    /\ client.at = "up" => listening[client.socket] = "on"

LEMMA EventNumbers ==
    ASSUME LiveTypeOK
    PROVE  /\ \A b \in broadcasts : b.event \in Event /\ b.event.seq \in Nat \ {0}
           /\ \A i \in DOMAIN arriving : IsEvent(arriving[i]) => arriving[i].seq \in Nat \ {0}
           /\ \A i \in DOMAIN buffer : buffer[i].seq \in Nat \ {0}
           /\ counter \in Nat
<1>1. \A e \in Event : e.seq \in Nat \ {0}
  BY DEF Event
<1>2. \A b \in broadcasts : b.event \in Event
  BY DEF LiveTypeOK, Broadcast
<1>3. \A i \in DOMAIN arriving : IsEvent(arriving[i]) => arriving[i] \in Event
  BY DEF LiveTypeOK, IsEvent, IsAnswer
<1>4. \A i \in DOMAIN buffer : buffer[i] \in Event
  BY DEF LiveTypeOK
<1>5. QED
  BY <1>1, <1>2, <1>3, <1>4 DEF LiveTypeOK

LEMMA GrownAt ==
    ASSUME LiveTypeOK, NEW m \in Event \cup Command, arriving' = Append(arriving, m),
           NEW k, k = Len(arriving) + 1
    PROVE  /\ k \in Nat \ {0} /\ k \in DOMAIN arriving' /\ arriving'[k] = m
           /\ \A i \in DOMAIN arriving :
                 i \in DOMAIN arriving' /\ arriving'[i] = arriving[i] /\ i \in Nat /\ i < k
           /\ \A i \in DOMAIN arriving' : i \in DOMAIN arriving \/ i = k
<1>1. arriving \in Seq(Event \cup Command)
  BY DEF LiveTypeOK
<1>2. /\ k \in Nat \ {0} /\ DOMAIN arriving = 1 .. k - 1 /\ DOMAIN arriving' = 1 .. k
      /\ \A i \in 1 .. k - 1 : arriving'[i] = arriving[i]
      /\ arriving'[k] = m
  BY <1>1, AppendAt
<1>3. \A i \in 1 .. k : i \in 1 .. k - 1 \/ i = k
  BY <1>2
<1>4. QED
  BY <1>2, <1>3

LEMMA ShiftedAt ==
    ASSUME LiveTypeOK, arriving # << >>, arriving' = Tail(arriving)
    PROVE  \A i \in DOMAIN arriving : i # 1 =>
              \E j \in DOMAIN arriving' : arriving'[j] = arriving[i]
<1>1. PICK n : n = Len(arriving)
  OBVIOUS
<1>2. /\ n \in Nat \ {0} /\ DOMAIN arriving = 1 .. n /\ DOMAIN arriving' = 1 .. n - 1
      /\ \A i \in 1 .. n - 1 : arriving'[i] = arriving[i + 1]
  BY <1>1, CommandTyped, TailAt
<1>3. \A i \in 1 .. n : i # 1 => i - 1 \in 1 .. n - 1 /\ i - 1 + 1 = i
  BY <1>2
<1>4. QED
  BY <1>2, <1>3

LEMMA EmitOrder ==
    ASSUME LiveTypeOK, OrderOK, NEW k \in FullKeys, Emit(k), broadcasts = {}
    PROVE  OrderOK'
<1>1. PICK b : b = [at |-> "buffer", event |-> [fullKey |-> k, seq |-> counter + 1]]
  OBVIOUS
<1>2. /\ b.at = "buffer" /\ b.event.seq = counter + 1 /\ broadcasts' = {b}
      /\ counter' = counter + 1 /\ counter \in Nat
      /\ UNCHANGED <<buffer, arriving, client>>
  BY <1>1 DEF Emit, pubsub, LiveTypeOK
<1>3. OneBroadcast'
  BY <1>2 DEF OneBroadcast
<1>4. BufferOK'
  <2>1. Recorded' = Recorded
    BY <1>2 DEF Recorded
  <2>2. QED
    BY <1>2, <2>1 DEF OrderOK, BufferOK
<1>5. ArrivingOK'
  BY <1>2, EventNumbers, ClientTyped DEF OrderOK, ArrivingOK
<1>6. NotedOK'
  BY <1>2, ClientTyped DEF OrderOK, NotedOK
<1>7. SeenOK'
  <2>1. PICK c : c = counter
    OBVIOUS
  <2>2. \A n \in client.first .. c + 1 : n \in client.first .. c \/ n = c + 1
    BY <1>2, <2>1, ClientTyped
  <2>3. OnTheWay(c + 1)'
    BY <1>2, <2>1 DEF OnTheWay
  <2>4. \A n : OnTheWay(n) => OnTheWay(n)'
    BY <1>2 DEF OnTheWay
  <2>5. QED
    BY <1>2, <2>1, <2>2, <2>3, <2>4 DEF OrderOK, SeenOK
<1>8. QED
  BY <1>3, <1>4, <1>5, <1>6, <1>7 DEF OrderOK

LEMMA RecordOrder ==
    ASSUME LiveTypeOK, OrderOK, NEW b \in broadcasts, Record(b)
    PROVE  OrderOK'
<1>1. PICK d : d = [b EXCEPT !.at = "publish"]
  OBVIOUS
<1>2. d.at = "publish" /\ d.event = b.event
  BY <1>1 DEF LiveTypeOK, Broadcast
<1>3. /\ broadcasts = {b} /\ broadcasts' = {d} /\ b.at = "buffer"
      /\ UNCHANGED <<counter, arriving, client>>
  BY <1>1 DEF Record, OrderOK, OneBroadcast, pubsub
<1>4. OneBroadcast'
  BY <1>2, <1>3 DEF OrderOK, OneBroadcast
<1>5. BufferOK'
  <2>1. PICK s, n, c : s = Append(buffer, b.event) /\ n = Len(buffer) /\ c = counter
    OBVIOUS
  <2>2. buffer \in Seq(Event) /\ b.event \in Event /\ n \in Nat /\ c \in Nat
    BY <2>1, EventNumbers DEF LiveTypeOK
  <2>3. /\ s \in Seq(Event) /\ Len(s) = n + 1 /\ DOMAIN buffer = 1 .. n
        /\ \A i \in 1 .. n : s[i] = buffer[i]
        /\ s[n + 1] = b.event
    BY <2>1, <2>2, AppendAt
  <2>4. \A i \in 1 .. n : buffer[i].seq = c - 1 - n + i
    BY <1>3, <2>1, <2>3 DEF OrderOK, BufferOK, Recorded
  <2>5. b.event.seq = c
    BY <2>1 DEF OrderOK, OneBroadcast
  <2>6. \A i \in 1 .. n + 1 : s[i].seq = c - (n + 1) + i
    <3>1. \A i \in 1 .. n + 1 : i \in 1 .. n \/ i = n + 1
      BY <2>2
    <3>2. \A i \in 1 .. n : c - 1 - n + i = c - (n + 1) + i
      BY <2>2
    <3>3. c - (n + 1) + (n + 1) = c
      BY <2>2
    <3>4. QED
      BY <2>3, <2>4, <2>5, <3>1, <3>2, <3>3
  <2>7. PICK l : l = Len(buffer')
    OBVIOUS
  <2>8. /\ l \in Nat \ {0} /\ DOMAIN buffer' = 1 .. l
        /\ \A i \in 1 .. l : buffer'[i] = s[n + 1 - l + i] /\ n + 1 - l + i \in 1 .. n + 1
    <3>1. buffer' = Last(s, BufferSize) /\ BufferSize \in Nat \ {0}
      BY <2>1, LiveConstants DEF Record
    <3>2. Len(s) > 0
      BY <2>2, <2>3
    <3>3. PICK t : t = buffer'
      OBVIOUS
    <3>4. /\ DOMAIN t = 1 .. Len(t) /\ Len(t) \in Nat /\ Len(t) > 0
          /\ \A i \in 1 .. Len(t) :
                t[i] = s[Len(s) - Len(t) + i] /\ Len(s) - Len(t) + i \in 1 .. Len(s)
      BY <2>3, <3>1, <3>2, <3>3, LastAt, SMTT(30)
    <3>5. l = Len(t)
      BY <2>7, <3>3
    <3>6. /\ DOMAIN t = 1 .. l /\ l \in Nat /\ l > 0
          /\ \A i \in 1 .. l : t[i] = s[n + 1 - l + i] /\ n + 1 - l + i \in 1 .. n + 1
      <4>1. Len(s) = n + 1
        BY <2>3
      <4>2. DOMAIN t = 1 .. l /\ l \in Nat /\ l > 0
        BY <3>4, <3>5
      <4>3. QED
        BY <2>2, <3>4, <3>5, <4>1, <4>2
    <3>7. l \in Nat \ {0}
      BY <3>6
    <3>8. QED
      BY <3>3, <3>6, <3>7
  <2>9. \A i \in 1 .. l : c - (n + 1) + (n + 1 - l + i) = c - l + i
    BY <2>2, <2>8
  <2>10. \A i \in 1 .. l : buffer'[i].seq = c - l + i
    BY <2>6, <2>8, <2>9
  <2>11. Recorded' = c
    BY <1>2, <1>3, <2>1 DEF Recorded
  <2>12. buffer' # << >>
    BY <2>7, <2>8
  <2>13. QED
    BY <2>7, <2>8, <2>10, <2>11, <2>12 DEF BufferOK
<1>6. ArrivingOK'
  BY <1>2, <1>3 DEF OrderOK, ArrivingOK
<1>7. NotedOK'
  BY <1>2, <1>3 DEF OrderOK, NotedOK
<1>8. SeenOK'
  <2>1. \A n : OnTheWay(n) => OnTheWay(n)'
    BY <1>2, <1>3 DEF OnTheWay
  <2>2. QED
    BY <1>3, <2>1 DEF OrderOK, SeenOK
<1>9. QED
  BY <1>4, <1>5, <1>6, <1>7, <1>8 DEF OrderOK

LEMMA OrderStays ==
    ASSUME OrderOK, UNCHANGED <<counter, buffer, broadcasts, arriving, client>>
    PROVE  OrderOK'
BY DEF OrderOK, OneBroadcast, BufferOK, Recorded, ArrivingOK, NotedOK, SeenOK, OnTheWay

LEMMA PublishOrder ==
    ASSUME LiveTypeOK, PubsubOK, SocketOK, OrderOK, NEW b \in broadcasts, Publish(b)
    PROVE  OrderOK'
<1>1. /\ broadcasts = {b} /\ broadcasts' = {} /\ b.at = "publish"
      /\ UNCHANGED <<counter, buffer, client>>
  BY DEF Publish, OrderOK, OneBroadcast
<1>2. OneBroadcast'
  BY <1>1 DEF OneBroadcast
<1>3. BufferOK'
  BY <1>1 DEF OrderOK, BufferOK, Recorded
<1>4. NotedOK'
  BY <1>1 DEF OrderOK, NotedOK
<1>5. CASE subscribed
  <2>1. PICK k : k = Len(arriving) + 1
    OBVIOUS
  <2>2. b.event \in Event /\ IsEvent(b.event) /\ b.event.seq = counter /\ b.event.seq \in Nat \ {0}
    BY EventNumbers, EventsAreNoAnswers DEF OrderOK, OneBroadcast, IsEvent
  <2>3. /\ k \in Nat \ {0} /\ k \in DOMAIN arriving' /\ arriving'[k] = b.event
        /\ \A i \in DOMAIN arriving :
              i \in DOMAIN arriving' /\ arriving'[i] = arriving[i] /\ i \in Nat /\ i < k
        /\ \A i \in DOMAIN arriving' : i \in DOMAIN arriving \/ i = k
    BY <1>5, <2>1, <2>2, GrownAt DEF Publish
  <2>4. ArrivingOK'
    <3>1. \A i \in DOMAIN arriving' : IsEvent(arriving'[i]) =>
             client.lastSeq < arriving'[i].seq /\ arriving'[i].seq <= counter
      <4>1. counter <= counter
        BY EventNumbers
      <4>2. QED
        BY <2>2, <2>3, <4>1 DEF OrderOK, ArrivingOK, NotedOK
    <3>2. \A i, j \in DOMAIN arriving' :
             i < j /\ IsEvent(arriving'[i]) /\ IsEvent(arriving'[j])
                 => arriving'[i].seq < arriving'[j].seq
      <4>1. \A i \in DOMAIN arriving' : ~(k < i)
        BY <2>3
      <4>2. QED
        BY <2>2, <2>3, <4>1 DEF OrderOK, ArrivingOK
    <3>3. QED
      BY <1>1, <3>1, <3>2 DEF ArrivingOK, IsEvent, IsAnswer
  <2>5. SeenOK'
    <3>1. \A n : OnTheWay(n) => OnTheWay(n)'
      BY <1>1, <2>2, <2>3 DEF OnTheWay, IsEvent, IsAnswer
    <3>2. QED
      BY <1>1, <3>1 DEF OrderOK, SeenOK
  <2>6. QED
    BY <1>2, <1>3, <1>4, <2>4, <2>5 DEF OrderOK
<1>6. CASE ~subscribed
  <2>1. arriving' = arriving
    BY <1>6 DEF Publish
  <2>2. client.at # "up"
    BY <1>6 DEF SocketOK, PubsubOK, ServedOK, InUse, Listeners
  <2>3. ArrivingOK'
    BY <1>1, <2>1 DEF OrderOK, ArrivingOK
  <2>4. SeenOK'
    BY <1>1, <2>2 DEF OrderOK, SeenOK
  <2>5. QED
    BY <1>2, <1>3, <1>4, <2>3, <2>4 DEF OrderOK
<1>7. QED
  BY <1>5, <1>6

LEMMA ExecuteOrder ==
    ASSUME LiveTypeOK, OrderOK, Execute
    PROVE  OrderOK'
<1>1. PICK k, m : k = Len(arriving) + 1 /\ m = Head(commands)
  OBVIOUS
<1>2. /\ commands # << >> /\ arriving' = Append(arriving, m)
      /\ UNCHANGED <<counter, buffer, broadcasts, client>>
  BY <1>1 DEF Execute
<1>3. m \in Command /\ ~IsEvent(m)
  BY <1>1, <1>2, CommandTyped, TailAt DEF IsEvent, IsAnswer
<1>4. /\ k \in Nat \ {0} /\ k \in DOMAIN arriving' /\ arriving'[k] = m
      /\ \A i \in DOMAIN arriving :
            i \in DOMAIN arriving' /\ arriving'[i] = arriving[i] /\ i \in Nat /\ i < k
      /\ \A i \in DOMAIN arriving' : i \in DOMAIN arriving \/ i = k
  BY <1>1, <1>2, <1>3, GrownAt
<1>5. ArrivingOK'
  BY <1>2, <1>3, <1>4 DEF OrderOK, ArrivingOK, IsEvent, IsAnswer
<1>6. \A n : OnTheWay(n) => OnTheWay(n)'
  BY <1>2, <1>3, <1>4 DEF OnTheWay, IsEvent, IsAnswer
<1>7. QED
  BY <1>2, <1>5, <1>6 DEF OrderOK, OneBroadcast, BufferOK, Recorded, NotedOK, SeenOK

LEMMA TakeAnswerOrder ==
    ASSUME LiveTypeOK, OrderOK, TakeAnswer
    PROVE  OrderOK'
<1>1. /\ arriving # << >> /\ arriving' = Tail(arriving) /\ ~IsEvent(Head(arriving))
      /\ UNCHANGED <<counter, buffer, broadcasts, client>>
  BY DEF TakeAnswer, IsEvent
<1>2. /\ Head(arriving) = arriving[1]
      /\ \A i \in DOMAIN arriving' :
            /\ i + 1 \in DOMAIN arriving /\ arriving'[i] = arriving[i + 1]
            /\ i \in Nat \ {0}
      /\ \A i \in DOMAIN arriving : i # 1 =>
            \E j \in DOMAIN arriving' : arriving'[j] = arriving[i]
  BY <1>1, TakenAt, ShiftedAt
<1>3. ArrivingOK'
  <2>1. \A i, j \in DOMAIN arriving' : i < j => i + 1 < j + 1
    BY <1>2
  <2>2. QED
    BY <1>1, <1>2, <2>1 DEF OrderOK, ArrivingOK, IsEvent, IsAnswer
<1>4. \A n : OnTheWay(n) => OnTheWay(n)'
  BY <1>1, <1>2 DEF OnTheWay, IsEvent, IsAnswer
<1>5. QED
  BY <1>1, <1>3, <1>4 DEF OrderOK, OneBroadcast, BufferOK, Recorded, NotedOK, SeenOK

LEMMA NotedFields ==
    ASSUME LiveTypeOK, NEW e \in Event, NEW c, c = Noted(e)
    PROVE  /\ c.at = client.at /\ c.socket = client.socket /\ c.asked = client.asked
           /\ c.first = client.first /\ c.lastSeq = e.seq /\ c.seen = client.seen \cup {e.seq}
BY ClientTyped DEF Noted, Client

LEMMA TakeEventOrder ==
    ASSUME LiveTypeOK, PubsubOK, SocketOK, OrderOK, TakeEvent
    PROVE  OrderOK'
<1>1. PICK m : m = Head(arriving)
  OBVIOUS
<1>2. /\ arriving # << >> /\ arriving' = Tail(arriving) /\ IsEvent(m)
      /\ client' = IF client.socket \in handlers THEN Noted(m) ELSE client
      /\ UNCHANGED <<counter, buffer, broadcasts>>
  BY <1>1 DEF TakeEvent, IsEvent
<1>3. /\ m = arriving[1] /\ 1 \in DOMAIN arriving
      /\ \A i \in DOMAIN arriving' :
            /\ i + 1 \in DOMAIN arriving /\ arriving'[i] = arriving[i + 1]
            /\ i \in Nat \ {0}
      /\ \A i \in DOMAIN arriving : i # 1 =>
            \E j \in DOMAIN arriving' : arriving'[j] = arriving[i]
  BY <1>1, <1>2, TakenAt, ShiftedAt
<1>4. m \in Event /\ m.seq \in Nat \ {0}
  BY <1>2, <1>3, EventNumbers DEF LiveTypeOK, IsEvent, IsAnswer
<1>5. /\ client.lastSeq < m.seq /\ m.seq <= counter
      /\ \A b \in broadcasts : m.seq < b.event.seq
  BY <1>2, <1>3 DEF OrderOK, ArrivingOK
<1>6. \A i, j \in DOMAIN arriving' : (i < j => i + 1 < j + 1) /\ 1 < i + 1
  BY <1>3
<1>7. \A i \in DOMAIN arriving' : IsEvent(arriving'[i]) => m.seq < arriving'[i].seq
  BY <1>2, <1>3, <1>6 DEF OrderOK, ArrivingOK
<1>8. OneBroadcast' /\ BufferOK'
  BY <1>2 DEF OrderOK, OneBroadcast, BufferOK, Recorded
<1>9. \A n : OnTheWay(n) => OnTheWay(n)' \/ n = m.seq
  BY <1>2, <1>3 DEF OnTheWay, IsEvent, IsAnswer
<1>10. CASE client.socket \in handlers
  <2>1. client' = Noted(m)
    BY <1>2, <1>10
  <2>2. /\ client'.at = client.at /\ client'.asked = client.asked /\ client'.first = client.first
        /\ client'.lastSeq = m.seq /\ client'.seen = client.seen \cup {m.seq}
    BY <1>4, <2>1, NotedFields
  <2>3. client.at # "down"
    BY <1>10, LiveConstants DEF SocketOK, LiveTypeOK
  <2>4. ArrivingOK'
    BY <1>2, <1>3, <1>6, <1>7, <2>2 DEF OrderOK, ArrivingOK, IsEvent, IsAnswer
  <2>5. NotedOK'
    <3>1. client.asked <= m.seq
      BY <1>4, <1>5, ClientTyped DEF OrderOK, NotedOK
    <3>2. QED
      BY <1>2, <1>5, <2>2, <3>1 DEF NotedOK
  <2>6. SeenOK'
    BY <1>2, <1>9, <2>2, <2>3 DEF OrderOK, SeenOK
  <2>7. QED
    BY <1>8, <2>4, <2>5, <2>6 DEF OrderOK
<1>11. CASE client.socket \notin handlers
  <2>1. client' = client
    BY <1>2, <1>11
  <2>2. client.at # "up"
    BY <1>11 DEF SocketOK, PubsubOK, HandlersOK, Listeners
  <2>3. ArrivingOK'
    BY <1>2, <1>3, <1>6, <2>1 DEF OrderOK, ArrivingOK, IsEvent, IsAnswer
  <2>4. NotedOK' /\ SeenOK'
    BY <1>2, <2>1, <2>2 DEF OrderOK, NotedOK, SeenOK
  <2>5. QED
    BY <1>8, <2>3, <2>4 DEF OrderOK
<1>12. QED
  BY <1>10, <1>11

LEMMA ConnectOrder ==
    ASSUME LiveTypeOK, OrderOK, NEW x \in Sockets, Connect(x)
    PROVE  OrderOK'
<1>1. /\ client.at = "down" /\ UNCHANGED <<counter, buffer, broadcasts, arriving>>
      /\ client' = [client EXCEPT !.at = "opening", !.socket = x, !.asked = client.lastSeq]
  BY DEF Connect, Subscribe
<1>2. /\ client'.at = "opening" /\ client'.asked = client.lastSeq
      /\ client'.lastSeq = client.lastSeq /\ client'.first = client.first
      /\ client'.seen = client.seen
  BY <1>1, ClientTyped DEF Client
<1>3. NotedOK'
  <2>1. client.lastSeq <= client.lastSeq
    BY ClientTyped
  <2>2. QED
    BY <1>1, <1>2, <2>1 DEF OrderOK, NotedOK
<1>4. ArrivingOK' /\ SeenOK'
  BY <1>1, <1>2 DEF OrderOK, ArrivingOK, SeenOK
<1>5. QED
  BY <1>1, <1>3, <1>4 DEF OrderOK, OneBroadcast, BufferOK, Recorded

LEMMA DisconnectOrder ==
    ASSUME LiveTypeOK, OrderOK, Disconnect, mishaps' = {}
    PROVE  OrderOK'
<1>1. /\ client.at # "down" /\ UNCHANGED <<counter, buffer, broadcasts, arriving>>
      /\ client' = [client EXCEPT !.at = "down", !.socket = NoSocket]
      /\ client.at = "opening" => client.lastSeq = client.asked
  BY DEF Disconnect, pubsub
<1>2. /\ client'.at = "down" /\ client'.asked = client.asked
      /\ client'.lastSeq = client.lastSeq /\ client'.first = client.first
      /\ client'.seen = client.seen
  BY <1>1, ClientTyped DEF Client
<1>3. SeenOK'
  <2>1. CASE client.at = "opening"
    BY <1>1, <1>2, <2>1 DEF OrderOK, SeenOK
  <2>2. CASE client.at = "up"
    <3>1. \A n \in client.first .. client.lastSeq : n \in client.first .. counter /\ n <= client.lastSeq
      BY ClientTyped, EventNumbers DEF OrderOK, NotedOK
    <3>2. \A n : OnTheWay(n) => client.lastSeq < n
      BY DEF OrderOK, ArrivingOK, NotedOK, OnTheWay
    <3>3. \A n \in client.first .. client.lastSeq : ~(client.lastSeq < n)
      BY ClientTyped
    <3>4. \A n \in client.first .. client.lastSeq : n \in client.seen
      BY <2>2, <3>1, <3>2, <3>3 DEF OrderOK, SeenOK
    <3>5. QED
      BY <1>2, <3>4 DEF SeenOK
  <2>3. QED
    BY <1>1, <2>1, <2>2, ClientTyped
<1>4. ArrivingOK' /\ NotedOK'
  BY <1>1, <1>2 DEF OrderOK, ArrivingOK, NotedOK
<1>5. QED
  BY <1>1, <1>3, <1>4 DEF OrderOK, OneBroadcast, BufferOK, Recorded

LEMMA ResyncOrder ==
    ASSUME LiveTypeOK, OrderOK, Resync
    PROVE  OrderOK'
<1>1. PICK a, c, f : a = client.asked /\ c = counter /\ f = client.first
  OBVIOUS
<1>2. PICK v : v = client'
  OBVIOUS
<1>3. /\ client.at = "opening" /\ a \in Nat /\ c \in Nat /\ f \in Nat /\ a <= c
      /\ UNCHANGED <<counter, buffer, broadcasts, arriving>>
  <2>1. UNCHANGED arriving
    BY DEF Resync, pubsub
  <2>2. client.asked <= counter
    BY ClientTyped, EventNumbers DEF OrderOK, NotedOK
  <2>3. QED
    BY <1>1, <2>1, <2>2, ClientTyped, EventNumbers DEF Resync
<1>4. /\ v.at = "up" /\ v.asked = client.asked /\ v.lastSeq = client.lastSeq
      /\ v.first > 0
      /\ v.first \in Int
      /\ \A n \in v.first .. c : n \in v.seen \/ OnTheWay(n)
  <2>1. CASE a = 0
    <3>1. v = [client EXCEPT !.at = "up", !.first = c + 1]
      BY <1>1, <1>2, <2>1 DEF Resync
    <3>2. v.at = "up" /\ v.asked = client.asked /\ v.lastSeq = client.lastSeq /\ v.first = c + 1
      BY <3>1, ClientTyped DEF Client
    <3>3. \A n \in c + 1 .. c : FALSE
      BY <1>3
    <3>4. c + 1 \in Nat \ {0}
      BY <1>3
    <3>5. QED
      BY <3>2, <3>3, <3>4
  <2>2. CASE a # 0
    <3>1. PICK s, g : s = client.seen \cup Missed(a) /\ g = IF f = 0 THEN a + 1 ELSE f
      OBVIOUS
    <3>2. v = [client EXCEPT !.at = "up", !.seen = s, !.first = g]
      BY <1>1, <1>2, <2>2, <3>1 DEF Resync
    <3>3. /\ v.at = "up" /\ v.asked = client.asked /\ v.lastSeq = client.lastSeq
          /\ v.first = g /\ v.seen = s
      BY <3>2, ClientTyped DEF Client
    <3>4. g \in Nat /\ g > 0
      BY <1>3, <3>1
    <3>5. ASSUME NEW n \in g .. c
          PROVE  n \in s \/ OnTheWay(n)
      <4>1. CASE n <= a
        <5>1. f # 0 /\ n \in f .. a
          BY <1>3, <3>1, <4>1
        <5>2. n \in client.seen
          BY <1>1, <1>3, <5>1 DEF OrderOK, SeenOK
        <5>3. QED
          BY <3>1, <5>2
      <4>2. CASE n > a
        <5>1. n \in 1 .. c /\ n \in Nat
          BY <1>3, <3>4
        <5>2. CASE n > Recorded
          <6>1. Recorded = c - 1 /\ \E b \in broadcasts : b.at = "buffer"
            BY <1>1, <1>3, <5>1, <5>2 DEF Recorded
          <6>2. n = c
            BY <1>3, <5>1, <5>2, <6>1
          <6>3. QED
            BY <1>1, <6>1, <6>2 DEF OrderOK, OneBroadcast, OnTheWay
        <5>3. CASE ~(n > Recorded)
          <6>1. PICK r, l : r = Recorded /\ l = Len(buffer)
            OBVIOUS
          <6>2. r \in Int /\ n <= r
            BY <1>1, <1>3, <5>1, <5>3, <6>1 DEF Recorded
          <6>3. /\ l \in Nat /\ DOMAIN buffer = 1 .. l
                /\ (l = 0 => buffer = << >>)
                /\ \A i \in 1 .. l : buffer[i].seq = r - l + i
            <7>1. buffer \in Seq(Event)
              BY DEF LiveTypeOK
            <7>2. \A i \in DOMAIN buffer : buffer[i].seq = r - l + i
              BY <6>1 DEF OrderOK, BufferOK
            <7>3. QED
              BY <6>1, <7>1, <7>2
          <6>4. buffer # << >> /\ l > 0
            <7>1. r # 0
              BY <5>1, <6>2
            <7>2. buffer # << >>
              BY <6>1, <7>1 DEF OrderOK, BufferOK
            <7>3. QED
              BY <6>3, <7>2
          <6>5. CASE NeedsReload(a)
            BY <1>1, <3>1, <5>1, <6>4, <6>5 DEF Missed
          <6>6. CASE ~NeedsReload(a)
            <7>1. buffer[1].seq = r - l + 1
              BY <6>3, <6>4
            <7>2. ~(a + 1 < r - l + 1)
              BY <6>6, <7>1 DEF NeedsReload
            <7>3. PICK i : i = n - r + l
              OBVIOUS
            <7>4. i \in 1 .. l /\ r - l + i = n
              BY <1>3, <4>2, <5>1, <6>2, <6>3, <7>2, <7>3
            <7>5. buffer[i].seq = n /\ i \in DOMAIN buffer
              BY <6>3, <7>4
            <7>6. n \in Missed(a)
              BY <1>1, <4>2, <5>1, <6>4, <6>6, <7>5 DEF Missed
            <7>7. QED
              BY <3>1, <7>6
          <6>7. QED
            BY <6>5, <6>6
        <5>4. QED
          BY <5>2, <5>3
      <4>3. QED
        BY <1>3, <3>4, <4>1, <4>2
    <3>6. QED
      BY <3>3, <3>4, <3>5
  <2>3. QED
    BY <2>1, <2>2
<1>5. SeenOK'
  <2>1. \A n : OnTheWay(n) => OnTheWay(n)'
    BY <1>3 DEF OnTheWay
  <2>2. QED
    BY <1>1, <1>2, <1>3, <1>4, <2>1 DEF SeenOK
<1>6. ArrivingOK' /\ NotedOK'
  BY <1>2, <1>3, <1>4 DEF OrderOK, ArrivingOK, NotedOK
<1>7. QED
  BY <1>3, <1>5, <1>6 DEF OrderOK, OneBroadcast, BufferOK, Recorded

LEMMA SocketStays ==
    ASSUME SocketOK, UNCHANGED <<client, listening>>
    PROVE  SocketOK'
BY DEF SocketOK

LEMMA SocketServed ==
    ASSUME LiveTypeOK, SocketOK, TakeAnswer \/ TakeEvent
    PROVE  SocketOK'
<1>1. CASE TakeEvent
  <2>1. PICK m : m = Head(arriving)
    OBVIOUS
  <2>2. arriving # << >> /\ arriving' = Tail(arriving) /\ listening' = listening
        /\ ~IsAnswer(m) /\ (client' = client \/ client' = Noted(m))
    BY <1>1, <2>1 DEF TakeEvent
  <2>3. m \in Event
    BY <2>1, <2>2, TakenAt DEF LiveTypeOK, IsAnswer
  <2>4. client'.at = client.at /\ client'.socket = client.socket
    BY <2>2, <2>3, NotedFields
  <2>5. QED
    BY <2>2, <2>4 DEF SocketOK
<1>2. CASE TakeAnswer
  <2>1. PICK l : l = Head(arriving).of
    OBVIOUS
  <2>2. /\ client' = client
        /\ \/ listening' = listening
           \/ listening' = [listening EXCEPT ![l] =
                               IF listening[l] = "subscribing" THEN "on" ELSE listening[l]]
    BY <1>2, <2>1 DEF TakeAnswer
  <2>3. \A x \in Listeners : listening[x] = "on" => listening'[x] = "on"
    BY <2>2 DEF LiveTypeOK
  <2>4. client.at # "down" => client.socket \in Listeners
    BY DEF SocketOK, Listeners
  <2>5. QED
    BY <2>2, <2>3, <2>4 DEF SocketOK
<1>3. QED
  BY <1>1, <1>2

(* Other listeners come and go.                                            *)
LEMMA SocketLeft ==
    ASSUME LiveTypeOK, SocketOK, client' = client, NEW l \in Listeners,
           \/ Subscribe(l)
           \/ client.socket # l /\ Unsubscribe(l)
           \/ listening[l] = "subscribing" /\ listening' = [listening EXCEPT ![l] = "left"]
    PROVE  SocketOK'
<1>1. \A x \in Listeners : listening'[x] = listening[x] \/ x = l
  BY DEF LiveTypeOK, Subscribe, Unsubscribe
<1>2. client.at = "up" => client.socket \in Listeners
  BY DEF SocketOK, Listeners
<1>3. client.at = "up" => client.socket # l
  BY DEF SocketOK, Subscribe
<1>4. QED
  BY <1>1, <1>2, <1>3 DEF SocketOK

LEMMA SocketMoves ==
    ASSUME LiveTypeOK, SocketOK, Resync \/ Disconnect \/ \E x \in Sockets : Connect(x)
    PROVE  SocketOK'
<1>1. CASE Resync
  <2>1. client.at = "opening" /\ listening[client.socket] = "on" /\ listening' = listening
    BY <1>1 DEF Resync, pubsub
  <2>2. client'.at = "up" /\ client'.socket = client.socket
    <3>1. PICK s, f : s = client.seen \cup Missed(client.asked)
                      /\ f = IF client.first = 0 THEN client.asked + 1 ELSE client.first
      OBVIOUS
    <3>2. \/ client' = [client EXCEPT !.at = "up", !.first = counter + 1]
          \/ client' = [client EXCEPT !.at = "up", !.seen = s, !.first = f]
      BY <1>1, <3>1 DEF Resync
    <3>3. QED
      BY <3>2, ClientTyped DEF Client
  <2>3. client.socket \in Sockets
    BY <2>1 DEF SocketOK
  <2>4. QED
    BY <2>1, <2>2, <2>3 DEF SocketOK
<1>2. CASE Disconnect
  <2>1. client'.at = "down" /\ client'.socket = NoSocket
    BY <1>2, ClientTyped DEF Disconnect, Client
  <2>2. QED
    BY <2>1 DEF SocketOK
<1>3. ASSUME NEW x \in Sockets, Connect(x)
      PROVE  SocketOK'
  <2>1. client'.at = "opening" /\ client'.socket = x
    BY <1>3, ClientTyped DEF Connect, Client
  <2>2. QED
    BY <2>1 DEF SocketOK
<1>4. QED
  BY <1>1, <1>2, <1>3

GapOK == SocketOK /\ (mishaps = {} => OrderOK)

LEMMA GapStays ==
    ASSUME GapOK, UNCHANGED liveVars
    PROVE  GapOK'
BY OrderStays, SocketStays DEF GapOK, liveVars, pubsub

LEMMA LiveGap ==
    ASSUME LiveTypeOK, PubsubOK, GapOK, LiveStep
    PROVE  GapOK'
<1>1. ASSUME NEW b \in broadcasts, Record(b) \/ Publish(b) \/ Lose(b)
      PROVE  GapOK'
  <2>1. SocketOK'
    BY <1>1, SocketStays DEF GapOK, Record, Publish, Lose, pubsub
  <2>2. mishaps' = {} => OrderOK'
    BY <1>1, RecordOrder, PublishOrder DEF GapOK, Record, Publish, Lose
  <2>3. QED
    BY <2>1, <2>2 DEF GapOK
<1>2. CASE BufferLapse
  BY <1>2, SocketStays DEF GapOK, BufferLapse, pubsub
<1>3. CASE Execute
  BY <1>3, ExecuteOrder, SocketStays DEF GapOK, Execute
<1>4. CASE TakeAnswer
  BY <1>4, TakeAnswerOrder, SocketServed DEF GapOK, TakeAnswer
<1>5. ASSUME NEW x \in Sockets, Connect(x)
      PROVE  GapOK'
  BY <1>5, ConnectOrder, SocketMoves DEF GapOK, Connect
<1>6. ASSUME NEW x \in Sockets, OnClose(x)
      PROVE  GapOK'
  <2>1. x \in Listeners
    BY DEF Listeners
  <2>2. UNCHANGED <<counter, buffer, broadcasts, arriving, client, mishaps>>
    BY <1>6 DEF OnClose, Unsubscribe
  <2>3. SocketOK'
    BY <1>6, <2>1, SocketLeft DEF GapOK, OnClose
  <2>4. QED
    BY <2>2, <2>3, OrderStays DEF GapOK
<1>7. CASE Resync
  BY <1>7, ResyncOrder, SocketMoves DEF GapOK, Resync
<1>8. CASE Disconnect
  <2>1. mishaps' = {} => mishaps = {}
    BY <1>8 DEF Disconnect
  <2>2. QED
    BY <1>8, <2>1, DisconnectOrder, SocketMoves DEF GapOK
<1>9. QED
  BY <1>1, <1>2, <1>3, <1>4, <1>5, <1>6, <1>7, <1>8 DEF LiveStep

LEMMA GapKeeps ==
    ASSUME TypeOK, PubsubOK, GapOK, [Next]_vars
    PROVE  GapOK'
<1>1. LiveTypeOK
  BY DEF TypeOK
<1>2. ASSUME NEW c \in Callers, CallStep(c)
      PROVE  GapOK'
  <2>1. CASE EmitNote(c)
    <3>1. PICK k : k = calls[c].note.fullKey /\ Emit(k)
      BY <2>1 DEF EmitNote
    <3>2. k \in FullKeys
      <4>1. calls[c].note \in Note
        BY <2>1, CallTyped DEF EmitNote
      <4>2. QED
        BY <3>1, <4>1 DEF Note
    <3>3. SocketOK'
      BY <3>1, SocketStays DEF GapOK, Emit, pubsub
    <3>4. mishaps' = {} => OrderOK'
      BY <1>1, <3>1, <3>2, EmitOrder DEF GapOK, Emit
    <3>5. QED
      BY <3>3, <3>4 DEF GapOK
  <2>2. QED
    BY <1>2, <2>1, GapStays
       DEF CallStep, AssertHas, AssertCount, Store, DeleteGet, DeleteStore, AppendAudit
<1>3. ASSUME NEW w \in Waiters, WaitStep(w)
      PROVE  GapOK'
  <2>1. w \in Listeners
    BY DEF Listeners
  <2>2. CASE WaitBegin(w) \/ WaitEnd(w)
    <3>1. /\ UNCHANGED <<counter, buffer, broadcasts, arriving, client, mishaps>>
          /\ Subscribe(w) \/ Unsubscribe(w)
      BY <2>2 DEF WaitBegin, WaitEnd, Subscribe, Unsubscribe
    <3>2. CASE Subscribe(w)
      BY <1>1, <2>1, <3>1, <3>2, SocketLeft, OrderStays DEF GapOK
    <3>3. CASE Unsubscribe(w)
      <4>1. CASE client.socket # w
        BY <1>1, <2>1, <3>1, <3>3, <4>1, SocketLeft, OrderStays DEF GapOK
      <4>2. CASE client.socket = w
        BY <2>1, <4>2, LiveConstants DEF GapOK, SocketOK
      <4>3. QED
        BY <4>1, <4>2
    <3>4. QED
      BY <3>1, <3>2, <3>3
  <2>3. QED
    BY <1>3, <2>2, GapStays DEF WaitStep, WaitRead, WaitCheck, WaitWake
<1>4. CASE HandleEvent
  <2>1. TakeEvent /\ mishaps' = mishaps
    BY <1>4 DEF HandleEvent, TakeEvent
  <2>2. QED
    BY <1>1, <2>1, TakeEventOrder, SocketServed DEF GapOK
<1>5. CASE UNCHANGED vars
  BY <1>5, GapStays DEF vars
<1>6. QED
  BY <1>1, <1>2, <1>3, <1>4, <1>5, LiveGap, GapStays DEF Next, Begin, Die, Upsert, FailToIndex

LEMMA GapHolds == Spec => []GapOK
<1>1. Init => GapOK
  <2>1. SUFFICES ASSUME Init
                 PROVE  GapOK
    OBVIOUS
  <2>2. /\ counter = 0 /\ buffer = << >> /\ broadcasts = {} /\ arriving = << >>
        /\ client = [at |-> "down", socket |-> NoSocket, asked |-> 0, lastSeq |-> 0,
                     first |-> 0, seen |-> {}]
    BY <2>1 DEF Init, LiveInit
  <2>3. /\ DOMAIN buffer = {} /\ DOMAIN arriving = {}
        /\ client.at = "down" /\ client.socket = NoSocket /\ client.asked = 0
        /\ client.lastSeq = 0 /\ client.first = 0
    BY <2>2
  <2>4. OneBroadcast /\ BufferOK /\ ArrivingOK /\ NotedOK /\ SeenOK
    BY <2>2, <2>3 DEF OneBroadcast, BufferOK, Recorded, ArrivingOK, NotedOK, SeenOK
  <2>5. QED
    BY <2>3, <2>4 DEF GapOK, OrderOK, SocketOK
<1>2. QED
  BY <1>1, GapKeeps, StoreTypeCorrect, PubsubHolds, PTL DEF Spec

(* The stream recovers its gaps, whatever the number of connections it     *)
(* takes, the size of the buffer and what is broadcast, as long as none of *)
(* the mishaps happens.                                                    *)
THEOREM GapsAreRecovered == Spec => []GapIsRecovered
<1>1. TypeOK /\ GapOK => GapIsRecovered
  <2>1. SUFFICES ASSUME TypeOK, GapOK, mishaps = {}, client.at = "up",
                        broadcasts = {}, arriving = << >>,
                        NEW n \in client.first .. counter
                 PROVE  n \in client.seen
    BY DEF GapIsRecovered, IsUpToDate
  <2>2. DOMAIN arriving = {}
    BY <2>1
  <2>3. ~OnTheWay(n)
    BY <2>1, <2>2 DEF OnTheWay
  <2>4. QED
    BY <2>1, <2>3 DEF GapOK, OrderOK, SeenOK
<1>2. QED
  BY <1>1, StoreTypeCorrect, GapHolds, PTL

-----------------------------------------------------------------------------
(* Waits.  An event of the awaited key is on its way not only while a call *)
(* waits for it but from its read on: until the next wait an event wakes   *)
(* the call in advance.                                                    *)

IsAwaiting(w) == waits[w].at \in {"check", "race"}
IsTold(c, k)  == calls[c].at \in {"audit", "emit"} /\ calls[c].note.fullKey = k

WakeOK ==
    /\ \A w \in Waiters : IsAwaiting(w) => listening[w] = "on"
    /\ died = 0 /\ "loss" \notin mishaps =>
          \A w \in Waiters :
              IsAwaiting(w) /\ ~waits[w].woken /\ IsLive(Awaited) => OnItsWay(Awaited)

LEMMA WakeStays ==
    ASSUME WakeOK, UNCHANGED <<waits, listening, died>>, mishaps \subseteq mishaps',
           IsLive(Awaited)' => IsLive(Awaited) \/ OnItsWay(Awaited)',
           OnItsWay(Awaited) => OnItsWay(Awaited)'
    PROVE  WakeOK'
BY DEF WakeOK, IsAwaiting

(* Calls that go on and had not told anything.                             *)
LEMMA WakeGoesOn ==
    ASSUME TypeOK, WakeOK, NEW c \in Callers, calls[c].at \notin {"audit", "emit"},
           \A d \in Callers : d # c => calls'[d] = calls[d],
           UNCHANGED <<waits, died, liveVars>>,
           IsLive(Awaited)' => IsLive(Awaited) \/ OnItsWay(Awaited)'
    PROVE  WakeOK'
<1>1. \A d \in Callers : IsTold(d, Awaited) => IsTold(d, Awaited)'
  BY DEF IsTold
<1>2. OnItsWay(Awaited) => OnItsWay(Awaited)'
  BY <1>1 DEF OnItsWay, IsTold, liveVars, pubsub, IsAnswer
<1>3. QED
  BY <1>2, WakeStays DEF liveVars, pubsub

LEMMA StoreWakes ==
    ASSUME TypeOK, WakeOK, NEW c \in Callers, Store(c)
    PROVE  WakeOK'
<1>1. PICK op, k : op = calls[c].op /\ k = KeyOf(op)
  OBVIOUS
<1>2. calls[c].at = "store" /\ UNCHANGED <<waits, died, liveVars>>
  BY DEF Store
<1>3. \A d \in Callers : d # c => calls'[d] = calls[d]
  BY DEF Store, Tell, ReplayEnds, Return, TypeOK
<1>4. CASE UNCHANGED entries
  <2>1. IsLive(Awaited)' => IsLive(Awaited)
    BY <1>4 DEF entries, register, IsLive
  <2>2. QED
    BY <1>2, <1>3, <2>1, WakeGoesOn
<1>5. CASE Stores(k, op, FALSE) /\ Tell(c, "CTX_WRITE", version'[k])
  <2>1. Awaited # k => (IsLive(Awaited)' => IsLive(Awaited))
    BY <1>5, StoreSettings DEF Stores, Storage!Commit, IsLive, TypeOK
  <2>2. IsTold(c, k)'
    <3>1. calls'[c].at = "audit" /\ calls'[c].note.fullKey = k
      BY <1>1, <1>5 DEF Tell, TypeOK
    <3>2. QED
      BY <3>1 DEF IsTold
  <2>3. Awaited = k => OnItsWay(Awaited)'
    BY <2>2 DEF OnItsWay, IsTold
  <2>4. QED
    BY <1>2, <1>3, <2>1, <2>3, WakeGoesOn
<1>6. QED
  BY <1>1, <1>4, <1>5 DEF Store

LEMMA CallWakes ==
    ASSUME TypeOK, WakeOK, NEW c \in Callers, CallStep(c)
    PROVE  WakeOK'
<1>1. CASE AssertHas(c) \/ AssertCount(c) \/ DeleteGet(c)
  <2>1. /\ calls[c].at \notin {"audit", "emit"}
        /\ \A d \in Callers : d # c => calls'[d] = calls[d]
        /\ UNCHANGED <<waits, died, liveVars>>
    BY <1>1 DEF AssertHas, AssertCount, DeleteGet, GoTo, Return, TypeOK
  <2>2. IsLive(Awaited)' => IsLive(Awaited)
    BY <1>1 DEF AssertHas, AssertCount, DeleteGet, IsLive, entries, register
  <2>3. QED
    BY <2>1, <2>2, WakeGoesOn
<1>2. CASE DeleteStore(c)
  <2>1. PICK op, k : op = calls[c].op /\ k = KeyOf(op)
    OBVIOUS
  <2>2. /\ calls[c].at \notin {"audit", "emit"}
        /\ \A d \in Callers : d # c => calls'[d] = calls[d]
        /\ UNCHANGED <<waits, died, liveVars>>
    BY <1>2 DEF DeleteStore, Tell, Return, TypeOK
  <2>3. IsLive(Awaited)' => IsLive(Awaited)
    <3>1. CASE UNCHANGED entries
      BY <3>1 DEF entries, register, IsLive
    <3>2. CASE Stores(k, op, TRUE)
      <4>1. /\ isDeleted' = [isDeleted EXCEPT ![k] = TRUE]
            /\ \A x \in FullKeys : x # k => version'[x] = version[x]
        BY <3>2 DEF Stores, Storage!Commit, TypeOK
      <4>2. QED
        BY <4>1, StoreSettings DEF IsLive, TypeOK
    <3>3. QED
      BY <1>2, <2>1, <3>1, <3>2 DEF DeleteStore
  <2>4. QED
    BY <2>2, <2>3, WakeGoesOn
<1>3. CASE AppendAudit(c)
  <2>1. /\ calls[c].at = "audit" /\ UNCHANGED <<entries, waits, died, liveVars>>
        /\ calls' = [calls EXCEPT ![c].at = "emit"]
    BY <1>3 DEF AppendAudit, GoTo
  <2>2. \A d \in Callers : IsTold(d, Awaited) => IsTold(d, Awaited)'
    <3>1. \A d \in Callers : d # c => calls'[d] = calls[d]
      BY <2>1 DEF TypeOK
    <3>2. calls'[c].at = "emit" /\ calls'[c].note = calls[c].note
      BY <2>1, CallTyped DEF TypeOK
    <3>3. QED
      BY <3>1, <3>2 DEF IsTold
  <2>3. OnItsWay(Awaited) => OnItsWay(Awaited)'
    BY <2>1, <2>2 DEF OnItsWay, IsTold, liveVars, pubsub, IsAnswer
  <2>4. QED
    BY <2>1, <2>3, WakeStays DEF entries, register, IsLive, liveVars, pubsub
<1>4. CASE EmitNote(c)
  <2>1. PICK b : b = [at |-> "buffer",
                      event |-> [fullKey |-> calls[c].note.fullKey, seq |-> counter + 1]]
    OBVIOUS
  <2>2. /\ broadcasts' = broadcasts \cup {b} /\ b.event.fullKey = calls[c].note.fullKey
        /\ UNCHANGED <<waits, listening, arriving, died, version, isDeleted>>
        /\ mishaps \subseteq mishaps'
    BY <1>4, <2>1 DEF EmitNote, Emit, pubsub, entries, register
  <2>3. \A d \in Callers : d # c => calls'[d] = calls[d]
    BY <1>4 DEF EmitNote, Return, TypeOK
  <2>4. OnItsWay(Awaited) => OnItsWay(Awaited)'
    BY <2>2, <2>3 DEF OnItsWay, IsAnswer
  <2>5. QED
    BY <2>2, <2>4, WakeStays DEF IsLive
<1>5. QED
  BY <1>1, <1>2, <1>3, <1>4, StoreWakes DEF CallStep

LEMMA BroadcastWakes ==
    ASSUME TypeOK, PubsubOK, WakeOK, NEW b \in broadcasts, Record(b) \/ Publish(b) \/ Lose(b),
           UNCHANGED storeVars
    PROVE  WakeOK'
<1>1. /\ UNCHANGED <<waits, listening, died, calls>> /\ (IsLive(Awaited)' <=> IsLive(Awaited))
      /\ mishaps \subseteq mishaps'
  BY DEF Record, Publish, Lose, pubsub, storeVars, entries, register, IsLive
<1>2. LiveTypeOK
  BY DEF TypeOK
<1>3. CASE Record(b)
  <2>1. PICK d : d = [b EXCEPT !.at = "publish"]
    OBVIOUS
  <2>2. d.event = b.event
    BY <1>2, <2>1 DEF LiveTypeOK, Broadcast
  <2>3. broadcasts' = (broadcasts \ {b}) \cup {d} /\ arriving' = arriving
    BY <1>3, <2>1 DEF Record, pubsub
  <2>4. OnItsWay(Awaited) => OnItsWay(Awaited)'
    BY <1>1, <2>2, <2>3 DEF OnItsWay, IsAnswer
  <2>5. QED
    BY <1>1, <2>4, WakeStays
<1>4. CASE Publish(b) /\ subscribed
  <2>1. PICK k : k = Len(arriving) + 1
    OBVIOUS
  <2>2. b.event \in Event /\ IsEvent(b.event)
    BY <1>2, EventNumbers, EventsAreNoAnswers DEF IsEvent
  <2>3. broadcasts' = broadcasts \ {b} /\ arriving' = Append(arriving, b.event)
    BY <1>4 DEF Publish
  <2>4. /\ k \in DOMAIN arriving' /\ arriving'[k] = b.event
        /\ \A i \in DOMAIN arriving : i \in DOMAIN arriving' /\ arriving'[i] = arriving[i]
    BY <1>2, <2>1, <2>2, <2>3, GrownAt
  <2>5. OnItsWay(Awaited) => OnItsWay(Awaited)'
    BY <1>1, <2>2, <2>3, <2>4 DEF OnItsWay, IsEvent, IsAnswer
  <2>6. QED
    BY <1>1, <2>5, WakeStays
<1>5. CASE Publish(b) /\ ~subscribed
  <2>1. \A w \in Waiters : ~IsAwaiting(w)
    BY <1>5 DEF WakeOK, PubsubOK, ServedOK, InUse, Listeners
  <2>2. QED
    BY <1>1, <2>1 DEF WakeOK, IsAwaiting
<1>6. CASE Lose(b)
  BY <1>1, <1>6 DEF Lose, WakeOK, IsAwaiting
<1>7. QED
  BY <1>3, <1>4, <1>5, <1>6

(* Commands, answers and other listeners.                                  *)
LEMMA AnswerWakes ==
    ASSUME TypeOK, WakeOK, Execute \/ TakeAnswer, UNCHANGED storeVars
    PROVE  WakeOK'
<1>1. /\ UNCHANGED <<waits, died, calls, broadcasts, mishaps>>
      /\ (IsLive(Awaited)' <=> IsLive(Awaited))
  BY DEF Execute, TakeAnswer, pubsub, storeVars, entries, register, IsLive
<1>2. LiveTypeOK
  BY DEF TypeOK
<1>3. CASE Execute
  <2>1. PICK k, m : k = Len(arriving) + 1 /\ m = Head(commands)
    OBVIOUS
  <2>2. commands # << >> /\ arriving' = Append(arriving, m) /\ listening' = listening
    BY <1>3, <2>1 DEF Execute
  <2>3. m \in Command
    BY <1>2, <2>1, <2>2, CommandTyped, TailAt
  <2>4. \A i \in DOMAIN arriving : i \in DOMAIN arriving' /\ arriving'[i] = arriving[i]
    BY <1>2, <2>1, <2>2, <2>3, GrownAt
  <2>5. OnItsWay(Awaited) => OnItsWay(Awaited)'
    BY <1>1, <2>4 DEF OnItsWay, IsAnswer
  <2>6. QED
    BY <1>1, <2>2, <2>5, WakeStays
<1>4. CASE TakeAnswer
  <2>1. /\ arriving # << >> /\ arriving' = Tail(arriving) /\ ~IsEvent(Head(arriving))
    BY <1>4 DEF TakeAnswer, IsEvent
  <2>2. /\ Head(arriving) = arriving[1]
        /\ \A i \in DOMAIN arriving : i # 1 =>
              \E j \in DOMAIN arriving' : arriving'[j] = arriving[i]
    BY <1>2, <2>1, TakenAt, ShiftedAt
  <2>3. OnItsWay(Awaited) => OnItsWay(Awaited)'
    BY <1>1, <2>1, <2>2 DEF OnItsWay, IsEvent, IsAnswer
  <2>4. \A x \in Listeners : listening[x] = "on" => listening'[x] = "on"
    <3>1. PICK l : l = Head(arriving).of
      OBVIOUS
    <3>2. \/ listening' = listening
          \/ listening' = [listening EXCEPT ![l] =
                              IF listening[l] = "subscribing" THEN "on" ELSE listening[l]]
      BY <1>4, <3>1 DEF TakeAnswer
    <3>3. QED
      BY <1>2, <3>2 DEF LiveTypeOK
  <2>5. QED
    BY <1>1, <2>3, <2>4 DEF WakeOK, IsAwaiting, Listeners
<1>5. QED
  BY <1>3, <1>4

LEMMA ListenerWakes ==
    ASSUME TypeOK, WakeOK, NEW l \in Listeners, l \in Waiters => waits[l].at \notin {"check", "race"},
           \/ Subscribe(l)
           \/ Unsubscribe(l)
           \/ /\ listening[l] = "subscribing" /\ listening' = [listening EXCEPT ![l] = "left"]
              /\ UNCHANGED arriving,
           UNCHANGED <<waits, died, calls, version, isDeleted, broadcasts, mishaps>>
    PROVE  WakeOK'
<1>1. \A x \in Listeners : listening'[x] = listening[x] \/ x = l
  BY DEF TypeOK, LiveTypeOK, Subscribe, Unsubscribe
<1>2. UNCHANGED arriving
  BY DEF Subscribe, Unsubscribe
<1>3. OnItsWay(Awaited) => OnItsWay(Awaited)'
  BY <1>2 DEF OnItsWay, IsAnswer
<1>4. IsLive(Awaited)' <=> IsLive(Awaited)
  BY DEF IsLive
<1>5. QED
  BY <1>1, <1>3, <1>4 DEF WakeOK, IsAwaiting, Listeners

LEMMA LiveWakes ==
    ASSUME TypeOK, PubsubOK, WakeOK, LiveStep, UNCHANGED storeVars
    PROVE  WakeOK'
<1>1. ASSUME NEW x \in Sockets, Connect(x) \/ OnClose(x)
      PROVE  WakeOK'
  <2>1. x \in Listeners /\ x \notin Waiters
    BY LiveConstants DEF Listeners
  <2>2. UNCHANGED <<waits, died, calls, version, isDeleted, broadcasts, mishaps>>
    BY <1>1 DEF Connect, OnClose, storeVars, entries, register
  <2>3. QED
    BY <1>1, <2>1, <2>2, ListenerWakes DEF Connect, OnClose
<1>2. CASE BufferLapse \/ Resync \/ Disconnect
  <2>1. /\ UNCHANGED <<waits, listening, died, calls, version, isDeleted, broadcasts, arriving>>
        /\ mishaps \subseteq mishaps'
    BY <1>2 DEF BufferLapse, Resync, Disconnect, pubsub, storeVars, entries, register
  <2>2. OnItsWay(Awaited) => OnItsWay(Awaited)'
    BY <2>1 DEF OnItsWay, IsAnswer
  <2>3. QED
    BY <2>1, <2>2, WakeStays DEF IsLive
<1>3. QED
  BY <1>1, <1>2, BroadcastWakes, AnswerWakes DEF LiveStep

LEMMA EventWakes ==
    ASSUME TypeOK, PubsubOK, WakeOK, HandleEvent
    PROVE  WakeOK'
<1>1. PICK m : m = Head(arriving)
  OBVIOUS
<1>2. /\ arriving # << >> /\ arriving' = Tail(arriving)
      /\ waits' = Woken(m)
      /\ UNCHANGED <<died, calls, version, isDeleted, broadcasts, listening, mishaps>>
  BY <1>1 DEF HandleEvent, TakeEvent, entries, register
<1>3. LiveTypeOK
  BY DEF TypeOK
<1>4. /\ m = arriving[1]
      /\ \A i \in DOMAIN arriving : i # 1 =>
            \E j \in DOMAIN arriving' : arriving'[j] = arriving[i]
  BY <1>1, <1>2, <1>3, TakenAt, ShiftedAt
<1>5. ASSUME NEW w \in Waiters
      PROVE  /\ waits'[w].at = waits[w].at
             /\ waits'[w].woken = (waits[w].woken \/ (w \in handlers /\ m.fullKey = Awaited))
  BY <1>2 DEF Woken, TypeOK
<1>6. m.fullKey # Awaited => (OnItsWay(Awaited) => OnItsWay(Awaited)')
  BY <1>2, <1>4 DEF OnItsWay, IsAnswer
<1>7. \A w \in Waiters : listening[w] = "on" => w \in handlers
  BY DEF PubsubOK, HandlersOK, Listeners
<1>8. IsLive(Awaited)' <=> IsLive(Awaited)
  BY <1>2 DEF IsLive
<1>9. QED
  BY <1>2, <1>5, <1>6, <1>7, <1>8 DEF WakeOK, IsAwaiting

LEMMA WaitWakes ==
    ASSUME TypeOK, WakeOK, NEW w \in Waiters, WaitStep(w)
    PROVE  WakeOK'
<1>1. w \in Listeners
  BY DEF Listeners
<1>2. CASE WaitBegin(w)
  <2>1. listening[w] = "new" /\ Subscribe(w)
    BY <1>2 DEF WaitBegin, Subscribe
  <2>2. waits[w].at \notin {"check", "race"}
    BY <2>1 DEF WakeOK, IsAwaiting
  <2>3. QED
    BY <1>1, <1>2, <2>1, <2>2, ListenerWakes DEF WaitBegin, storeVars, entries, register
<1>3. CASE WaitEnd(w)
  <2>1. waits[w].at \notin {"check", "race"}
    BY <1>3 DEF WaitEnd
  <2>2. QED
    BY <1>1, <1>3, <2>1, ListenerWakes DEF WaitEnd, storeVars, entries, register
<1>4. CASE WaitRead(w) \/ WaitCheck(w) \/ WaitWake(w)
  <2>1. /\ UNCHANGED <<died, calls, version, isDeleted, broadcasts, arriving, listening, mishaps>>
    BY <1>4 DEF WaitRead, WaitCheck, WaitWake, liveVars, pubsub, entries, register
  <2>2. \A v \in Waiters : v # w => waits'[v] = waits[v]
    BY <1>4 DEF WaitRead, WaitCheck, WaitWake, Race, TypeOK
  <2>3. (OnItsWay(Awaited) <=> OnItsWay(Awaited)') /\ (IsLive(Awaited)' <=> IsLive(Awaited))
    BY <2>1 DEF OnItsWay, IsLive, IsAnswer
  <2>4. IsAwaiting(w)' =>
           /\ listening[w] = "on"
           /\ (IsAwaiting(w) /\ (waits'[w].woken <=> waits[w].woken)) \/ ~IsLive(Awaited)
    <3>1. CASE WaitRead(w)
      BY <3>1 DEF WaitRead, IsAwaiting, TypeOK
    <3>2. CASE WaitCheck(w)
      <4>1. IsAwaiting(w) /\ listening[w] = "on"
        BY <3>2 DEF WaitCheck, IsAwaiting, WakeOK
      <4>2. waits'[w].woken = waits[w].woken
        BY <3>2 DEF WaitCheck, Race, TypeOK
      <4>3. QED
        BY <4>1, <4>2
    <3>3. CASE WaitWake(w)
      BY <3>3 DEF WaitWake, IsAwaiting, TypeOK
    <3>4. QED
      BY <1>4, <3>1, <3>2, <3>3
  <2>5. QED
    BY <2>1, <2>2, <2>3, <2>4 DEF WakeOK, IsAwaiting
<1>5. QED
  BY <1>2, <1>3, <1>4 DEF WaitStep

LEMMA WakeKeeps ==
    ASSUME TypeOK, PubsubOK, WakeOK, [Next]_vars
    PROVE  WakeOK'
<1>1. ASSUME UNCHANGED <<waits, liveVars, version, isDeleted>>,
             \/ UNCHANGED <<calls, died>>
             \/ died' > 0
             \/ \E c \in Callers, op \in OperationIds : Begin(c, op)
      PROVE  WakeOK'
  <2>1. UNCHANGED <<listening, mishaps, broadcasts, arriving>>
    BY <1>1 DEF liveVars, pubsub
  <2>2. CASE UNCHANGED <<calls, died>>
    <3>1. OnItsWay(Awaited) => OnItsWay(Awaited)'
      BY <2>1, <2>2 DEF OnItsWay, IsAnswer
    <3>2. QED
      BY <1>1, <2>1, <2>2, <3>1, WakeStays DEF IsLive
  <2>3. CASE died' > 0
    BY <1>1, <2>1, <2>3 DEF WakeOK, IsAwaiting
  <2>4. ASSUME NEW c \in Callers, NEW op \in OperationIds, Begin(c, op)
        PROVE  WakeOK'
    <3>1. calls[c].at = "idle" /\ UNCHANGED died
      BY <2>4 DEF Begin, Idle
    <3>2. \A d \in Callers : d # c => calls'[d] = calls[d]
      BY <2>4 DEF Begin, TypeOK
    <3>3. QED
      BY <1>1, <3>1, <3>2, WakeGoesOn DEF IsLive
  <2>5. QED
    BY <1>1, <2>2, <2>3, <2>4
<1>2. ASSUME NEW c \in Callers, Die(c)
      PROVE  WakeOK'
  <2>1. died' > 0
    BY <1>2 DEF Die, TypeOK
  <2>2. QED
    BY <1>1, <1>2, <2>1 DEF Die, entries, register
<1>3. ASSUME NEW c \in Callers, NEW op \in OperationIds, Begin(c, op)
      PROVE  WakeOK'
  BY <1>1, <1>3 DEF Begin, entries, register
<1>4. ASSUME NEW e \in embeddings, Upsert(e) \/ FailToIndex(e)
      PROVE  WakeOK'
  BY <1>1, <1>4 DEF Upsert, FailToIndex, entries, register
<1>5. CASE UNCHANGED vars
  BY <1>1, <1>5 DEF vars, storeVars, entries, register
<1>6. QED
  BY <1>2, <1>3, <1>4, <1>5, CallWakes, WaitWakes, EventWakes, LiveWakes DEF Next

(* A call of awaitKey that waits for a key which is there has an event of  *)
(* it to come, whoever writes and deletes the key meanwhile.               *)
THEOREM WakeupsAreNotLost == Spec => []WakeupIsNotLost
<1>1. Init => WakeOK
  BY DEF Init, WakeOK, IsAwaiting
<1>2. Spec => []WakeOK
  BY <1>1, WakeKeeps, StoreTypeCorrect, PubsubHolds, PTL DEF Spec
<1>3. WakeOK => WakeupIsNotLost
  BY DEF WakeOK, IsAwaiting, WakeupIsNotLost
<1>4. QED
  BY <1>2, <1>3, PTL

-----------------------------------------------------------------------------
(* The entry cap.  A call that may store counts as the key it may bring,   *)
(* from the moment it read a set below the cap: that set and one key for   *)
(* each caller bound what all of them leave behind.                        *)

AtStore == {c \in Callers : calls[c].at = "store"}
Coming  == {KeyOf(calls[c].op) : c \in AtStore}
Kept    == (index \cup Coming) \ Incremented

KeysOK ==
    /\ \A k \in FullKeys : version[k] > 0 => k \in index
    /\ \A c \in Callers : calls[c].at = "tombstone" => KeyOf(calls[c].op) \in index
    /\ \A c \in Callers : calls[c].at # "idle" => c \in setting.callers

CapOK ==
    /\ IsFiniteSet(index)
    /\ setting.cap > 0 =>
          IsFiniteSet(Kept) /\ Cardinality(Kept) < setting.cap + Cardinality(setting.callers)

LEMMA SettingTyped ==
    ASSUME TypeOK
    PROVE  /\ setting.cap \in Nat /\ setting.callers \subseteq Callers
           /\ IsFiniteSet(setting.callers) /\ Cardinality(setting.callers) \in Nat
<1>1. setting.cap \in Nat /\ setting.callers \subseteq Callers
  BY DEF TypeOK, Setting
<1>2. IsFiniteSet(setting.callers)
  BY <1>1, StoreSettings, FS_Subset
<1>3. QED
  BY <1>1, <1>2, FS_CardinalityType

LEMMA ComingBound ==
    TypeOK /\ KeysOK =>
        IsFiniteSet(Coming) /\ Cardinality(Coming) <= Cardinality(setting.callers)
<1>1. SUFFICES ASSUME TypeOK, KeysOK
               PROVE  IsFiniteSet(Coming) /\ Cardinality(Coming) <= Cardinality(setting.callers)
  OBVIOUS
<1>2. AtStore \subseteq setting.callers
  BY <1>1 DEF AtStore, KeysOK
<1>3. IsFiniteSet(AtStore) /\ Cardinality(AtStore) <= Cardinality(setting.callers)
  BY <1>1, <1>2, SettingTyped, FS_Subset
<1>4. PICK f : f = [c \in AtStore |-> KeyOf(calls[c].op)]
  OBVIOUS
<1>5. f \in Surjection(AtStore, Coming)
  BY <1>4 DEF Coming, Surjection
<1>6. IsFiniteSet(Coming) /\ Cardinality(Coming) <= Cardinality(AtStore)
  BY <1>3, <1>5, FS_Surjection
<1>7. /\ Cardinality(Coming) \in Nat /\ Cardinality(AtStore) \in Nat
      /\ Cardinality(setting.callers) \in Nat
  BY <1>1, <1>3, <1>6, SettingTyped, FS_CardinalityType
<1>8. QED
  BY <1>3, <1>6, <1>7

(* Nothing comes that was not coming.                                      *)
LEMMA CapShrinks ==
    ASSUME TypeOK, CapOK, setting' = setting, IsFiniteSet(index'), Kept' \subseteq Kept
    PROVE  CapOK'
<1>1. PICK K : K = Kept'
  OBVIOUS
<1>2. ASSUME setting.cap > 0
      PROVE  IsFiniteSet(K) /\ Cardinality(K) < setting.cap + Cardinality(setting.callers)
  <2>1. IsFiniteSet(Kept) /\ Cardinality(Kept) < setting.cap + Cardinality(setting.callers)
    BY <1>2 DEF CapOK
  <2>2. IsFiniteSet(K) /\ Cardinality(K) <= Cardinality(Kept)
    BY <1>1, <2>1, FS_Subset
  <2>3. Cardinality(K) \in Nat /\ Cardinality(Kept) \in Nat
    BY <2>1, <2>2, FS_CardinalityType
  <2>4. QED
    BY <2>1, <2>2, <2>3, SettingTyped
<1>3. QED
  BY <1>1, <1>2 DEF CapOK

LEMMA CapStays ==
    ASSUME TypeOK, CapOK, KeysOK, UNCHANGED <<setting, calls, version, index>>
    PROVE  CapOK' /\ KeysOK'
BY DEF CapOK, KeysOK, Kept, Coming, AtStore, Incremented, KeyOf, KindOf

(* Calls that do not come to the store.                                    *)
LEMMA CapGoesOn ==
    ASSUME TypeOK, CapOK, UNCHANGED <<setting, index>>, NEW c \in Callers,
           \A d \in Callers : d # c => calls'[d] = calls[d],
           \/ calls'[c].at # "store"
           \/ KeyOf(calls'[c].op) \in index \cup Incremented
    PROVE  CapOK'
<1>1. UNCHANGED Incremented
  BY DEF Incremented, KeyOf, KindOf
<1>2. ASSUME NEW k \in Coming'
      PROVE  k \in Coming \cup index \cup Incremented
  <2>1. PICK d \in Callers : calls'[d].at = "store" /\ k = KeyOf(calls'[d].op)
    BY <1>2 DEF Coming, AtStore, KeyOf
  <2>2. CASE d = c
    BY <2>1, <2>2
  <2>3. CASE d # c
    BY <2>1, <2>3 DEF Coming, AtStore
  <2>4. QED
    BY <2>2, <2>3
<1>3. Kept' \subseteq Kept
  BY <1>1, <1>2 DEF Kept
<1>4. QED
  BY <1>3, CapShrinks DEF CapOK

LEMMA CountCap ==
    ASSUME TypeOK, TypeOK', CapOK, KeysOK', NEW c \in Callers, AssertCount(c)
    PROVE  CapOK'
<1>1. /\ calls[c].at = "count" /\ UNCHANGED <<setting, index>>
      /\ \A d \in Callers : d # c => calls'[d] = calls[d]
  BY DEF AssertCount, GoTo, Return, TypeOK, entries
<1>2. CASE AtCap
  <2>1. calls'[c].at # "store"
    BY <1>2 DEF AssertCount, Return, Idle, TypeOK
  <2>2. QED
    BY <1>1, <2>1, CapGoesOn
<1>3. CASE ~AtCap
  <2>1. (TypeOK /\ KeysOK =>
            IsFiniteSet(Coming) /\ Cardinality(Coming) <= Cardinality(setting.callers))'
    BY ComingBound, PTL
  <2>2. PICK C, K, n : C = Coming' /\ K = Kept' /\ n = Cardinality(setting.callers)
    OBVIOUS
  <2>3. IsFiniteSet(C) /\ Cardinality(C) <= n
    BY <1>1, <2>1, <2>2
  <2>4. ASSUME setting.cap > 0
        PROVE  IsFiniteSet(K) /\ Cardinality(K) < setting.cap + n
    <3>1. IsFiniteSet(index) /\ ~(Cardinality(index) >= setting.cap)
      BY <1>3 DEF CapOK, AtCap
    <3>2. IsFiniteSet(index \cup C) /\ IsFiniteSet(index \cap C)
          /\ Cardinality(index \cup C) = Cardinality(index) + Cardinality(C) - Cardinality(index \cap C)
      BY <2>3, <3>1, FS_Union, FS_Subset
    <3>3. K \in SUBSET (index \cup C)
      BY <1>1, <2>2 DEF Kept
    <3>4. IsFiniteSet(K) /\ Cardinality(K) <= Cardinality(index \cup C)
      BY <3>2, <3>3, FS_Subset
    <3>5. /\ Cardinality(K) \in Nat /\ Cardinality(index) \in Nat /\ Cardinality(C) \in Nat
          /\ Cardinality(index \cap C) \in Nat /\ Cardinality(index \cup C) \in Nat
      BY <2>3, <3>1, <3>2, <3>4, FS_CardinalityType
    <3>6. n \in Nat /\ setting.cap \in Nat
      BY <2>2, SettingTyped
    <3>7. QED
      BY <2>3, <3>1, <3>2, <3>4, <3>5, <3>6
  <2>5. QED
    BY <1>1, <2>2, <2>4 DEF CapOK
<1>4. QED
  BY <1>2, <1>3

LEMMA GoToIs ==
    ASSUME TypeOK, NEW c \in Callers, calls[c].at # "idle", NEW at, GoTo(c, at)
    PROVE  /\ calls'[c].at = at /\ calls'[c].op = calls[c].op
           /\ \A d \in Callers : d # c => calls'[d] = calls[d]
<1>1. calls'[c] = [calls[c] EXCEPT !.at = at] /\ \A d \in Callers : d # c => calls'[d] = calls[d]
  BY DEF GoTo, TypeOK
<1>2. calls[c] \in Call
  BY CallTyped
<1>3. CASE calls[c] \in [at : {"has", "count", "store", "get", "tombstone"}, op : OperationIds]
  BY <1>1, <1>3
<1>4. CASE calls[c] \in [at : {"audit", "emit"}, op : OperationIds, note : Note]
  BY <1>1, <1>4
<1>5. QED
  BY <1>2, <1>3, <1>4 DEF Call

LEMMA TellIs ==
    ASSUME TypeOK, NEW c \in Callers, NEW event, NEW v, Tell(c, event, v)
    PROVE  /\ calls'[c].at = "audit" /\ calls'[c].op = calls[c].op
           /\ calls'[c].note = [event |-> event, op |-> calls[c].op,
                                fullKey |-> KeyOf(calls[c].op), version |-> v]
           /\ \A d \in Callers : d # c => calls'[d] = calls[d]
BY DEF Tell, TypeOK

LEMMA ReturnIs ==
    ASSUME TypeOK, NEW c \in Callers, Return(c)
    PROVE  /\ calls'[c] = Idle /\ calls'[c].at = "idle"
           /\ \A d \in Callers : d # c => calls'[d] = calls[d]
BY DEF Return, Idle, TypeOK

LEMMA StoreCap ==
    ASSUME TypeOK, CapOK, KeysOK, NEW c \in Callers, Store(c) \/ DeleteStore(c)
    PROVE  CapOK'
<1>1. PICK op, k : op = calls[c].op /\ k = KeyOf(op)
  OBVIOUS
<1>2. /\ setting' = setting /\ calls'[c].at # "store"
      /\ \A d \in Callers : d # c => calls'[d] = calls[d]
  BY TellIs, ReturnIs DEF Store, DeleteStore, ReplayEnds
<1>3. CASE index' = index
  BY <1>2, <1>3, CapGoesOn
<1>4. CASE index' = index \cup {k} /\ calls[c].at = "tombstone"
  <2>1. index' = index
    BY <1>1, <1>4 DEF KeysOK
  <2>2. QED
    BY <1>2, <2>1, CapGoesOn
<1>5. CASE index' = index \cup {k} /\ calls[c].at = "store"
  <2>1. k \in Coming
    BY <1>1, <1>5 DEF Coming, AtStore
  <2>2. Coming' \subseteq Coming
    BY <1>2 DEF Coming, AtStore, KeyOf
  <2>3. Incremented' = Incremented
    BY <1>2 DEF Incremented, KeyOf, KindOf
  <2>4. Kept' \subseteq Kept
    BY <1>5, <2>1, <2>2, <2>3 DEF Kept
  <2>5. IsFiniteSet(index')
    BY <1>5, FS_AddElement DEF CapOK
  <2>6. QED
    BY <1>2, <2>4, <2>5, CapShrinks
<1>6. QED
  BY <1>1, <1>3, <1>4, <1>5 DEF Store, DeleteStore, Stores, entries

LEMMA BeginCap ==
    ASSUME TypeOK, CapOK, NEW c \in Callers, NEW op \in OperationIds, Begin(c, op)
    PROVE  CapOK'
<1>1. /\ UNCHANGED <<setting, index>> /\ \A d \in Callers : d # c => calls'[d] = calls[d]
      /\ calls'[c] = [at |-> FirstStep(op), op |-> op]
  BY DEF Begin, TypeOK, entries
<1>2. CASE setting.cap = 0
  BY <1>1, <1>2 DEF CapOK
<1>3. CASE setting.cap # 0
  <2>1. FirstStep(op) # "store" \/ KindOf(op) = "increment"
    BY <1>3, RequestTyped DEF FirstStep, Kinds
  <2>2. KindOf(op) = "increment" => KeyOf(op) \in Incremented
    BY DEF Incremented
  <2>3. QED
    BY <1>1, <2>1, <2>2, CapGoesOn
<1>4. QED
  BY <1>2, <1>3

LEMMA CallKeys ==
    ASSUME TypeOK, KeysOK, NEW c \in Callers, CallStep(c) \/ Die(c) \/ \E op \in OperationIds : Begin(c, op)
    PROVE  KeysOK'
<1>1. /\ setting' = setting /\ \A d \in Callers : d # c => calls'[d] = calls[d]
      /\ c \in setting.callers
  <2>1. \A d \in Callers : d # c => calls'[d] = calls[d]
    BY DEF CallStep, Die, Begin, AssertHas, AssertCount, Store, DeleteGet, DeleteStore,
           AppendAudit, EmitNote, GoTo, Tell, ReplayEnds, Return, TypeOK
  <2>2. setting' = setting
    BY DEF CallStep, Die, Begin, AssertHas, AssertCount, Store, DeleteGet, DeleteStore,
           AppendAudit, EmitNote
  <2>3. calls[c].at # "idle" => c \in setting.callers
    BY DEF KeysOK
  <2>4. calls[c] # Idle => calls[c].at # "idle"
    BY CallTyped
  <2>5. QED
    BY <2>1, <2>2, <2>3, <2>4
       DEF CallStep, Die, Begin, AssertHas, AssertCount, Store, DeleteGet, DeleteStore,
           AppendAudit, EmitNote
<1>2. index \subseteq index' /\ \A k \in FullKeys : version'[k] > 0 => k \in index'
  <2>1. CASE UNCHANGED entries
    BY <2>1 DEF entries, register, KeysOK
  <2>2. ASSUME NEW k \in FullKeys, NEW op, NEW deleted, Stores(k, op, deleted)
        PROVE  index \subseteq index' /\ \A x \in FullKeys : version'[x] > 0 => x \in index'
    BY <2>2 DEF Stores, Storage!Commit, KeysOK, TypeOK
  <2>3. ASSUME Store(c) \/ DeleteStore(c)
        PROVE  KeyOf(calls[c].op) \in FullKeys
    BY <2>3, CallTyped, RequestTyped DEF Store, DeleteStore
  <2>4. CASE Store(c)
    BY <2>1, <2>2, <2>3, <2>4 DEF Store
  <2>5. CASE DeleteStore(c)
    BY <2>1, <2>2, <2>3, <2>5 DEF DeleteStore
  <2>6. CASE EmitNote(c)
    BY <2>6 DEF EmitNote, entries, register, KeysOK
  <2>7. QED
    BY <2>1, <2>4, <2>5, <2>6
       DEF CallStep, Die, Begin, AssertHas, AssertCount, DeleteGet, AppendAudit
<1>3. calls'[c].at = "tombstone" => KeyOf(calls'[c].op) \in index
  <2>1. CASE DeleteGet(c)
    <3>1. KeyOf(calls[c].op) \in FullKeys
      BY <2>1, CallTyped, RequestTyped DEF DeleteGet
    <3>2. CASE IsLive(KeyOf(calls[c].op))
      <4>1. calls'[c].op = calls[c].op
        BY <2>1, <3>2, GoToIs DEF DeleteGet
      <4>2. QED
        BY <3>1, <3>2, <4>1 DEF KeysOK, IsLive
    <3>3. CASE ~IsLive(KeyOf(calls[c].op))
      BY <2>1, <3>3, ReturnIs DEF DeleteGet
    <3>4. QED
      BY <3>2, <3>3
  <2>2. ASSUME ~DeleteGet(c)
        PROVE  calls'[c].at # "tombstone"
    <3>1. ASSUME NEW op \in OperationIds, Begin(c, op)
          PROVE  calls'[c].at # "tombstone"
      <4>1. calls'[c].at = FirstStep(op)
        BY <3>1 DEF Begin, TypeOK
      <4>2. FirstStep(op) \in {"store", "has", "get"}
        BY RequestTyped DEF FirstStep, Kinds
      <4>3. QED
        BY <4>1, <4>2
    <3>2. CASE AssertHas(c)
      BY <3>2, GoToIs DEF AssertHas
    <3>3. CASE AssertCount(c) \/ AppendAudit(c)
      BY <3>3, GoToIs, ReturnIs DEF AssertCount, AppendAudit
    <3>4. CASE Store(c) \/ DeleteStore(c)
      BY <3>4, TellIs, ReturnIs DEF Store, DeleteStore, ReplayEnds
    <3>5. CASE EmitNote(c) \/ Die(c)
      BY <3>5, ReturnIs DEF EmitNote, Die
    <3>6. QED
      BY <2>2, <3>1, <3>2, <3>3, <3>4, <3>5 DEF CallStep
  <2>3. QED
    BY <2>1, <2>2
<1>4. QED
  BY <1>1, <1>2, <1>3 DEF KeysOK, KeyOf

LEMMA CapKeeps ==
    ASSUME TypeOK, CapOK, KeysOK, [Next]_vars
    PROVE  CapOK' /\ KeysOK'
<1>1. ASSUME NEW c \in Callers, CallStep(c) \/ Die(c)
      PROVE  CapOK'
  <2>1. KeysOK' /\ TypeOK'
    <3>1. Next
      BY <1>1 DEF Next
    <3>2. QED
      BY <1>1, <3>1, CallKeys, NextTyped
  <2>2. \A d \in Callers : d # c => calls'[d] = calls[d]
    BY <1>1 DEF CallStep, Die, AssertHas, AssertCount, Store, DeleteGet, DeleteStore,
           AppendAudit, EmitNote, GoTo, Tell, ReplayEnds, Return, TypeOK
  <2>3. CASE AssertHas(c)
    <3>1. \/ calls'[c].at # "store"
          \/ calls'[c].op = calls[c].op /\ KeyOf(calls[c].op) \in index
      BY <2>3, GoToIs DEF AssertHas
    <3>2. QED
      BY <2>2, <2>3, <3>1, CapGoesOn DEF AssertHas, entries
  <2>4. CASE DeleteGet(c) \/ AppendAudit(c) \/ EmitNote(c) \/ Die(c)
    <3>1. calls'[c].at # "store"
      BY <2>4, GoToIs, ReturnIs DEF DeleteGet, AppendAudit, EmitNote, Die
    <3>2. UNCHANGED <<setting, index>>
      BY <2>4 DEF DeleteGet, AppendAudit, EmitNote, Die, entries
    <3>3. QED
      BY <2>2, <3>1, <3>2, CapGoesOn
  <2>5. QED
    BY <1>1, <2>1, <2>3, <2>4, CountCap, StoreCap DEF CallStep
<1>2. ASSUME NEW c \in Callers, NEW op \in OperationIds, Begin(c, op)
      PROVE  CapOK'
  BY <1>2, BeginCap
<1>3. ASSUME UNCHANGED <<setting, calls, version, index>>
      PROVE  CapOK' /\ KeysOK'
  BY <1>3, CapStays
<1>4. QED
  BY <1>1, <1>2, <1>3, CallKeys
     DEF Next, vars, storeVars, entries, register, Upsert, FailToIndex, WaitStep, WaitBegin,
         WaitRead, WaitCheck, WaitWake, WaitEnd, HandleEvent

(* The writes and appends of n callers leave at most n - 1 keys more than  *)
(* the entry cap allows, however many they make and however they overlap.  *)
THEOREM CapIsKept == Spec => []CapHolds
<1>1. Init => CapOK /\ KeysOK
  <2>1. SUFFICES ASSUME Init
                 PROVE  CapOK /\ KeysOK
    OBVIOUS
  <2>2. /\ index = {} /\ setting \in Setting /\ \A k \in FullKeys : version[k] = 0
        /\ \A c \in Callers : calls[c].at = "idle"
    BY <2>1, StoreSettings DEF Init, Storage!Init, Idle
  <2>3. Kept = {}
    BY <2>2 DEF Kept, Coming, AtStore
  <2>4. setting.cap \in Nat /\ Cardinality(setting.callers) \in Nat
    <3>1. setting.cap \in Nat /\ setting.callers \subseteq Callers
      BY <2>2 DEF Setting
    <3>2. QED
      BY <3>1, StoreSettings, FS_Subset, FS_CardinalityType
  <2>5. CapOK
    BY <2>2, <2>3, <2>4, FS_EmptySet DEF CapOK
  <2>6. KeysOK
    BY <2>2 DEF KeysOK
  <2>7. QED
    BY <2>5, <2>6
<1>2. Spec => [](TypeOK /\ CapOK)
  BY <1>1, CapKeeps, StoreTypeCorrect, PTL DEF Spec
<1>3. TypeOK /\ CapOK => CapHolds
  <2>1. SUFFICES ASSUME TypeOK, CapOK, setting.cap > 0
                 PROVE  Cardinality(index \ Incremented) < setting.cap + Cardinality(setting.callers)
    BY DEF CapHolds
  <2>2. PICK K, I : K = Kept /\ I = index \ Incremented
    OBVIOUS
  <2>3. IsFiniteSet(K) /\ Cardinality(K) < setting.cap + Cardinality(setting.callers)
    BY <2>1, <2>2 DEF CapOK
  <2>4. IsFiniteSet(I) /\ Cardinality(I) <= Cardinality(K)
    BY <2>2, <2>3, FS_Subset DEF Kept
  <2>5. /\ Cardinality(I) \in Nat /\ Cardinality(K) \in Nat /\ setting.cap \in Nat
        /\ Cardinality(setting.callers) \in Nat
    BY <2>1, <2>3, <2>4, FS_CardinalityType, SettingTyped
  <2>6. QED
    BY <2>2, <2>3, <2>4, <2>5
<1>4. QED
  BY <1>2, <1>3, PTL

-----------------------------------------------------------------------------
(* What follows a commit.  First the audit: the versions of a key are told *)
(* apart by their numbers, which only grow.                                *)

IsCommit(n) == n.event # "CTX_CONFLICT"
Alike(n, m) == IsCommit(n) /\ IsCommit(m) /\ n.fullKey = m.fullKey /\ n.version = m.version
Audits(c)   == calls[c].at = "audit"

ToldOnce ==
    /\ \A i, j \in DOMAIN trail : Alike(trail[i], trail[j]) => i = j
    /\ \A c, d \in Callers :
          Audits(c) /\ Audits(d) /\ Alike(calls[c].note, calls[d].note) => c = d
    /\ \A i \in DOMAIN trail, c \in Callers : Audits(c) => ~Alike(trail[i], calls[c].note)

ToldAsMade ==
    /\ \A i \in DOMAIN trail :
          IsCommit(trail[i]) => trail[i].version <= version[trail[i].fullKey]
    /\ \A c \in Callers :
          Audits(c) /\ IsCommit(calls[c].note) => calls[c].note.version <= version[calls[c].note.fullKey]

IsTelling(k, v) ==
    \/ \E i \in DOMAIN trail : Tells(trail[i], k, v)
    \/ \E c \in Callers : Audits(c) /\ Tells(calls[c].note, k, v)
ToldAll == died = 0 => \A k \in FullKeys : \A v \in 1 .. version[k] : IsTelling(k, v)

AuditOK == ToldOnce /\ ToldAsMade /\ ToldAll

LEMMA NotesTyped ==
    ASSUME TypeOK
    PROVE  /\ \A i \in DOMAIN trail : trail[i] \in Note /\ trail[i].fullKey \in FullKeys
                                      /\ trail[i].version \in Nat
           /\ \A c \in Callers : calls[c].at \in {"audit", "emit"} =>
                 /\ calls[c].note \in Note /\ calls[c].note.fullKey \in FullKeys
                 /\ calls[c].note.version \in Nat
           /\ \A k \in FullKeys : version[k] \in Nat
<1>1. \A n \in Note : n.fullKey \in FullKeys /\ n.version \in Nat
  BY DEF Note
<1>2. \A i \in DOMAIN trail : trail[i] \in Note
  BY DEF TypeOK
<1>3. \A c \in Callers : calls[c].at \in {"audit", "emit"} => calls[c].note \in Note
  BY CallTyped
<1>4. QED
  BY <1>1, <1>2, <1>3 DEF TypeOK

(* Steps that append nothing and tell no commit.                           *)
LEMMA AuditStays ==
    ASSUME TypeOK, AuditOK, UNCHANGED <<trail, version>>,
           \A c \in Callers : Audits(c)' =>
               \/ Audits(c) /\ calls'[c].note = calls[c].note
               \/ ~IsCommit(calls'[c].note),
           \/ died' > 0
           \/ /\ died' = died
              /\ \A c \in Callers : Audits(c) => Audits(c)' /\ calls'[c].note = calls[c].note
    PROVE  AuditOK'
<1>1. ToldOnce'
  BY DEF AuditOK, ToldOnce, Audits, Alike, IsCommit
<1>2. ToldAsMade'
  BY DEF AuditOK, ToldAsMade, Audits, IsCommit
<1>3. ToldAll'
  <2>1. CASE died' > 0
    BY <2>1 DEF ToldAll
  <2>2. CASE /\ died' = died
             /\ \A c \in Callers : Audits(c) => Audits(c)' /\ calls'[c].note = calls[c].note
    <3>1. \A k, v : IsTelling(k, v) => IsTelling(k, v)'
      BY <2>2 DEF IsTelling, Audits, Tells
    <3>2. QED
      BY <2>2, <3>1 DEF AuditOK, ToldAll
  <2>3. QED
    BY <2>1, <2>2
<1>4. QED
  BY <1>1, <1>2, <1>3 DEF AuditOK

LEMMA CommitAudit ==
    ASSUME TypeOK, AuditOK, NEW c \in Callers, NEW op \in OperationIds, NEW k \in FullKeys,
           calls[c].at \in {"store", "tombstone"}, calls[c].op = op, KeyOf(op) = k,
           NEW event \in {"CTX_WRITE", "CTX_DELETE"}, NEW deleted \in BOOLEAN,
           Stores(k, op, deleted), Tell(c, event, version'[k]), UNCHANGED <<trail, died>>
    PROVE  AuditOK'
<1>1. PICK n : n = calls'[c].note
  OBVIOUS
<1>2. PICK new : new = version[k] + 1
  OBVIOUS
<1>3. /\ new \in Nat /\ version'[k] = new
      /\ \A x \in FullKeys : version'[x] = IF x = k THEN new ELSE version[x]
  BY <1>2, StoresTyped, SMTT(30) DEF TypeOK
<1>4. /\ Audits(c)' /\ IsCommit(n) /\ n.fullKey = k /\ n.version = new
      /\ \A d \in Callers : d # c => calls'[d] = calls[d]
  <2>1. n = [event |-> event, op |-> op, fullKey |-> k, version |-> new]
    BY <1>1, <1>3, TellIs
  <2>2. calls'[c].at = "audit" /\ \A d \in Callers : d # c => calls'[d] = calls[d]
    BY TellIs
  <2>3. QED
    BY <2>1, <2>2 DEF Audits, IsCommit
<1>5. ~Audits(c)
  BY DEF Audits
<1>6. \A x \in FullKeys : version[x] \in Nat /\ version[x] <= version'[x]
  BY <1>2, <1>3, NotesTyped
<1>7. ~(new <= version[k])
  BY <1>2, NotesTyped
<1>8. /\ \A i \in DOMAIN trail : ~Alike(trail[i], n) /\ ~Alike(n, trail[i])
      /\ \A d \in Callers : Audits(d) => ~Alike(calls[d].note, n) /\ ~Alike(n, calls[d].note)
  BY <1>4, <1>7 DEF AuditOK, ToldAsMade, Alike
<1>9. \A d \in Callers : Audits(d)' => (d # c /\ Audits(d) /\ calls'[d].note = calls[d].note) \/ d = c
  BY <1>4 DEF Audits
<1>10. ToldOnce'
  <2>1. \A i, j \in DOMAIN trail' : Alike(trail'[i], trail'[j]) => i = j
    BY DEF AuditOK, ToldOnce
  <2>2. \A d, e \in Callers :
           Audits(d)' /\ Audits(e)' /\ Alike(calls'[d].note, calls'[e].note) => d = e
    BY <1>1, <1>8, <1>9 DEF AuditOK, ToldOnce
  <2>3. \A i \in DOMAIN trail', d \in Callers : Audits(d)' => ~Alike(trail'[i], calls'[d].note)
    BY <1>1, <1>8, <1>9 DEF AuditOK, ToldOnce
  <2>4. QED
    BY <2>1, <2>2, <2>3 DEF ToldOnce, Alike, IsCommit
<1>11. ToldAsMade'
  <2>1. \A i \in DOMAIN trail' :
           IsCommit(trail'[i]) => trail'[i].version <= version'[trail'[i].fullKey]
    <3>1. ASSUME NEW i \in DOMAIN trail, IsCommit(trail[i])
          PROVE  trail[i].version <= version'[trail[i].fullKey]
      <4>1. trail[i].version <= version[trail[i].fullKey]
        BY <3>1 DEF AuditOK, ToldAsMade
      <4>2. /\ trail[i].version \in Nat /\ version[trail[i].fullKey] \in Nat
            /\ version[trail[i].fullKey] <= version'[trail[i].fullKey]
            /\ version'[trail[i].fullKey] \in Nat
        BY <1>3, <1>6, NotesTyped
      <4>3. QED
        BY <4>1, <4>2
    <3>2. QED
      BY <3>1
  <2>2. \A d \in Callers : Audits(d)' /\ IsCommit(calls'[d].note) =>
           calls'[d].note.version <= version'[calls'[d].note.fullKey]
    <3>1. ASSUME NEW d \in Callers, Audits(d), IsCommit(calls[d].note)
          PROVE  calls[d].note.version <= version'[calls[d].note.fullKey]
      <4>1. calls[d].note.version <= version[calls[d].note.fullKey]
        BY <3>1 DEF AuditOK, ToldAsMade
      <4>2. /\ calls[d].note.version \in Nat /\ version[calls[d].note.fullKey] \in Nat
            /\ version[calls[d].note.fullKey] <= version'[calls[d].note.fullKey]
            /\ version'[calls[d].note.fullKey] \in Nat
        BY <1>3, <1>6, <3>1, NotesTyped DEF Audits
      <4>3. QED
        BY <4>1, <4>2
    <3>2. new <= new
      BY <1>3
    <3>3. QED
      BY <1>1, <1>3, <1>4, <1>9, <3>1, <3>2
  <2>3. QED
    BY <2>1, <2>2 DEF ToldAsMade, IsCommit
<1>12. ToldAll'
  <2>1. \A x, v : IsTelling(x, v) => IsTelling(x, v)'
    BY <1>4, <1>5 DEF IsTelling, Audits, Tells
  <2>2. IsTelling(k, new)'
    BY <1>1, <1>4 DEF IsTelling, Audits, Tells, IsCommit
  <2>3. \A v \in 1 .. new : v \in 1 .. version[k] \/ v = new
    BY <1>2, NotesTyped
  <2>4. QED
    BY <1>3, <2>1, <2>2, <2>3 DEF AuditOK, ToldAll
<1>13. QED
  BY <1>10, <1>11, <1>12 DEF AuditOK

LEMMA AppendAuditIs ==
    ASSUME TypeOK, AuditOK, NEW c \in Callers, AppendAudit(c)
    PROVE  AuditOK'
<1>1. PICK n, l : n = calls[c].note /\ l = Len(trail) + 1
  OBVIOUS
<1>2. /\ Audits(c) /\ trail' = Append(trail, n) /\ ~Audits(c)'
      /\ \A d \in Callers : d # c => calls'[d] = calls[d]
      /\ UNCHANGED <<version, died>>
  BY <1>1, GoToIs DEF AppendAudit, Audits, entries, register
<1>3. /\ DOMAIN trail = 1 .. l - 1 /\ DOMAIN trail' = 1 .. l /\ l \in Nat \ {0}
      /\ \A i \in 1 .. l - 1 : trail'[i] = trail[i]
      /\ trail'[l] = n
  <2>1. trail \in Seq(Note) /\ n \in Note
    BY <1>1, <1>2, NotesTyped DEF TypeOK, Audits
  <2>2. QED
    BY <1>1, <1>2, <2>1, AppendAt
<1>4. /\ \A i \in DOMAIN trail' :
            (i \in DOMAIN trail /\ trail'[i] = trail[i]) \/ (i = l /\ trail'[i] = n)
      /\ l \in DOMAIN trail'
      /\ \A i \in DOMAIN trail : i \in DOMAIN trail' /\ trail'[i] = trail[i]
  <2>1. \A i \in 1 .. l : i \in 1 .. l - 1 \/ i = l
    BY <1>3
  <2>2. \A i \in 1 .. l - 1 : i \in 1 .. l
    BY <1>3
  <2>3. l \in 1 .. l
    BY <1>3
  <2>4. QED
    BY <1>3, <2>1, <2>2, <2>3
<1>5. \A d \in Callers : Audits(d)' => d # c /\ Audits(d) /\ calls'[d].note = calls[d].note
  BY <1>2 DEF Audits
<1>6. ToldOnce'
  <2>1. \A i \in DOMAIN trail : ~Alike(trail[i], n) /\ ~Alike(n, trail[i])
    BY <1>1, <1>2 DEF AuditOK, ToldOnce, Alike
  <2>2. \A i, j \in DOMAIN trail' : Alike(trail'[i], trail'[j]) => i = j
    BY <1>4, <2>1 DEF AuditOK, ToldOnce
  <2>3. \A d, e \in Callers :
           Audits(d)' /\ Audits(e)' /\ Alike(calls'[d].note, calls'[e].note) => d = e
    BY <1>5 DEF AuditOK, ToldOnce
  <2>4. \A d \in Callers : Audits(d)' => ~Alike(n, calls'[d].note)
    BY <1>1, <1>2, <1>5 DEF AuditOK, ToldOnce
  <2>5. \A i \in DOMAIN trail', d \in Callers : Audits(d)' => ~Alike(trail'[i], calls'[d].note)
    BY <1>4, <1>5, <2>4 DEF AuditOK, ToldOnce
  <2>6. QED
    BY <2>2, <2>3, <2>5 DEF ToldOnce, Alike, IsCommit
<1>7. ToldAsMade'
  BY <1>1, <1>2, <1>4, <1>5 DEF AuditOK, ToldAsMade, IsCommit
<1>8. ToldAll'
  <2>1. \A k, v : IsTelling(k, v) => IsTelling(k, v)'
    <3>1. \A k, v : Tells(n, k, v) => IsTelling(k, v)'
      BY <1>3, <1>4 DEF IsTelling, Tells
    <3>2. QED
      BY <1>1, <1>2, <1>4, <3>1 DEF IsTelling, Audits, Tells
  <2>2. QED
    BY <1>2, <2>1 DEF AuditOK, ToldAll
<1>9. QED
  BY <1>6, <1>7, <1>8 DEF AuditOK

LEMMA CallAudit ==
    ASSUME TypeOK, AuditOK, NEW c \in Callers, CallStep(c)
    PROVE  AuditOK'
<1>1. PICK op, k : op = calls[c].op /\ k = KeyOf(op)
  OBVIOUS
<1>2. CASE AssertHas(c) \/ AssertCount(c) \/ DeleteGet(c) \/ EmitNote(c)
  <2>1. /\ ~Audits(c) /\ UNCHANGED <<trail, version, died>>
        /\ \A d \in Callers : d # c => calls'[d] = calls[d]
        /\ calls'[c].at # "audit"
    <3>1. CASE AssertHas(c) \/ AssertCount(c) \/ DeleteGet(c)
      BY <3>1, GoToIs, ReturnIs DEF AssertHas, AssertCount, DeleteGet, Audits, entries, register
    <3>2. CASE EmitNote(c)
      BY <3>2, ReturnIs DEF EmitNote, Audits, entries, register
    <3>3. QED
      BY <1>2, <3>1, <3>2
  <2>2. QED
    BY <2>1, AuditStays DEF Audits
<1>3. CASE Store(c) \/ DeleteStore(c)
  <2>1. /\ op \in OperationIds /\ k \in FullKeys /\ ~Audits(c)
        /\ calls[c].at \in {"store", "tombstone"} /\ UNCHANGED <<trail, died>>
    BY <1>1, <1>3, CallTyped, RequestTyped DEF Store, DeleteStore, Audits
  <2>2. CASE UNCHANGED entries /\ (Tell(c, "CTX_CONFLICT", version[k]) \/ Return(c))
    <3>1. /\ UNCHANGED <<trail, version, died>>
          /\ \A d \in Callers : d # c => calls'[d] = calls[d]
          /\ calls'[c].at = "audit" => ~IsCommit(calls'[c].note)
      <4>1. UNCHANGED <<trail, version, died>>
        BY <2>1, <2>2 DEF entries, register
      <4>2. CASE Tell(c, "CTX_CONFLICT", version[k])
        <5>1. /\ calls'[c].note = [event |-> "CTX_CONFLICT", op |-> calls[c].op,
                                   fullKey |-> KeyOf(calls[c].op), version |-> version[k]]
              /\ \A d \in Callers : d # c => calls'[d] = calls[d]
          BY <4>2, TellIs
        <5>2. calls'[c].note.event = "CTX_CONFLICT"
          BY <5>1
        <5>3. QED
          BY <4>1, <5>1, <5>2 DEF IsCommit
      <4>3. CASE Return(c)
        BY <4>1, <4>3, ReturnIs
      <4>4. QED
        BY <2>2, <4>2, <4>3
    <3>2. QED
      BY <2>1, <3>1, AuditStays DEF Audits
  <2>3. CASE Stores(k, op, FALSE) /\ Tell(c, "CTX_WRITE", version'[k])
    BY <1>1, <2>1, <2>3, CommitAudit
  <2>4. CASE Stores(k, op, TRUE) /\ Tell(c, "CTX_DELETE", version'[k])
    BY <1>1, <2>1, <2>4, CommitAudit
  <2>5. QED
    BY <1>1, <1>3, <2>2, <2>3, <2>4 DEF Store, DeleteStore, ReplayEnds
<1>4. QED
  BY <1>2, <1>3, AppendAuditIs DEF CallStep

LEMMA AuditKeeps ==
    ASSUME TypeOK, AuditOK, [Next]_vars
    PROVE  AuditOK'
<1>1. ASSUME UNCHANGED <<trail, version, calls, died>>
      PROVE  AuditOK'
  BY <1>1, AuditStays DEF Audits
<1>2. ASSUME NEW c \in Callers, NEW op \in OperationIds, Begin(c, op)
      PROVE  AuditOK'
  <2>1. /\ ~Audits(c) /\ UNCHANGED <<trail, version, died>>
        /\ \A d \in Callers : d # c => calls'[d] = calls[d]
        /\ calls'[c] = [at |-> FirstStep(op), op |-> op]
    BY <1>2 DEF Begin, Audits, Idle, entries, register, TypeOK
  <2>2. FirstStep(op) \in {"store", "has", "get"}
    BY RequestTyped DEF FirstStep, Kinds
  <2>3. calls'[c].at # "audit"
    BY <2>1, <2>2
  <2>4. QED
    BY <2>1, <2>3, AuditStays DEF Audits
<1>3. ASSUME NEW c \in Callers, Die(c)
      PROVE  AuditOK'
  <2>1. /\ died' > 0 /\ UNCHANGED <<trail, version>> /\ calls'[c].at # "audit"
        /\ \A d \in Callers : d # c => calls'[d] = calls[d]
    BY <1>3, ReturnIs DEF Die, entries, register, TypeOK
  <2>2. QED
    BY <2>1, AuditStays DEF Audits
<1>4. QED
  BY <1>1, <1>2, <1>3, CallAudit
     DEF Next, vars, storeVars, entries, register, Upsert, FailToIndex, WaitStep, WaitBegin,
         WaitRead, WaitCheck, WaitWake, WaitEnd, HandleEvent

LEMMA AuditHolds == Spec => []AuditOK
<1>1. Init => AuditOK
  <2>1. SUFFICES ASSUME Init
                 PROVE  AuditOK
    OBVIOUS
  <2>2. /\ DOMAIN trail = {} /\ \A k \in FullKeys : version[k] = 0
        /\ \A c \in Callers : calls[c].at = "idle"
    BY <2>1 DEF Init, Storage!Init, Idle
  <2>3. \A k \in FullKeys : \A v \in 1 .. version[k] : FALSE
    BY <2>2
  <2>4. QED
    BY <2>2, <2>3 DEF AuditOK, ToldOnce, ToldAsMade, ToldAll, Audits
<1>2. QED
  BY <1>1, AuditKeeps, StoreTypeCorrect, PTL DEF Spec

LEMMA OneAtMost ==
    ASSUME NEW S, \A x, y \in S : x = y
    PROVE  /\ IsFiniteSet(S) /\ Cardinality(S) \in {0, 1}
           /\ Cardinality(S) = 0 <=> S = {}
<1>1. CASE S = {}
  BY <1>1, FS_EmptySet
<1>2. ASSUME NEW x \in S
      PROVE  IsFiniteSet(S) /\ Cardinality(S) = 1 /\ S # {}
  <2>1. S = {x}
    OBVIOUS
  <2>2. QED
    BY <2>1, FS_Singleton
<1>3. QED
  BY <1>1, <1>2

LEMMA ToldAtMostOnce ==
    ASSUME AuditOK, NEW k \in FullKeys, NEW v \in 1 .. version[k]
    PROVE  Telling(k, v) \in {0, 1} /\ (IsTelling(k, v) => Telling(k, v) = 1)
<1>1. PICK I, C : /\ I = {i \in DOMAIN trail : Tells(trail[i], k, v)}
                  /\ C = {c \in Callers : calls[c].at = "audit" /\ Tells(calls[c].note, k, v)}
  OBVIOUS
<1>2. \A n, m : Tells(n, k, v) /\ Tells(m, k, v) => Alike(n, m)
  BY DEF Tells, Alike, IsCommit
<1>3. (\A i, j \in I : i = j) /\ (\A c, d \in C : c = d) /\ (I = {} \/ C = {})
  BY <1>1, <1>2 DEF AuditOK, ToldOnce, Audits
<1>4. /\ Cardinality(I) \in {0, 1} /\ (Cardinality(I) = 0 <=> I = {})
      /\ Cardinality(C) \in {0, 1} /\ (Cardinality(C) = 0 <=> C = {})
  BY <1>3, OneAtMost
<1>5. Telling(k, v) = Cardinality(I) + Cardinality(C)
  BY <1>1 DEF Telling
<1>6. IsTelling(k, v) => I # {} \/ C # {}
  BY <1>1 DEF IsTelling, Audits
<1>7. QED
  BY <1>3, <1>4, <1>5, <1>6

(* Every version of every key is audited by one entry, or is about to be,  *)
(* and by none only if a call died.                                        *)
THEOREM CommitsAreAuditedOnce == Spec => []AuditedOnce
<1>1. AuditOK => AuditedOnce
  BY ToldAtMostOnce DEF AuditedOnce, AuditOK, ToldAll
<1>2. QED
  BY <1>1, AuditHolds, PTL

-----------------------------------------------------------------------------
(* Then the search index.  What is unfinished of a key whose commits do    *)
(* not overlap is of its current version.                                  *)

Items(c)   == {e \in ToIndex(calls[c].note) : calls[c].at \in {"audit", "emit"}}
Current(e) == e.fullKey \notin unsure => e.version = version[e.fullKey]

SearchOK ==
    /\ \A c \in Callers : \A e \in Items(c) : Current(e)
    /\ \A e \in embeddings : Current(e)
    /\ setting.embeds /\ died = 0 =>
          \A k \in FullKeys \ unsure :
              IsLive(k) /\ HasText(writer[k]) /\ ~Unfinished(k) => rows[k] = version[k]

LEMMA UnfinishedIs ==
    ASSUME NEW k
    PROVE  Unfinished(k) <=> \/ \E c \in Callers : \E e \in Items(c) : e.fullKey = k
                             \/ \E e \in embeddings : e.fullKey = k
BY DEF Unfinished, Items

LEMMA ItemsStay ==
    ASSUME setting' = setting, NEW c \in Callers, calls'[c] = calls[c]
    PROVE  Items(c)' = Items(c)
BY DEF Items, ToIndex, HasText, KindOf

LEMMA NoItems ==
    ASSUME NEW c \in Callers
    PROVE  calls[c].at \notin {"audit", "emit"} => Items(c) = {}
BY DEF Items

(* Steps that store nothing, embed nothing and take no item from a call.   *)
LEMMA SearchStays ==
    ASSUME SearchOK,
           UNCHANGED <<setting, version, writer, isDeleted, unsure, embeddings, rows>>,
           \A c \in Callers : Items(c)' \subseteq Items(c),
           \/ died' > 0
           \/ died' = died /\ \A c \in Callers : Items(c) \subseteq Items(c)'
    PROVE  SearchOK'
<1>1. \A e : Current(e) => Current(e)'
  BY DEF Current
<1>2. CASE died' > 0
  BY <1>1, <1>2 DEF SearchOK
<1>3. CASE died' = died /\ \A c \in Callers : Items(c) \subseteq Items(c)'
  <2>1. \A k : Unfinished(k) => Unfinished(k)'
    <3>1. ASSUME NEW k, NEW c \in Callers, NEW e \in Items(c), e.fullKey = k
          PROVE  Unfinished(k)'
      <4>1. e \in Items(c)'
        BY <1>3
      <4>2. QED
        BY <3>1, <4>1 DEF Unfinished, Items
    <3>2. ASSUME NEW k, NEW e \in embeddings, e.fullKey = k
          PROVE  Unfinished(k)'
      BY <3>2 DEF Unfinished
    <3>3. QED
      BY <3>1, <3>2, UnfinishedIs
  <2>2. QED
    BY <1>1, <1>3, <2>1 DEF SearchOK, IsLive, HasText, KindOf
<1>4. QED
  BY <1>2, <1>3

(* Steps of a call that has no items.                                      *)
LEMMA SearchGoesOn ==
    ASSUME SearchOK, NEW c \in Callers, Items(c) = {}, Items(c)' = {},
           \A d \in Callers : d # c => calls'[d] = calls[d],
           UNCHANGED <<setting, version, writer, isDeleted, unsure, embeddings, rows, died>>
    PROVE  SearchOK'
<1>1. \A d \in Callers : Items(d)' = Items(d)
  BY ItemsStay
<1>2. QED
  BY <1>1, SearchStays

LEMMA CommitSearch ==
    ASSUME TypeOK, SearchOK, NEW c \in Callers, NEW op \in OperationIds, NEW k \in FullKeys,
           calls[c].at \in {"store", "tombstone"}, calls[c].op = op, KeyOf(op) = k,
           NEW event, NEW deleted \in BOOLEAN,
           event = IF deleted THEN "CTX_DELETE" ELSE "CTX_WRITE",
           Stores(k, op, deleted), Tell(c, event, version'[k]),
           UNCHANGED <<setting, embeddings, rows, died>>
    PROVE  SearchOK'
<1>1. /\ \A x \in FullKeys : x # k =>
            version'[x] = version[x] /\ writer'[x] = writer[x] /\ isDeleted'[x] = isDeleted[x]
      /\ writer'[k] = op /\ isDeleted'[k] = deleted
      /\ unsure' = IF Unfinished(k) THEN unsure \cup {k} ELSE unsure
  BY DEF Stores, Storage!Commit, TypeOK
<1>2. \A d \in Callers : d # c => calls'[d] = calls[d] /\ Items(d)' = Items(d)
  BY TellIs, ItemsStay
<1>3. Items(c) = {}
  BY NoItems
<1>4. PICK n : n = calls'[c].note
  OBVIOUS
<1>5. n = [event |-> event, op |-> op, fullKey |-> k, version |-> version'[k]]
      /\ calls'[c].at = "audit"
  BY <1>4, TellIs
<1>6. Items(c)' = IF setting.embeds /\ ~deleted /\ HasText(op)
                  THEN {[fullKey |-> k, version |-> version'[k]]} ELSE {}
  <2>1. Items(c)' = ToIndex(n)'
    BY <1>4, <1>5 DEF Items, ToIndex, HasText, KindOf
  <2>2. n.event = event /\ n.op = op /\ n.fullKey = k /\ n.version = version'[k]
    BY <1>5
  <2>3. QED
    BY <2>1, <2>2 DEF ToIndex, HasText, KindOf
<1>7. ASSUME NEW e, Current(e), Unfinished(e.fullKey), e.fullKey \in FullKeys
      PROVE  Current(e)'
  BY <1>1, <1>7 DEF Current
<1>8. \A d \in Callers : \A e \in Items(d)' : Current(e)'
  <2>1. ASSUME NEW d \in Callers, d # c, NEW e \in Items(d)
        PROVE  Current(e)'
    <3>1. e.fullKey \in FullKeys
      BY ToIndexTyped, NotesTyped DEF Items
    <3>2. QED
      BY <1>7, <2>1, <3>1, UnfinishedIs DEF SearchOK
  <2>2. ASSUME NEW e \in Items(c)'
        PROVE  Current(e)'
    <3>1. e = [fullKey |-> k, version |-> version'[k]]
      BY <1>6, <2>2
    <3>2. QED
      BY <3>1 DEF Current
  <2>3. QED
    BY <1>2, <2>1, <2>2
<1>9. \A e \in embeddings : Current(e)'
  <2>1. \A e \in embeddings : e.fullKey \in FullKeys
    BY DEF TypeOK
  <2>2. QED
    BY <1>7, <2>1, UnfinishedIs DEF SearchOK
<1>10. ASSUME setting.embeds, died = 0, NEW x \in FullKeys, x \notin unsure', IsLive(x)',
              HasText(writer'[x]), ~Unfinished(x)'
       PROVE  rows[x] = version'[x]
  <2>1. x # k
    <3>1. SUFFICES ASSUME x = k
                   PROVE  FALSE
      OBVIOUS
    <3>2. ~deleted /\ HasText(op)
      BY <1>1, <1>10, <3>1 DEF IsLive
    <3>3. PICK e : e = [fullKey |-> k, version |-> version'[k]]
      OBVIOUS
    <3>4. e \in Items(c)' /\ e.fullKey = x
      BY <1>6, <1>10, <3>1, <3>2, <3>3
    <3>5. Unfinished(x)'
      BY <3>4 DEF Unfinished, Items
    <3>6. QED
      BY <1>10, <3>5
  <2>2. IsLive(x) /\ HasText(writer[x]) /\ x \notin unsure /\ version'[x] = version[x]
    BY <1>1, <1>10, <2>1 DEF IsLive
  <2>3. Unfinished(x) => Unfinished(x)'
    <3>1. ASSUME NEW d \in Callers, NEW e \in Items(d), e.fullKey = x
          PROVE  Unfinished(x)'
      <4>1. e \in Items(d)'
        BY <1>2, <1>3, <3>1
      <4>2. QED
        BY <3>1, <4>1 DEF Unfinished, Items
    <3>2. ASSUME NEW e \in embeddings, e.fullKey = x
          PROVE  Unfinished(x)'
      BY <3>2 DEF Unfinished
    <3>3. QED
      BY <3>1, <3>2, UnfinishedIs
  <2>4. QED
    BY <1>10, <2>2, <2>3 DEF SearchOK
<1>11. QED
  BY <1>8, <1>9, <1>10 DEF SearchOK, HasText, KindOf

LEMMA EmitSearch ==
    ASSUME TypeOK, SearchOK, NEW c \in Callers, EmitNote(c)
    PROVE  SearchOK'
<1>1. /\ calls[c].at = "emit"
      /\ UNCHANGED <<setting, version, writer, isDeleted, unsure, rows, died>>
      /\ embeddings' = embeddings \cup ToIndex(calls[c].note)
  BY DEF EmitNote, entries, register
<1>2. calls'[c].at = "idle" /\ \A d \in Callers : d # c => calls'[d] = calls[d]
  BY ReturnIs DEF EmitNote
<1>3. Items(c) = ToIndex(calls[c].note)
  BY <1>1 DEF Items
<1>4. Items(c)' = {} /\ \A d \in Callers : d # c => Items(d)' = Items(d)
  BY <1>1, <1>2, ItemsStay DEF Items
<1>5. \A e : Current(e) => Current(e)'
  BY <1>1 DEF Current
<1>6. \A k : Unfinished(k) => Unfinished(k)'
  <2>1. ASSUME NEW k, NEW d \in Callers, NEW e \in Items(d), e.fullKey = k
        PROVE  Unfinished(k)'
    <3>1. CASE d = c
      BY <1>1, <1>3, <2>1, <3>1 DEF Unfinished
    <3>2. CASE d # c
      <4>1. e \in Items(d)'
        BY <1>4, <2>1, <3>2
      <4>2. QED
        BY <2>1, <4>1 DEF Unfinished, Items
    <3>3. QED
      BY <3>1, <3>2
  <2>2. ASSUME NEW k, NEW e \in embeddings, e.fullKey = k
        PROVE  Unfinished(k)'
    BY <1>1, <2>2 DEF Unfinished
  <2>3. QED
    BY <2>1, <2>2, UnfinishedIs
<1>7. \A d \in Callers : \A e \in Items(d)' : Current(e)'
  BY <1>4, <1>5 DEF SearchOK
<1>8. \A e \in embeddings' : Current(e)'
  BY <1>1, <1>3, <1>5 DEF SearchOK
<1>9. QED
  BY <1>1, <1>6, <1>7, <1>8 DEF SearchOK, IsLive, HasText, KindOf

LEMMA CallSearch ==
    ASSUME TypeOK, SearchOK, NEW c \in Callers, CallStep(c)
    PROVE  SearchOK'
<1>1. PICK op, k : op = calls[c].op /\ k = KeyOf(op)
  OBVIOUS
<1>2. CASE AssertHas(c) \/ AssertCount(c) \/ DeleteGet(c)
  <2>1. /\ calls[c].at \notin {"audit", "emit"} /\ calls'[c].at \notin {"audit", "emit"}
        /\ \A d \in Callers : d # c => calls'[d] = calls[d]
        /\ UNCHANGED <<setting, version, writer, isDeleted, unsure, embeddings, rows, died>>
    <3>1. calls[c].at \in {"has", "count", "get"}
      BY <1>2 DEF AssertHas, AssertCount, DeleteGet
    <3>2. (\E at \in {"store", "count", "tombstone"} : GoTo(c, at)) \/ Return(c)
      BY <1>2 DEF AssertHas, AssertCount, DeleteGet
    <3>3. /\ calls'[c].at \notin {"audit", "emit"}
          /\ \A d \in Callers : d # c => calls'[d] = calls[d]
      BY <3>1, <3>2, GoToIs, ReturnIs
    <3>4. UNCHANGED <<setting, version, writer, isDeleted, unsure, embeddings, rows, died>>
      BY <1>2 DEF AssertHas, AssertCount, DeleteGet, entries, register, search
    <3>5. QED
      BY <3>1, <3>3, <3>4
  <2>2. Items(c) = {} /\ Items(c)' = {}
    BY <2>1 DEF Items
  <2>3. QED
    BY <2>1, <2>2, SearchGoesOn
<1>3. CASE Store(c) \/ DeleteStore(c)
  <2>1. /\ op \in OperationIds /\ k \in FullKeys
        /\ calls[c].at \in {"store", "tombstone"}
        /\ UNCHANGED <<setting, embeddings, rows, died>>
    BY <1>1, <1>3, CallTyped, RequestTyped DEF Store, DeleteStore, search
  <2>2. CASE UNCHANGED entries /\ (Tell(c, "CTX_CONFLICT", version[k]) \/ Return(c))
    <3>1. UNCHANGED <<version, writer, isDeleted, unsure>>
      BY <2>2 DEF entries, register
    <3>2. Items(c) = {}
      BY <2>1, NoItems
    <3>3. Items(c)' = {} /\ \A d \in Callers : d # c => calls'[d] = calls[d]
      <4>1. CASE Return(c)
        <5>1. calls'[c].at = "idle" /\ \A d \in Callers : d # c => calls'[d] = calls[d]
          BY <4>1, ReturnIs
        <5>2. QED
          BY <5>1 DEF Items
      <4>2. CASE Tell(c, "CTX_CONFLICT", version[k])
        <5>1. /\ calls'[c].note = [event |-> "CTX_CONFLICT", op |-> calls[c].op,
                                   fullKey |-> KeyOf(calls[c].op), version |-> version[k]]
              /\ \A d \in Callers : d # c => calls'[d] = calls[d]
          BY <4>2, TellIs
        <5>2. calls'[c].note.event = "CTX_CONFLICT"
          BY <5>1
        <5>3. Items(c)' = {}
          BY <5>2 DEF Items, ToIndex
        <5>4. QED
          BY <5>1, <5>3
      <4>3. QED
        BY <2>2, <4>1, <4>2
    <3>4. QED
      BY <2>1, <3>1, <3>2, <3>3, SearchGoesOn
  <2>3. CASE Stores(k, op, FALSE) /\ Tell(c, "CTX_WRITE", version'[k])
    BY <1>1, <2>1, <2>3, CommitSearch
  <2>4. CASE Stores(k, op, TRUE) /\ Tell(c, "CTX_DELETE", version'[k])
    BY <1>1, <2>1, <2>4, CommitSearch
  <2>5. QED
    BY <1>1, <1>3, <2>2, <2>3, <2>4 DEF Store, DeleteStore, ReplayEnds
<1>4. CASE AppendAudit(c)
  <2>1. /\ calls[c].at = "audit" /\ calls' = [calls EXCEPT ![c].at = "emit"]
        /\ UNCHANGED <<setting, version, writer, isDeleted, unsure, embeddings, rows, died>>
    BY <1>4 DEF AppendAudit, GoTo, entries, register, search
  <2>2. calls'[c].at = "emit" /\ calls'[c].note = calls[c].note
        /\ \A d \in Callers : d # c => calls'[d] = calls[d]
    BY <2>1, CallTyped DEF TypeOK
  <2>3. Items(c)' = Items(c)
    BY <2>1, <2>2 DEF Items, ToIndex, HasText, KindOf
  <2>4. \A d \in Callers : Items(d)' = Items(d)
    BY <2>1, <2>2, <2>3, ItemsStay
  <2>5. QED
    BY <2>1, <2>4, SearchStays
<1>5. QED
  BY <1>2, <1>3, <1>4, EmitSearch DEF CallStep

LEMMA IndexSearch ==
    ASSUME TypeOK, SearchOK, NEW e \in embeddings, Upsert(e) \/ FailToIndex(e)
    PROVE  SearchOK'
<1>1. /\ UNCHANGED <<setting, calls, version, writer, isDeleted, died>>
      /\ embeddings' = embeddings \ {e} /\ unsure \subseteq unsure'
  BY DEF Upsert, FailToIndex, entries, register
<1>2. \A c \in Callers : Items(c)' = Items(c)
  BY <1>1, ItemsStay
<1>3. \A d : Current(d) => Current(d)'
  BY <1>1 DEF Current
<1>4. e.fullKey \in FullKeys
  BY DEF TypeOK
<1>5. ASSUME NEW k \in FullKeys, k # e.fullKey, Unfinished(k)
      PROVE  Unfinished(k)'
  <2>1. ASSUME NEW d \in Callers, NEW i \in Items(d), i.fullKey = k
        PROVE  Unfinished(k)'
    <3>1. i \in Items(d)'
      BY <1>2
    <3>2. QED
      BY <2>1, <3>1 DEF Unfinished, Items
  <2>2. ASSUME NEW i \in embeddings, i.fullKey = k
        PROVE  Unfinished(k)'
    BY <1>1, <1>5, <2>2 DEF Unfinished
  <2>3. QED
    BY <1>5, <2>1, <2>2, UnfinishedIs
<1>6. ASSUME NEW k \in FullKeys, k # e.fullKey
      PROVE  rows'[k] = rows[k]
  BY <1>6 DEF Upsert, FailToIndex, TypeOK
<1>7. e.fullKey \in unsure' \/ rows'[e.fullKey] = version'[e.fullKey]
  <2>1. CASE Upsert(e)
    <3>1. rows'[e.fullKey] = e.version /\ unsure' = unsure
      BY <1>4, <2>1 DEF Upsert, entries, TypeOK
    <3>2. QED
      BY <1>1, <3>1 DEF SearchOK, Current
  <2>2. CASE FailToIndex(e)
    BY <2>2 DEF FailToIndex
  <2>3. QED
    BY <2>1, <2>2
<1>8. ASSUME setting.embeds, died = 0, NEW k \in FullKeys \ unsure', IsLive(k),
             HasText(writer[k]), ~Unfinished(k)'
      PROVE  rows'[k] = version[k]
  BY <1>1, <1>5, <1>6, <1>7, <1>8 DEF SearchOK
<1>9. /\ \A c \in Callers : \A i \in Items(c)' : Current(i)'
      /\ \A i \in embeddings' : Current(i)'
  BY <1>1, <1>2, <1>3 DEF SearchOK
<1>10. QED
  BY <1>1, <1>8, <1>9 DEF SearchOK, IsLive, HasText, KindOf

LEMMA SearchKeeps ==
    ASSUME TypeOK, SearchOK, [Next]_vars
    PROVE  SearchOK'
<1>1. ASSUME UNCHANGED <<setting, entries, calls, search, died>>
      PROVE  SearchOK'
  <2>1. UNCHANGED <<setting, version, writer, isDeleted, unsure, embeddings, rows, died, calls>>
    BY <1>1 DEF entries, register, search
  <2>2. \A c \in Callers : Items(c)' = Items(c)
    BY <2>1, ItemsStay
  <2>3. QED
    BY <2>1, <2>2, SearchStays
<1>2. ASSUME NEW c \in Callers, NEW op \in OperationIds, Begin(c, op)
      PROVE  SearchOK'
  <2>1. /\ calls[c].at = "idle"
        /\ UNCHANGED <<setting, version, writer, isDeleted, unsure, embeddings, rows, died>>
        /\ \A d \in Callers : d # c => calls'[d] = calls[d]
        /\ calls'[c] = [at |-> FirstStep(op), op |-> op]
    BY <1>2 DEF Begin, Idle, entries, register, search, TypeOK
  <2>2. FirstStep(op) \in {"store", "has", "get"}
    BY RequestTyped DEF FirstStep, Kinds
  <2>3. calls'[c].at \notin {"audit", "emit"}
    BY <2>1, <2>2
  <2>4. Items(c) = {} /\ Items(c)' = {}
    BY <2>1, <2>3 DEF Items
  <2>5. QED
    BY <2>1, <2>4, SearchGoesOn
<1>3. ASSUME NEW c \in Callers, Die(c)
      PROVE  SearchOK'
  <2>1. /\ died' > 0 /\ calls'[c].at = "idle"
        /\ \A d \in Callers : d # c => calls'[d] = calls[d]
        /\ UNCHANGED <<setting, version, writer, isDeleted, unsure, embeddings, rows>>
    BY <1>3, ReturnIs DEF Die, entries, register, search, TypeOK
  <2>2. Items(c)' = {} /\ \A d \in Callers : d # c => Items(d)' = Items(d)
    BY <2>1, ItemsStay DEF Items
  <2>3. \A d \in Callers : Items(d)' \subseteq Items(d)
    BY <2>2
  <2>4. QED
    BY <2>1, <2>3, SearchStays
<1>4. QED
  BY <1>1, <1>2, <1>3, CallSearch, IndexSearch
     DEF Next, vars, storeVars, WaitStep, WaitBegin,
         WaitRead, WaitCheck, WaitWake, WaitEnd, HandleEvent

LEMMA SearchHolds == Spec => []SearchOK
<1>1. Init => SearchOK
  <2>1. SUFFICES ASSUME Init
                 PROVE  SearchOK
    OBVIOUS
  <2>2. /\ embeddings = {} /\ \A k \in FullKeys : version[k] = 0
        /\ \A c \in Callers : calls[c].at = "idle"
    BY <2>1 DEF Init, Storage!Init, Idle
  <2>3. \A k \in FullKeys : ~IsLive(k)
    BY <2>2 DEF IsLive
  <2>4. \A c \in Callers : Items(c) = {}
    BY <2>2 DEF Items
  <2>5. QED
    BY <2>2, <2>3, <2>4 DEF SearchOK
<1>2. QED
  BY <1>1, SearchKeeps, StoreTypeCorrect, PTL DEF Spec

(* What follows a commit happens once each, and in the end for the last    *)
(* commit of a key: its audit entry, and the row search finds it by.       *)
THEOREM CommitsAreFollowed == Spec => []CommitsAreFollowedUp
<1>1. TypeOK /\ SearchOK => SearchIsCurrent
  <2>1. SUFFICES ASSUME TypeOK, SearchOK, setting.embeds, died = 0, NEW k \in FullKeys \ unsure,
                        IsLive(k), HasText(writer[k]), ~Unfinished(k)
                 PROVE  k \in Found /\ rows[k] = version[k]
    BY DEF SearchIsCurrent
  <2>2. rows[k] = version[k]
    BY <2>1 DEF SearchOK
  <2>3. QED
    BY <2>1, <2>2 DEF Found, IsLive
<1>2. TypeOK /\ SearchOK /\ AuditedOnce => CommitsAreFollowedUp
  BY <1>1 DEF CommitsAreFollowedUp
<1>3. QED
  BY <1>2, StoreTypeCorrect, SearchHolds, CommitsAreAuditedOnce, PTL
=============================================================================
