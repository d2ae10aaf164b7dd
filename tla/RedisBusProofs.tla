---------------------------- MODULE RedisBusProofs ----------------------------
(***************************************************************************)
(* Theorems about the message bus, for any agents, messages, priorities,   *)
(* callers, conversations and bounds.                                      *)
(***************************************************************************)
EXTENDS RedisBus, FiniteSetTheorems, TLAPS

-----------------------------------------------------------------------------
(* The inductive invariant.                                                *)

(* Entry i of its inbox is one of message m.                               *)
EntryOf(m, i) ==
    i \in DOMAIN streams[QueueOf(m)] /\ streams[QueueOf(m)][i].message = m

Added(m) == \E i \in DOMAIN streams[QueueOf(m)] : EntryOf(m, i)

(* Message m is settled, or MAXLEN took an entry of it, or an entry of it  *)
(* after the k-th is open.                                                 *)
KeptAfter(m, k) ==
    \/ IsSettled(m)
    \/ \E i \in DOMAIN streams[QueueOf(m)] :
          /\ EntryOf(m, i)
          /\ i <= trimmed[QueueOf(m)] \/ (i > k /\ i \in Open(QueueOf(m)))

(* Every entry is in the inbox its message is for, and the group stands    *)
(* within the stream.                                                      *)
InboxOK ==
    /\ streams \in [Queues -> Seq(StreamEntry)]
    /\ trimmed \in [Queues -> Nat] /\ delivered \in [Queues -> Nat]
    /\ pending \in [Queues -> SUBSET Nat]
    /\ \A q \in Queues :
          /\ \A i \in DOMAIN streams[q] : QueueOf(streams[q][i].message) = q
          /\ trimmed[q] <= Len(streams[q]) /\ delivered[q] <= Len(streams[q])
          /\ \A i \in pending[q] : 1 <= i /\ i <= delivered[q]

(* Metadata names an entry of its own message.                             *)
MetaOK ==
    /\ meta \in [Messages -> Meta \cup {NoMeta}]
    /\ \A m \in Messages : meta[m] # NoMeta => EntryOf(m, meta[m].entry)

GoodSending(x) ==
    /\ x \in Sending \cup {Idle}
    /\ x.at \in {"meta", "xdel"} => EntryOf(x.sent, x.entry)

(* A claim hands out messages of the bus, has room for what it read, and   *)
(* left nothing that waited since its start above where it reads.          *)
StillWaits(x, e) == e \in x.before /\ e[2] \in Waiting(e[1])
GoodClaim(x) ==
    /\ x \in Claiming
    /\ \A m \in x.got : Added(m)
    /\ x.todo # {} =>
          /\ x.priority > 0
          /\ x.todo \subseteq DOMAIN streams[<<setting.claimFor, x.priority>>]
    /\ IsFiniteSet(x.todo) /\ Cardinality(x.todo) <= x.room
    /\ \A e \in x.before : e[1][1] = setting.claimFor /\ e[2] \in DOMAIN streams[e[1]]
    /\ \A g \in x.got : PriorityOf[g] >= x.priority
    /\ \A e \in x.before : StillWaits(x, e) =>
          /\ \A g \in x.got : e[1][2] <= PriorityOf[g]
          /\ x.room > 0 => e[1][2] <= x.priority
          /\ x.todo # {} /\ x.room > Cardinality(x.todo) => e[1][2] < x.priority

(* An ack or reply is of a message whose work is done, and acknowledges an *)
(* entry of it; a reply is in the inbox once it was added.                 *)
GoodAnswer(x) ==
    /\ x \in Answering
    /\ x.message \in done
    /\ x.at \in {"xack", "ackmeta"} => EntryOf(x.message, x.entry)
    /\ x.at \in {"register", "xadd", "meta", "record"} => x.sent # NoMessage
    /\ x.at = "meta" => EntryOf(x.sent, x.entry)
    /\ x.sent # NoMessage =>
          /\ ReplyTo[x.sent] = x.message
          /\ x.at \notin {"register", "xadd"} => Added(x.sent)

GoodConsuming(x) ==
    \/ x = Idle
    \/ GoodClaim(x)
    \/ GoodAnswer(x)

(* The copy a sweep made is of the message at hand; when it is about to    *)
(* acknowledge the original, the message is kept by something later.       *)
GoodSweeping(x) ==
    /\ x \in Sweeping \cup {Idle}
    /\ x # Idle =>
          /\ x.todo \subseteq DOMAIN streams[x.queue] /\ x.entry \in x.todo
          /\ IsFiniteSet(x.todo)
          /\ x.at \in {"xack", "meta", "deadmeta"} => EntryOf(AtHand(x).message, x.copy)
          /\ x.at = "xack" => KeptAfter(AtHand(x).message, x.entry)

CallsOK ==
    /\ sending \in [Senders -> Sending \cup {Idle}]
    /\ consuming \in [Consumers -> Claiming \cup Answering \cup {Idle}]
    /\ sweeping \in [Sweepers -> Sweeping \cup {Idle}]
    /\ \A s \in Senders : GoodSending(sending[s])
    /\ \A c \in Consumers : GoodConsuming(consuming[c])
    /\ \A s \in Sweepers : GoodSweeping(sweeping[s])

(* What was handed out, finished, buried or recorded was added before.     *)
WorkOK ==
    /\ registry \in SUBSET Agents /\ used \in SUBSET Messages
    /\ dlq \in SUBSET Letter /\ buried \in Nat /\ faults \in Nat
    /\ held \in [Consumers -> SUBSET Messages]
    /\ done \in SUBSET Messages /\ replayed \in SUBSET Messages
    /\ replies \in [Messages -> Messages \cup {NoMessage}]
    /\ \A c \in Consumers : \A m \in held[c] : Added(m)
    /\ \A m \in Messages : IsSettled(m) => Added(m)
    /\ \A m \in Messages : replies[m] # NoMessage =>
          /\ ReplyTo[replies[m]] = m /\ m \in done
          /\ Added(replies[m])

(* A message of the stream is settled, open, or was trimmed.               *)
KeepsOK == \A m \in Messages : Added(m) => KeptAfter(m, 0)

IInv == setting \in Settings /\ InboxOK /\ MetaOK /\ CallsOK /\ WorkOK /\ KeepsOK

-----------------------------------------------------------------------------
(* Facts about finite sets of numbers.                                     *)

LEMMA LeastExists ==
    ASSUME NEW S \in SUBSET Nat, S # {}
    PROVE  \E i \in S : \A j \in S : i <= j
<1>1. PICK i \in S : \A j \in S : ~(<<j, i>> \in OpToRel(<, Nat))
  BY NatLessThanWellFounded, WFMin
<1>2. \A j \in S : ~(j < i)
  BY <1>1 DEF OpToRel
<1>3. QED
  BY <1>2

LEMMA FirstOf ==
    ASSUME NEW S \in SUBSET Nat, S # {}
    PROVE  First(S) \in S /\ \A j \in S : First(S) <= j
BY LeastExists DEF First

(* The greatest of a finite set is the one with the fewest above it.       *)
LEMMA GreatestExists ==
    ASSUME NEW S \in SUBSET Nat, IsFiniteSet(S), S # {}
    PROVE  \E i \in S : \A j \in S : j <= i
<1> DEFINE above(i) == {j \in S : j > i}
           sizes == {Cardinality(above(i)) : i \in S}
<1>1. ASSUME NEW i \in S
      PROVE  IsFiniteSet(above(i)) /\ Cardinality(above(i)) \in Nat
  BY FS_Subset, FS_CardinalityType
<1>2. PICK i \in S : \A n \in sizes : Cardinality(above(i)) <= n
  <2>1. sizes \in SUBSET Nat /\ sizes # {}
    BY <1>1
  <2>2. PICK n \in sizes : \A k \in sizes : n <= k
    BY <2>1, LeastExists
  <2>3. QED
    BY <2>2
<1>3. ASSUME NEW j \in S, j > i
      PROVE  FALSE
  <2>1. above(j) \in SUBSET above(i)
    <3>1. \A k \in S : k > j => k > i
      BY <1>3
    <3>2. QED
      BY <3>1
  <2>2. j \in above(i) /\ j \notin above(j)
    BY <1>3
  <2>3. Cardinality(above(j)) <= Cardinality(above(i)) /\ Cardinality(above(i)) # Cardinality(above(j))
    BY <1>1, <2>1, <2>2, FS_Subset
  <2>4. Cardinality(above(i)) <= Cardinality(above(j))
    BY <1>2
  <2>5. QED
    BY <1>1, <2>3, <2>4
<1>4. QED
  BY <1>3

LEMMA FiniteUpto ==
    ASSUME NEW n \in Nat, NEW S \in SUBSET (1 .. n)
    PROVE  IsFiniteSet(S)
<1>1. IsFiniteSet(1 .. n)
  BY FS_Interval
<1>2. QED
  BY <1>1, FS_Subset

-----------------------------------------------------------------------------
(* The streams.                                                            *)

LEMMA SettingTyped ==
    ASSUME setting \in Settings
    PROVE  /\ ToAgent \in [Messages -> Agents] /\ PriorityOf \in [Messages -> Priorities]
           /\ ReplyTo \in [Messages -> Messages \cup {NoMessage}]
           /\ \A m \in Messages : QueueOf(m) \in Queues
           /\ setting.claimFor \in Agents /\ setting.claimCount \in Nat
           /\ setting.maxRetries \in Nat /\ setting.maxFaults \in Nat
           /\ \A p \in Priorities : <<setting.claimFor, p>> \in Queues
<1>1. setting \in Setting
  BY BusConstants
<1>2. QED
  BY <1>1 DEF Setting, ToAgent, PriorityOf, ReplyTo, QueueOf, Queues

LEMMA StreamTyped ==
    ASSUME InboxOK, NEW q \in Queues
    PROVE  /\ streams[q] \in Seq(StreamEntry) /\ Len(streams[q]) \in Nat
           /\ DOMAIN streams[q] = 1 .. Len(streams[q]) /\ DOMAIN streams[q] \in SUBSET Nat
           /\ \A i \in DOMAIN streams[q] :
                 /\ streams[q][i] \in StreamEntry /\ streams[q][i].message \in Messages
                 /\ streams[q][i].retryCount \in Nat
                 /\ EntryOf(streams[q][i].message, i) /\ Added(streams[q][i].message)
           /\ Waiting(q) \in SUBSET Nat /\ IsFiniteSet(Waiting(q))
           /\ pending[q] \in SUBSET DOMAIN streams[q]
           /\ pending[q] \in SUBSET Nat /\ IsFiniteSet(pending[q])
<1>1. /\ streams[q] \in Seq(StreamEntry) /\ Len(streams[q]) \in Nat
      /\ DOMAIN streams[q] = 1 .. Len(streams[q])
  BY DEF InboxOK
<1>2. DOMAIN streams[q] \in SUBSET Nat
  <2>1. \A i \in 1 .. Len(streams[q]) : i \in Nat
    BY <1>1
  <2>2. QED
    BY <1>1, <2>1
<1>3. \A i \in DOMAIN streams[q] :
         /\ streams[q][i] \in StreamEntry /\ streams[q][i].message \in Messages
         /\ streams[q][i].retryCount \in Nat
  <2>1. \A i \in DOMAIN streams[q] : streams[q][i] \in StreamEntry
    BY <1>1
  <2>2. QED
    BY <2>1 DEF StreamEntry
<1>4. \A i \in DOMAIN streams[q] :
         EntryOf(streams[q][i].message, i) /\ Added(streams[q][i].message)
  <2>1. \A i \in DOMAIN streams[q] : QueueOf(streams[q][i].message) = q
    BY DEF InboxOK
  <2>2. QED
    BY <2>1 DEF EntryOf, Added
<1>5. Waiting(q) \in SUBSET (1 .. Len(streams[q]))
  BY <1>1 DEF Waiting
<1>6. pending[q] \in SUBSET (1 .. Len(streams[q]))
  BY <1>1 DEF InboxOK
<1>7. IsFiniteSet(Waiting(q)) /\ IsFiniteSet(pending[q])
  BY <1>1, <1>5, <1>6, FiniteUpto
<1>8. QED
  BY <1>1, <1>2, <1>3, <1>4, <1>5, <1>6, <1>7

(* XREADGROUP reads the first entries that wait, as many as asked for.     *)
LEMMA ReadFacts ==
    ASSUME InboxOK, NEW q \in Queues, NEW room \in Nat \ {0}
    PROVE  /\ Read(q, room) \in SUBSET Waiting(q) /\ IsFiniteSet(Read(q, room))
           /\ Cardinality(Read(q, room)) <= room
           /\ Cardinality(Read(q, room)) < room => Read(q, room) = Waiting(q)
           /\ Read(q, room) # {} =>
                 /\ Position(q, Read(q, room)) \in Read(q, room)
                 /\ \A i \in Read(q, room) : i <= Position(q, Read(q, room))
                 /\ \A i \in Waiting(q) :
                       i <= Position(q, Read(q, room)) => i \in Read(q, room)
<1> DEFINE W == Waiting(q)
           R == Read(q, room)
           upto(i) == {j \in W : j <= i}
<1>1. W \in SUBSET Nat /\ IsFiniteSet(W)
  BY StreamTyped
<1>2. R = {i \in W : Cardinality(upto(i)) <= room}
  BY DEF Read
<1>3. \A i \in W : IsFiniteSet(upto(i)) /\ Cardinality(upto(i)) \in Nat
  BY <1>1, FS_Subset, FS_CardinalityType
<1>4. R \in SUBSET W /\ R \in SUBSET Nat /\ IsFiniteSet(R) /\ Cardinality(R) \in Nat
  BY <1>1, <1>2, FS_Subset, FS_CardinalityType
<1>5. ASSUME NEW i \in R, NEW j \in W, j <= i
      PROVE  j \in R
  <2>1. upto(j) \in SUBSET upto(i)
    <3>1. \A k \in W : k <= j => k <= i
      BY <1>1, <1>4, <1>5
    <3>2. QED
      BY <3>1
  <2>2. Cardinality(upto(j)) <= Cardinality(upto(i))
    BY <1>3, <1>4, <2>1, FS_Subset
  <2>3. Cardinality(upto(i)) <= room
    BY <1>2
  <2>4. Cardinality(upto(i)) \in Nat /\ Cardinality(upto(j)) \in Nat
    BY <1>3, <1>4
  <2>5. Cardinality(upto(j)) <= room
    BY <2>2, <2>3, <2>4
  <2>6. QED
    BY <1>2, <2>5
<1>6. ASSUME R # {}
      PROVE  Position(q, R) \in R /\ \A i \in R : i <= Position(q, R)
  BY <1>4, <1>6, GreatestExists DEF Position
<1>7. Cardinality(R) <= room
  <2>1. CASE R = {}
    BY <2>1, FS_EmptySet
  <2>2. CASE R # {}
    <3>1. PICK i \in R : \A j \in R : j <= i
      BY <1>4, <2>2, GreatestExists
    <3>2. R \in SUBSET upto(i)
      BY <1>4, <3>1
    <3>3. Cardinality(R) <= Cardinality(upto(i))
      BY <1>3, <1>4, <3>2, FS_Subset
    <3>4. Cardinality(upto(i)) <= room
      BY <1>2
    <3>5. QED
      BY <1>3, <1>4, <3>3, <3>4
  <2>3. QED
    BY <2>1, <2>2
<1>8. ASSUME Cardinality(R) < room, W \ R # {}
      PROVE  FALSE
  <2>1. PICK i \in W \ R : \A j \in W \ R : i <= j
    BY <1>1, <1>8, LeastExists
  <2>2. upto(i) \in SUBSET (R \cup {i})
    <3>1. \A j \in W : j <= i => j \in R \/ j = i
      BY <1>1, <2>1
    <3>2. QED
      BY <3>1
  <2>3. IsFiniteSet(R \cup {i}) /\ Cardinality(R \cup {i}) = Cardinality(R) + 1
    BY <1>4, <2>1, FS_AddElement
  <2>4. Cardinality(upto(i)) <= Cardinality(R) + 1
    BY <2>2, <2>3, FS_Subset
  <2>5. Cardinality(upto(i)) <= room
    BY <1>3, <1>4, <1>8, <2>1, <2>4
  <2>6. QED
    BY <1>2, <2>1, <2>5
<1>9. QED
  BY <1>4, <1>5, <1>6, <1>7, <1>8

-----------------------------------------------------------------------------
(* What every step respects, and what that preserves.                      *)

(* Entries stay and do not wait again; settled messages stay settled, and  *)
(* kept ones kept.                                                         *)
Steady ==
    /\ setting' = setting
    /\ \A q \in Queues : \A i \in DOMAIN streams[q] :
          /\ i \in DOMAIN (streams[q])' /\ (streams[q][i])' = streams[q][i]
          /\ i \in Waiting(q)' => i \in Waiting(q)
    /\ done \subseteq done'
    /\ \A m \in Messages : IsSettled(m) => IsSettled(m)'
    /\ \A m \in Messages : \A k \in Nat : KeptAfter(m, k) => KeptAfter(m, k)'

LEMMA EntriesStay ==
    ASSUME setting \in Settings, Steady, NEW m \in Messages
    PROVE  /\ \A i : EntryOf(m, i) => EntryOf(m, i)'
           /\ Added(m) => Added(m)'
<1>1. QueueOf(m) \in Queues /\ QueueOf(m)' = QueueOf(m)
  BY SettingTyped DEF Steady, QueueOf, ToAgent, PriorityOf
<1>2. ASSUME NEW i, EntryOf(m, i)
      PROVE  EntryOf(m, i)'
  BY <1>1, <1>2 DEF Steady, EntryOf
<1>3. ASSUME Added(m)
      PROVE  Added(m)'
  <2>1. PICK i \in DOMAIN streams[QueueOf(m)] : EntryOf(m, i)
    BY <1>3 DEF Added
  <2>2. EntryOf(m, i)'
    BY <1>2, <2>1
  <2>3. QED
    BY <2>2 DEF Added, EntryOf
<1>4. QED
  BY <1>2, <1>3

LEMMA SendingStays ==
    ASSUME setting \in Settings, Steady, NEW x, GoodSending(x)
    PROVE  GoodSending(x)'
<1>1. x.at \in {"meta", "xdel"} => x \in Sending
  BY DEF GoodSending, Idle
<1>2. x.at \in {"meta", "xdel"} => x.sent \in Messages
  BY <1>1 DEF Sending
<1>3. QED
  BY <1>2, EntriesStay DEF GoodSending

LEMMA AnswerStays ==
    ASSUME setting \in Settings, Steady, NEW x, GoodAnswer(x)
    PROVE  GoodAnswer(x)'
<1>1. x \in Answering
  BY DEF GoodAnswer
<1>2. x.message \in Messages /\ (x.sent # NoMessage => x.sent \in Messages)
  BY <1>1 DEF Answering
<1>3. done \subseteq done' /\ ReplyTo' = ReplyTo
  BY DEF Steady, ReplyTo
<1>4. /\ \A i : EntryOf(x.message, i) => EntryOf(x.message, i)'
      /\ x.sent # NoMessage => /\ \A i : EntryOf(x.sent, i) => EntryOf(x.sent, i)'
                               /\ Added(x.sent) => Added(x.sent)'
  BY <1>2, EntriesStay
<1>5. QED
  BY <1>1, <1>3, <1>4 DEF GoodAnswer

LEMMA ClaimStays ==
    ASSUME setting \in Settings, Steady, NEW x, GoodClaim(x)
    PROVE  GoodClaim(x)'
<1>1. /\ x \in Claiming
      /\ x.got \in SUBSET Messages /\ x.before \in SUBSET (Queues \X Nat)
      /\ x.priority \in 0 .. TopPriority
  BY DEF GoodClaim, Claiming
<1>2. setting' = setting /\ PriorityOf' = PriorityOf
  BY DEF Steady, PriorityOf
<1>3. \A m \in x.got : Added(m)'
  BY <1>1, EntriesStay DEF GoodClaim
<1>4. x.todo # {} => x.todo \subseteq DOMAIN (streams[<<setting.claimFor, x.priority>>])'
  <2>1. x.todo # {} => x.priority \in Priorities
    BY <1>1, BusConstants DEF GoodClaim, Priorities
  <2>2. x.todo # {} => <<setting.claimFor, x.priority>> \in Queues
    BY <2>1, SettingTyped
  <2>3. QED
    BY <2>2 DEF GoodClaim, Steady
<1>5. ASSUME NEW e \in x.before
      PROVE  /\ e[2] \in DOMAIN (streams[e[1]])'
             /\ e[2] \in Waiting(e[1])' => e[2] \in Waiting(e[1])
  <2>1. e[1] \in Queues /\ e[2] \in DOMAIN streams[e[1]]
    BY <1>1 DEF GoodClaim
  <2>2. QED
    BY <2>1 DEF Steady
<1>6. QED
  BY <1>1, <1>2, <1>3, <1>4, <1>5 DEF GoodClaim, StillWaits

LEMMA ConsumingStays ==
    ASSUME setting \in Settings, Steady, NEW x, GoodConsuming(x)
    PROVE  GoodConsuming(x)'
BY AnswerStays, ClaimStays DEF GoodConsuming

LEMMA SweepingStays ==
    ASSUME setting \in Settings, InboxOK, Steady, NEW x, GoodSweeping(x)
    PROVE  GoodSweeping(x)'
<1>1. CASE x = Idle
  BY <1>1 DEF GoodSweeping
<1>2. CASE x # Idle
  <2>1. x \in Sweeping /\ x.queue \in Queues /\ x.entry \in Nat
    BY <1>2 DEF GoodSweeping, Sweeping
  <2>2. x.todo \subseteq DOMAIN streams[x.queue] /\ x.entry \in x.todo /\ IsFiniteSet(x.todo)
    BY <1>2 DEF GoodSweeping
  <2>3. x.todo \subseteq DOMAIN (streams[x.queue])' /\ AtHand(x)' = AtHand(x)
    BY <2>1, <2>2 DEF Steady, AtHand
  <2>4. AtHand(x).message \in Messages
    BY <2>1, <2>2, StreamTyped DEF AtHand
  <2>5. x.at \in {"xack", "meta", "deadmeta"} => EntryOf(AtHand(x).message, x.copy)'
    <3>1. PICK m : m = AtHand(x).message
      OBVIOUS
    <3>2. EntryOf(m, x.copy) => EntryOf(m, x.copy)'
      BY <2>4, <3>1, EntriesStay
    <3>3. QED
      BY <1>2, <2>3, <3>1, <3>2 DEF GoodSweeping
  <2>6. x.at = "xack" => KeptAfter(AtHand(x).message, x.entry)'
    <3>1. PICK m : m = AtHand(x).message
      OBVIOUS
    <3>2. KeptAfter(m, x.entry) => KeptAfter(m, x.entry)'
      BY <2>1, <2>4, <3>1 DEF Steady
    <3>3. QED
      BY <1>2, <2>3, <3>1, <3>2 DEF GoodSweeping
  <2>7. QED
    BY <2>1, <2>2, <2>3, <2>5, <2>6 DEF GoodSweeping
<1>3. QED
  BY <1>1, <1>2

LEMMA CallsStay ==
    ASSUME setting \in Settings, InboxOK, CallsOK, Steady
    PROVE  /\ \A s \in Senders : GoodSending(sending[s])'
              \/ sending'[s] # sending[s]
           /\ \A c \in Consumers : GoodConsuming(consuming[c])'
              \/ consuming'[c] # consuming[c]
           /\ \A s \in Sweepers : GoodSweeping(sweeping[s])'
              \/ sweeping'[s] # sweeping[s]
<1>1. ASSUME NEW s \in Senders, sending'[s] = sending[s]
      PROVE  GoodSending(sending[s])'
  <2>1. PICK x : x = sending[s]
    OBVIOUS
  <2>2. GoodSending(x)'
    BY <2>1, SendingStays DEF CallsOK
  <2>3. QED
    BY <1>1, <2>1, <2>2
<1>2. ASSUME NEW c \in Consumers, consuming'[c] = consuming[c]
      PROVE  GoodConsuming(consuming[c])'
  <2>1. PICK x : x = consuming[c]
    OBVIOUS
  <2>2. GoodConsuming(x)'
    BY <2>1, ConsumingStays DEF CallsOK
  <2>3. QED
    BY <1>2, <2>1, <2>2
<1>3. ASSUME NEW s \in Sweepers, sweeping'[s] = sweeping[s]
      PROVE  GoodSweeping(sweeping[s])'
  <2>1. PICK x : x = sweeping[s]
    OBVIOUS
  <2>2. GoodSweeping(x)'
    BY <2>1, SweepingStays DEF CallsOK
  <2>3. QED
    BY <1>3, <2>1, <2>2
<1>4. QED
  BY <1>1, <1>2, <1>3

LEMMA CallsUnchanged ==
    ASSUME setting \in Settings, InboxOK, CallsOK, Steady,
           UNCHANGED <<sending, consuming, sweeping>>
    PROVE  CallsOK'
BY CallsStay DEF CallsOK

LEMMA SendingStep ==
    ASSUME setting \in Settings, InboxOK, CallsOK, Steady, NEW s \in Senders,
           NEW y, GoodSending(y)', sending' = [sending EXCEPT ![s] = y],
           UNCHANGED <<consuming, sweeping>>
    PROVE  CallsOK'
<1>1. y \in Sending \cup {Idle}
  BY DEF GoodSending
<1>2. \A t \in Senders : sending'[t] = IF t = s THEN y ELSE sending[t]
  BY DEF CallsOK
<1>3. \A t \in Senders : GoodSending(sending[t])'
  BY <1>2, CallsStay
<1>4. QED
  BY <1>1, <1>3, CallsStay DEF CallsOK

LEMMA ConsumingStep ==
    ASSUME setting \in Settings, InboxOK, CallsOK, Steady, NEW c \in Consumers,
           NEW y, GoodConsuming(y)', consuming' = [consuming EXCEPT ![c] = y],
           UNCHANGED <<sending, sweeping>>
    PROVE  CallsOK'
<1>1. y \in Claiming \cup Answering \cup {Idle}
  BY DEF GoodConsuming, GoodClaim, GoodAnswer
<1>2. \A t \in Consumers : consuming'[t] = IF t = c THEN y ELSE consuming[t]
  BY DEF CallsOK
<1>3. \A t \in Consumers : GoodConsuming(consuming[t])'
  BY <1>2, CallsStay
<1>4. QED
  BY <1>1, <1>3, CallsStay DEF CallsOK

LEMMA SweepingStep ==
    ASSUME setting \in Settings, InboxOK, CallsOK, Steady, NEW s \in Sweepers,
           NEW y, GoodSweeping(y)', sweeping' = [sweeping EXCEPT ![s] = y],
           UNCHANGED <<sending, consuming>>
    PROVE  CallsOK'
<1>1. y \in Sweeping \cup {Idle}
  BY DEF GoodSweeping
<1>2. \A t \in Sweepers : sweeping'[t] = IF t = s THEN y ELSE sweeping[t]
  BY DEF CallsOK
<1>3. \A t \in Sweepers : GoodSweeping(sweeping[t])'
  BY <1>2, CallsStay
<1>4. QED
  BY <1>1, <1>3, CallsStay DEF CallsOK

-----------------------------------------------------------------------------
(* What the commands do to an inbox.                                       *)

(* A step that touches no inbox.                                           *)
LEMMA QuietInbox ==
    ASSUME setting \in Settings, InboxOK, setting' = setting, UNCHANGED inbox,
           done \subseteq done', \A m \in Messages : IsSettled(m) => IsSettled(m)'
    PROVE  InboxOK' /\ Steady
<1>1. InboxOK'
  BY DEF InboxOK, inbox, QueueOf, ToAgent, PriorityOf
<1>2. \A m \in Messages : QueueOf(m)' = QueueOf(m)
  BY DEF QueueOf, ToAgent, PriorityOf
<1>3. \A q \in Queues : Waiting(q)' = Waiting(q) /\ Open(q)' = Open(q)
  BY DEF Waiting, Open, inbox
<1>4. ASSUME NEW m \in Messages, NEW k \in Nat, KeptAfter(m, k)
      PROVE  KeptAfter(m, k)'
  <2>1. \A i : EntryOf(m, i)' <=> EntryOf(m, i)
    BY <1>2 DEF EntryOf, inbox
  <2>2. QueueOf(m) \in Queues
    BY SettingTyped
  <2>3. QED
    BY <1>2, <1>3, <1>4, <2>1, <2>2 DEF KeptAfter, inbox
<1>5. QED
  BY <1>1, <1>3, <1>4 DEF Steady, inbox

LEMMA KeepsStay ==
    ASSUME setting \in Settings, KeepsOK, Steady, streams' = streams
    PROVE  KeepsOK'
<1>1. ASSUME NEW m \in Messages, Added(m)'
      PROVE  KeptAfter(m, 0)'
  <2>1. Added(m)
    BY <1>1 DEF Added, EntryOf, Steady, QueueOf, ToAgent, PriorityOf
  <2>2. QED
    BY <2>1 DEF KeepsOK, Steady
<1>2. QED
  BY <1>1 DEF KeepsOK

(* XADD: the entry waits, unless MAXLEN removes it with those before it.   *)
LEMMA GrowInbox ==
    ASSUME setting \in Settings, InboxOK, KeepsOK, setting' = setting,
           NEW m \in Messages, NEW n \in Nat, NEW q \in Queues, NEW last,
           q = QueueOf(m), last = Len(streams[q]) + 1, XAdd(q, m, n),
           UNCHANGED <<delivered, pending, dlq, done, replayed>>
    PROVE  /\ InboxOK' /\ Steady /\ KeepsOK'
           /\ EntryOf(m, last)' /\ Added(m)' /\ last \in Nat
           /\ last \in DOMAIN (streams'[q]) /\ \A i \in DOMAIN streams[q] : i < last
           /\ last <= trimmed'[q] \/ last \in Open(q)'
           /\ \A x \in Messages : Added(x)' => Added(x) \/ x = m
<1> DEFINE entry == [message |-> m, retryCount |-> n]
<1>1. QueueOf(m) = q /\ \A x \in Messages : QueueOf(x)' = QueueOf(x)
  BY SettingTyped DEF QueueOf, ToAgent, PriorityOf
<1>2. /\ streams[q] \in Seq(StreamEntry) /\ Len(streams[q]) \in Nat
      /\ DOMAIN streams[q] = 1 .. Len(streams[q]) /\ trimmed[q] \in Nat
  BY <1>1, StreamTyped DEF InboxOK
<1>3. entry \in StreamEntry /\ entry.message = m
  BY DEF StreamEntry
<1>4. streams' = [streams EXCEPT ![q] = Append(streams[q], entry)]
  BY DEF XAdd
<1>5. /\ trimmed' \in [Queues -> Nat]
      /\ \A p \in Queues : trimmed[p] <= trimmed'[p]
      /\ \A p \in Queues : p # q => trimmed'[p] = trimmed[p]
      /\ trimmed'[q] <= last
  <2>1. PICK t \in trimmed[q] .. last : trimmed' = [trimmed EXCEPT ![q] = t]
    BY DEF XAdd
  <2>2. t \in Nat /\ trimmed[q] <= t /\ t <= last
    BY <1>2, <2>1
  <2>3. trimmed \in [Queues -> Nat]
    BY DEF InboxOK
  <2>4. QED
    BY <2>1, <2>2, <2>3
<1> HIDE DEF entry
<1>6. /\ streams'[q] = Append(streams[q], entry)
      /\ \A p \in Queues : p # q => streams'[p] = streams[p]
      /\ streams' \in [Queues -> Seq(StreamEntry)]
  BY <1>1, <1>2, <1>3, <1>4 DEF InboxOK
<1>7. /\ Len(streams'[q]) = last /\ streams'[q][last] = entry
      /\ DOMAIN (streams'[q]) = 1 .. last
      /\ \A i \in 1 .. Len(streams[q]) : streams'[q][i] = streams[q][i]
  BY <1>2, <1>3, <1>6
<1>8. \A p \in Queues : \A i \in DOMAIN streams[p] :
         /\ i \in DOMAIN (streams'[p]) /\ streams'[p][i] = streams[p][i]
         /\ i \in Waiting(p)' <=> (i > delivered[p] /\ i > trimmed'[p])
  <2>1. ASSUME NEW p \in Queues, NEW i \in DOMAIN streams[p]
        PROVE  i \in DOMAIN (streams'[p]) /\ streams'[p][i] = streams[p][i]
    <3>1. CASE p = q
      <4>1. i \in 1 .. Len(streams[q]) /\ i \in 1 .. last
        BY <1>2, <2>1, <3>1
      <4>2. QED
        BY <1>7, <3>1, <4>1
    <3>2. CASE p # q
      BY <1>6, <2>1, <3>2
    <3>3. QED
      BY <3>1, <3>2
  <2>2. QED
    BY <2>1 DEF Waiting
<1>9. \A p \in Queues : \A i \in DOMAIN (streams'[p]) :
         i \in DOMAIN streams[p] \/ (p = q /\ i = last /\ streams'[p][i] = entry)
  BY <1>2, <1>6, <1>7
<1>10. InboxOK'
  <2>1. ASSUME NEW p \in Queues, NEW i \in DOMAIN (streams'[p])
        PROVE  QueueOf(streams[p][i].message)' = p
    <3>1. CASE i \in DOMAIN streams[p]
      <4>1. streams[p][i].message \in Messages /\ QueueOf(streams[p][i].message) = p
        BY <3>1, StreamTyped DEF InboxOK
      <4>2. streams'[p][i] = streams[p][i]
        BY <1>8, <3>1
      <4>3. PICK x : x = streams[p][i].message
        OBVIOUS
      <4>4. QueueOf(x)' = p
        BY <1>1, <4>1, <4>3
      <4>5. QED
        BY <4>2, <4>3, <4>4 DEF QueueOf
    <3>2. CASE p = q /\ i = last /\ streams'[p][i] = entry
      <4>1. QueueOf(m)' = q
        BY <1>1
      <4>2. streams'[p][i].message = m
        BY <1>3, <3>2
      <4>3. QED
        BY <3>2, <4>1, <4>2 DEF QueueOf
    <3>3. QED
      BY <1>9, <3>1, <3>2
  <2>2. \A p \in Queues : trimmed'[p] <= Len(streams'[p]) /\ delivered[p] <= Len(streams'[p])
    <3>1. ASSUME NEW p \in Queues, p # q
          PROVE  trimmed'[p] <= Len(streams'[p]) /\ delivered[p] <= Len(streams'[p])
      BY <1>5, <1>6, <3>1 DEF InboxOK
    <3>2. delivered[q] <= Len(streams[q]) /\ delivered[q] \in Nat
      BY <1>1 DEF InboxOK
    <3>3. trimmed'[q] <= Len(streams'[q]) /\ delivered[q] <= Len(streams'[q])
      BY <1>2, <1>5, <1>7, <3>2
    <3>4. QED
      BY <3>1, <3>3
  <2>3. QED
    BY <1>5, <1>6, <2>1, <2>2 DEF InboxOK
<1>11. \A p \in Queues : \A i \in DOMAIN streams[p] :
          /\ i \in Waiting(p)' => i \in Waiting(p)
          /\ i \in Open(p) => i \in Open(p)' \/ i <= trimmed'[p]
  <2>1. ASSUME NEW p \in Queues, NEW i \in DOMAIN streams[p]
        PROVE  /\ i \in Waiting(p)' => i \in Waiting(p)
               /\ i \in Open(p) => i \in Open(p)' \/ i <= trimmed'[p]
    <3>1. i \in Nat /\ delivered[p] \in Nat /\ trimmed[p] \in Nat /\ trimmed'[p] \in Nat
      BY <1>5, StreamTyped DEF InboxOK
    <3>2. trimmed[p] <= trimmed'[p]
      BY <1>5
    <3>3. i \in Waiting(p) <=> (i > delivered[p] /\ i > trimmed[p])
      BY DEF Waiting
    <3>4. i \in Open(p) <=> (i \in Waiting(p) \/ i \in pending[p])
      BY DEF Open
    <3>5. i \in Open(p)' <=> (i \in Waiting(p)' \/ i \in pending[p])
      BY DEF Open
    <3>6. QED
      BY <1>8, <3>1, <3>2, <3>3, <3>4, <3>5
  <2>2. QED
    BY <2>1
<1>12. \A x \in Messages : IsSettled(x)' <=> IsSettled(x)
  BY DEF IsSettled, InDlq
<1>13. \A x \in Messages : \A i : EntryOf(x, i) => EntryOf(x, i)'
  <2>1. \A x \in Messages : QueueOf(x) \in Queues
    BY SettingTyped
  <2>2. QED
    BY <1>1, <1>8, <2>1 DEF EntryOf
<1>14. ASSUME NEW x \in Messages, NEW k \in Nat, KeptAfter(x, k)
       PROVE  KeptAfter(x, k)'
  <2>1. PICK p \in Queues : QueueOf(x) = p /\ QueueOf(x)' = p
    BY <1>1, SettingTyped
  <2>2. ASSUME NEW i \in DOMAIN streams[p], EntryOf(x, i),
               i <= trimmed[p] \/ (i > k /\ i \in Open(p))
        PROVE  /\ i \in DOMAIN (streams'[p])
               /\ i <= trimmed'[p] \/ (i > k /\ i \in Open(p)')
    <3>1. i \in Nat /\ trimmed[p] \in Nat /\ trimmed'[p] \in Nat
      BY <1>5, StreamTyped DEF InboxOK
    <3>2. trimmed[p] <= trimmed'[p]
      BY <1>5
    <3>3. QED
      BY <1>8, <1>11, <2>2, <3>1, <3>2
  <2>3. QED
    BY <1>12, <1>13, <1>14, <2>1, <2>2 DEF KeptAfter
<1>15. Steady
  BY <1>8, <1>11, <1>12, <1>14 DEF Steady
<1>16. EntryOf(m, last)' /\ last \in DOMAIN (streams'[q])
  BY <1>1, <1>2, <1>3, <1>7 DEF EntryOf
<1>17. last <= trimmed'[q] \/ last \in Open(q)'
  <2>1. last \in Nat /\ last > delivered[q] /\ trimmed'[q] \in Nat
    BY <1>2, <1>5 DEF InboxOK
  <2>2. last > trimmed'[q] => last \in Waiting(q)'
    BY <1>16, <2>1 DEF Waiting
  <2>3. QED
    BY <2>1, <2>2 DEF Open
<1>18. \A x \in Messages : Added(x)' => Added(x) \/ x = m
  <2>1. ASSUME NEW x \in Messages, Added(x)', ~Added(x)
        PROVE  x = m
    <3>1. PICK p \in Queues : QueueOf(x) = p /\ QueueOf(x)' = p
      BY <1>1, SettingTyped
    <3>2. PICK i \in DOMAIN (streams'[p]) : streams'[p][i].message = x
      BY <2>1, <3>1 DEF Added, EntryOf
    <3>3. i \notin DOMAIN streams[p]
      BY <1>8, <2>1, <3>1, <3>2 DEF Added, EntryOf
    <3>4. QED
      BY <1>3, <1>9, <3>2, <3>3
  <2>2. QED
    BY <2>1
<1>19. KeepsOK'
  <2>1. ASSUME NEW x \in Messages, Added(x)
        PROVE  KeptAfter(x, 0)'
    BY <1>15, <2>1 DEF KeepsOK, Steady
  <2>2. KeptAfter(m, 0)'
    <3>1. QueueOf(m)' = q /\ last > 0
      BY <1>1, <1>2
    <3>2. QED
      BY <1>16, <1>17, <3>1 DEF KeptAfter
  <2>3. QED
    BY <1>18, <2>1, <2>2 DEF KeepsOK
<1>20. Added(m)'
  <2>1. QueueOf(m)' = q
    BY <1>1
  <2>2. QED
    BY <1>16, <2>1 DEF Added
<1>21. QED
  BY <1>2, <1>10, <1>15, <1>16, <1>17, <1>18, <1>19, <1>20

(* A step that leaves the streams alone: what it takes off the pending     *)
(* list is settled, or kept by a later entry.                              *)
LEMMA MoveInbox ==
    ASSUME setting \in Settings, InboxOK, KeepsOK, InboxOK', setting' = setting,
           UNCHANGED <<streams, trimmed>>, done \subseteq done',
           \A m \in Messages : IsSettled(m) => IsSettled(m)',
           \A q \in Queues : Waiting(q)' \subseteq Waiting(q),
           \A q \in Queues, m \in Messages, i \in Nat :
              (QueueOf(m) = q /\ EntryOf(m, i) /\ i \in Open(q)) =>
                 i \in Open(q)' \/ KeptAfter(m, i)'
    PROVE  Steady /\ KeepsOK'
<1>1. ASSUME NEW m \in Messages, NEW k \in Nat, KeptAfter(m, k)
      PROVE  KeptAfter(m, k)'
  <2>1. PICK q \in Queues : QueueOf(m) = q /\ QueueOf(m)' = q
    BY SettingTyped DEF QueueOf, ToAgent, PriorityOf
  <2>2. CASE IsSettled(m)
    BY <2>2 DEF KeptAfter
  <2>3. ASSUME NEW i \in DOMAIN streams[q], EntryOf(m, i),
               i <= trimmed[q] \/ (i > k /\ i \in Open(q))
        PROVE  KeptAfter(m, k)'
    <3>9. DOMAIN streams[q] \in SUBSET Nat
      BY StreamTyped
    <3>1. EntryOf(m, i)' /\ i \in Nat /\ i \in DOMAIN (streams'[q])
      BY <2>1, <2>3, <3>9 DEF EntryOf
    <3>2. CASE i <= trimmed[q]
      BY <2>1, <3>1, <3>2 DEF KeptAfter
    <3>3. CASE i > k /\ i \in Open(q)'
      BY <2>1, <3>1, <3>3 DEF KeptAfter
    <3>4. CASE i > k /\ KeptAfter(m, i)'
      <4>1. CASE IsSettled(m)'
        BY <4>1 DEF KeptAfter
      <4>2. ASSUME NEW j \in DOMAIN (streams'[q]), EntryOf(m, j)',
                   j <= trimmed'[q] \/ (j > i /\ j \in Open(q)')
            PROVE  KeptAfter(m, k)'
        <5>1. j \in Nat
          BY <3>9
        <5>2. j <= trimmed'[q] \/ (j > k /\ j \in Open(q)')
          BY <3>1, <3>4, <4>2, <5>1
        <5>3. QED
          BY <2>1, <4>2, <5>2 DEF KeptAfter
      <4>3. QED
        BY <2>1, <3>4, <4>1, <4>2 DEF KeptAfter
    <3>5. QED
      BY <2>1, <2>3, <3>1, <3>2, <3>3, <3>4
  <2>4. QED
    BY <1>1, <2>1, <2>2, <2>3 DEF KeptAfter
<1>2. Steady
  BY <1>1 DEF Steady
<1>3. QED
  BY <1>2, KeepsStay

(* XREADGROUP: what it delivers is pending.                                *)
LEMMA ReadInbox ==
    ASSUME setting \in Settings, InboxOK, KeepsOK, setting' = setting,
           NEW q \in Queues, NEW room \in Nat \ {0}, NEW entries,
           entries = Read(q, room), pending' = [pending EXCEPT ![q] = @ \cup entries],
           delivered' = [delivered EXCEPT ![q] = Position(q, entries)],
           UNCHANGED <<streams, trimmed, dlq, done, replayed>>
    PROVE  /\ InboxOK' /\ Steady /\ KeepsOK'
           /\ \A i \in Waiting(q)' : i \notin entries
<1>1. /\ entries \in SUBSET Waiting(q) /\ IsFiniteSet(entries)
      /\ entries # {} => /\ Position(q, entries) \in entries
                         /\ \A i \in entries : i <= Position(q, entries)
                         /\ \A i \in Waiting(q) : i <= Position(q, entries) => i \in entries
  BY ReadFacts
<1>2. entries = {} => Position(q, entries) = delivered[q]
  BY DEF Position
<1>3. PICK position : position = Position(q, entries)
  OBVIOUS
<1>4. /\ DOMAIN streams[q] = 1 .. Len(streams[q]) /\ Len(streams[q]) \in Nat
      /\ delivered[q] \in Nat /\ delivered[q] <= Len(streams[q])
      /\ pending[q] \in SUBSET Nat /\ trimmed[q] \in Nat
  BY StreamTyped DEF InboxOK
<1>5. \A i \in Waiting(q) : /\ i \in 1 .. Len(streams[q]) /\ i > delivered[q]
  BY <1>4 DEF Waiting
<1>6. position \in Nat /\ delivered[q] <= position /\ position <= Len(streams[q])
  BY <1>1, <1>2, <1>3, <1>4, <1>5
<1>7. \A p \in Queues : /\ delivered'[p] = IF p = q THEN position ELSE delivered[p]
                        /\ pending'[p] = IF p = q THEN pending[q] \cup entries ELSE pending[p]
  BY <1>3 DEF InboxOK
<1>8. \A i \in pending[q] \cup entries : i \in Nat /\ 1 <= i /\ i <= position
  <2>1. \A i \in pending[q] : i \in Nat /\ 1 <= i /\ i <= delivered[q]
    BY <1>4 DEF InboxOK
  <2>2. \A i \in entries : i \in Nat /\ 1 <= i /\ i <= position
    BY <1>1, <1>3, <1>4, <1>5
  <2>3. QED
    BY <1>4, <1>6, <2>1, <2>2
<1>9. InboxOK'
  <2>1. delivered' \in [Queues -> Nat] /\ pending' \in [Queues -> SUBSET Nat]
    <3>1. pending[q] \cup entries \in SUBSET Nat
      BY <1>8
    <3>2. QED
      BY <1>3, <1>6, <3>1 DEF InboxOK
  <2>2. \A p \in Queues : \A i \in DOMAIN streams[p] : QueueOf(streams[p][i].message)' = p
    BY DEF InboxOK, QueueOf, ToAgent, PriorityOf
  <2>3. \A p \in Queues : /\ delivered'[p] <= Len(streams[p])
                          /\ \A i \in pending'[p] : 1 <= i /\ i <= delivered'[p]
    BY <1>6, <1>7, <1>8 DEF InboxOK
  <2>4. QED
    BY <2>1, <2>2, <2>3 DEF InboxOK
<1>10. \A p \in Queues : \A i \in Nat :
          i \in Waiting(p)' <=> (i \in Waiting(p) /\ (p = q => i > position))
  <2>1. \A p \in Queues : \A i \in Nat :
          i \in Waiting(p)' <=> (i \in DOMAIN streams[p] /\ i > delivered'[p] /\ i > trimmed[p])
    BY DEF Waiting
  <2>2. QED
    BY <1>4, <1>6, <1>7, <2>1 DEF Waiting
<1>11. \A p \in Queues : Waiting(p)' \in SUBSET Nat
  <2>1. \A p \in Queues : DOMAIN streams[p] \in SUBSET Nat
    BY StreamTyped
  <2>2. QED
    BY <2>1 DEF Waiting
<1>12. \A p \in Queues : Waiting(p)' \subseteq Waiting(p)
  BY <1>10, <1>11
<1>13. ASSUME NEW p \in Queues, NEW i \in Nat, i \in Open(p)
       PROVE  i \in Open(p)'
  <2>1. CASE i \in pending[p]
    BY <1>7, <2>1 DEF Open
  <2>2. CASE i \in Waiting(p) /\ p # q
    BY <1>10, <2>2 DEF Open
  <2>3. CASE i \in Waiting(p) /\ p = q
    <3>1. CASE i > position
      BY <1>10, <2>3, <3>1 DEF Open
    <3>2. CASE i <= position
      <4>1. i \in entries
        BY <1>1, <1>2, <1>3, <1>4, <1>5, <2>3, <3>2
      <4>2. QED
        BY <1>7, <2>3, <4>1 DEF Open
    <3>3. QED
      BY <1>6, <3>1, <3>2
  <2>4. QED
    BY <1>13, <2>1, <2>2, <2>3 DEF Open
<1>14. Steady /\ KeepsOK'
  <2>1. \A m \in Messages : IsSettled(m)' <=> IsSettled(m)
    BY DEF IsSettled, InDlq
  <2>2. QED
    BY <1>9, <1>12, <1>13, <2>1, MoveInbox
<1>15. \A i \in Waiting(q)' : i \notin entries
  BY <1>1, <1>3, <1>6, <1>10, <1>11, <1>8
<1>16. QED
  BY <1>9, <1>14, <1>15

(* Entries taken off a pending list.                                       *)
LEMMA RemoveInbox ==
    ASSUME setting \in Settings, InboxOK, KeepsOK, setting' = setting,
           NEW q \in Queues, NEW gone, pending' = [pending EXCEPT ![q] = @ \ gone],
           UNCHANGED <<streams, trimmed, delivered>>, done \subseteq done',
           \A m \in Messages : IsSettled(m) => IsSettled(m)',
           \A m \in Messages, i \in gone :
              (QueueOf(m) = q /\ EntryOf(m, i)) => KeptAfter(m, i)'
    PROVE  InboxOK' /\ Steady /\ KeepsOK'
<1>1. \A p \in Queues : pending'[p] = IF p = q THEN pending[q] \ gone ELSE pending[p]
  BY DEF InboxOK
<1>2. \A p \in Queues : Waiting(p)' = Waiting(p)
  BY DEF Waiting
<1>3. InboxOK'
  <2>1. \A p \in Queues : \A i \in DOMAIN streams[p] : QueueOf(streams[p][i].message)' = p
    BY DEF InboxOK, QueueOf, ToAgent, PriorityOf
  <2>2. pending' \in [Queues -> SUBSET Nat]
    BY DEF InboxOK
  <2>3. \A p \in Queues : \A i \in pending'[p] : i \in pending[p]
    BY <1>1
  <2>4. QED
    BY <2>1, <2>2, <2>3 DEF InboxOK
<1>4. \A p \in Queues, m \in Messages, i \in Nat :
         (QueueOf(m) = p /\ EntryOf(m, i) /\ i \in Open(p)) => i \in Open(p)' \/ KeptAfter(m, i)'
  <2>1. ASSUME NEW p \in Queues, NEW m \in Messages, NEW i \in Nat,
               QueueOf(m) = p, EntryOf(m, i), i \in Open(p)
        PROVE  i \in Open(p)' \/ KeptAfter(m, i)'
    <3>1. i \in Waiting(p) \/ i \in pending[p]
      BY <2>1 DEF Open
    <3>2. CASE i \in Waiting(p)
      BY <1>2, <3>2 DEF Open
    <3>3. CASE i \in pending[p] /\ (p = q => i \notin gone)
      BY <1>1, <3>3 DEF Open
    <3>4. CASE p = q /\ i \in gone
      BY <2>1, <3>4
    <3>5. QED
      BY <3>1, <3>2, <3>3, <3>4
  <2>2. QED
    BY <2>1
<1>5. Steady /\ KeepsOK'
  BY <1>2, <1>3, <1>4, MoveInbox
<1>6. QED
  BY <1>3, <1>5

(* XAUTOCLAIM drops what MAXLEN removed.                                   *)
LEMMA DropInbox ==
    ASSUME setting \in Settings, InboxOK, KeepsOK, setting' = setting,
           NEW q \in Queues, NEW gone, pending' = [pending EXCEPT ![q] = @ \ gone],
           UNCHANGED <<streams, trimmed, delivered, dlq, done, replayed>>,
           \A i \in gone : i <= trimmed[q]
    PROVE  InboxOK' /\ Steady /\ KeepsOK'
<1>1. \A m \in Messages : IsSettled(m)' <=> IsSettled(m)
  BY DEF IsSettled, InDlq
<1>2. ASSUME NEW m \in Messages, NEW i \in gone, QueueOf(m) = q, EntryOf(m, i)
      PROVE  KeptAfter(m, i)'
  <2>1. QueueOf(m)' = q /\ EntryOf(m, i)'
    BY <1>2 DEF QueueOf, ToAgent, PriorityOf, EntryOf
  <2>2. QED
    BY <2>1 DEF KeptAfter, EntryOf
<1>3. QED
  BY <1>1, <1>2, RemoveInbox

(* XACK of an entry whose message is settled, or kept by a later entry.    *)
LEMMA AckInbox ==
    ASSUME setting \in Settings, InboxOK, KeepsOK, setting' = setting,
           NEW q \in Queues, NEW entry, XAck(q, entry),
           UNCHANGED <<streams, trimmed, delivered>>, done \subseteq done',
           \A m \in Messages : IsSettled(m) => IsSettled(m)',
           NEW m \in Messages, QueueOf(m) = q, EntryOf(m, entry),
           IsSettled(m)' \/ KeptAfter(m, entry)
    PROVE  InboxOK' /\ Steady /\ KeepsOK'
<1>1. KeptAfter(m, entry)'
  <2>1. CASE IsSettled(m) \/ IsSettled(m)'
    BY <2>1 DEF KeptAfter
  <2>2. ASSUME NEW j \in DOMAIN streams[q], EntryOf(m, j),
               j <= trimmed[q] \/ (j > entry /\ j \in Open(q))
        PROVE  KeptAfter(m, entry)'
    <3>1. QueueOf(m)' = q /\ EntryOf(m, j)'
      BY <2>2 DEF QueueOf, ToAgent, PriorityOf, EntryOf
    <3>2. j \in Nat /\ entry \in Nat
      BY StreamTyped DEF EntryOf
    <3>3. Waiting(q)' = Waiting(q) /\ pending'[q] = pending[q] \ {entry}
      BY DEF Waiting, XAck, InboxOK
    <3>4. (j > entry /\ j \in Open(q)) => j \in Open(q)'
      BY <3>2, <3>3 DEF Open
    <3>5. QED
      BY <2>2, <3>1, <3>4 DEF KeptAfter
  <2>3. QED
    BY <2>1, <2>2 DEF KeptAfter
<1>2. PICK gone : gone = {entry}
  OBVIOUS
<1>3. \A x \in Messages, i \in gone :
         (QueueOf(x) = q /\ EntryOf(x, i)) => KeptAfter(x, i)'
  BY <1>1, <1>2 DEF EntryOf
<1>4. pending' = [pending EXCEPT ![q] = @ \ gone]
  BY <1>2 DEF XAck
<1>5. QED
  BY <1>3, <1>4, RemoveInbox

-----------------------------------------------------------------------------
(* What the commands do to the metadata and to the rest.                   *)

LEMMA MetaStays ==
    ASSUME setting \in Settings, MetaOK, Steady, meta' = meta
    PROVE  MetaOK'
<1>1. \A m \in Messages : \A i : EntryOf(m, i) => EntryOf(m, i)'
  BY EntriesStay
<1>2. QED
  BY <1>1 DEF MetaOK

LEMMA MetaWritten ==
    ASSUME setting \in Settings, MetaOK, Steady, NEW m \in Messages, NEW i \in Nat,
           EntryOf(m, i)', NEW status \in {"queued", "claimed", "acked", "dead_letter"},
           WriteMeta(m, status, i)
    PROVE  MetaOK'
<1> DEFINE new == [status |-> status, entry |-> i]
<1>1. \A x \in Messages : \A j : EntryOf(x, j) => EntryOf(x, j)'
  BY EntriesStay
<1>2. new \in Meta /\ new.entry = i
  BY DEF Meta
<1>3. meta' = [meta EXCEPT ![m] = new]
  BY DEF WriteMeta
<1> HIDE DEF new
<1>4. \A x \in Messages : meta'[x] = IF x = m THEN new ELSE meta[x]
  BY <1>3 DEF MetaOK
<1>5. meta' \in [Messages -> Meta \cup {NoMeta}]
  <2>1. meta \in [Messages -> Meta \cup {NoMeta}]
    BY DEF MetaOK
  <2>2. QED
    BY <1>2, <1>3, <2>1
<1>6. ASSUME NEW x \in Messages, meta'[x] # NoMeta
      PROVE  EntryOf(x, meta[x].entry)'
  <2>1. CASE x = m
    <3>1. meta'[x].entry = i
      BY <1>2, <1>4, <2>1
    <3>2. QED
      BY <2>1, <3>1 DEF EntryOf
  <2>2. CASE x # m
    <3>1. PICK j : j = meta[x].entry
      OBVIOUS
    <3>2. meta'[x].entry = j /\ EntryOf(x, j)'
      BY <1>1, <1>4, <1>6, <2>2, <3>1 DEF MetaOK
    <3>3. QED
      BY <3>2 DEF EntryOf
  <2>3. QED
    BY <2>1, <2>2
<1>7. QED
  BY <1>5, <1>6 DEF MetaOK

LEMMA MetaRead ==
    ASSUME MetaOK, NEW m \in Messages, meta[m] # NoMeta
    PROVE  meta[m].entry \in Nat /\ EntryOf(m, meta[m].entry)
BY DEF MetaOK, Meta

LEMMA WorkStep ==
    ASSUME setting \in Settings, WorkOK, Steady,
           registry' \in SUBSET Agents, used' \in SUBSET Messages,
           dlq' \in SUBSET Letter, buried' \in Nat, faults' \in Nat,
           done' \in SUBSET Messages, replayed' \in SUBSET Messages,
           held' \in [Consumers -> SUBSET Messages],
           replies' \in [Messages -> Messages \cup {NoMessage}],
           \A c \in Consumers : \A m \in held'[c] : m \in held[c] \/ Added(m),
           \A m \in Messages : IsSettled(m)' => IsSettled(m) \/ Added(m),
           \A m \in Messages : replies'[m] # NoMessage =>
              \/ replies'[m] = replies[m]
              \/ ReplyTo[replies'[m]] = m /\ m \in done /\ Added(replies'[m])
    PROVE  WorkOK'
<1>1. \A m \in Messages : Added(m) => Added(m)'
  BY EntriesStay
<1>2. \A c \in Consumers : \A m \in held'[c] : Added(m)'
  BY <1>1 DEF WorkOK
<1>3. \A m \in Messages : IsSettled(m)' => Added(m)'
  BY <1>1 DEF WorkOK
<1>4. \A m \in Messages : replies'[m] # NoMessage =>
         ReplyTo[replies'[m]] = m /\ m \in done /\ Added(replies'[m])
  BY DEF WorkOK
<1>5. ASSUME NEW m \in Messages, replies'[m] # NoMessage
      PROVE  ReplyTo[replies[m]]' = m /\ m \in done' /\ Added(replies[m])'
  <2>1. PICK r \in Messages : r = replies'[m]
    BY <1>5
  <2>2. ReplyTo[r] = m /\ m \in done /\ Added(r)
    BY <1>4, <1>5, <2>1
  <2>3. ReplyTo' = ReplyTo /\ m \in done' /\ Added(r)'
    BY <1>1, <2>2 DEF Steady, ReplyTo
  <2>4. Added(replies[m])'
    BY <2>1, <2>3 DEF Added, EntryOf, QueueOf
  <2>5. ReplyTo[replies[m]]' = m
    BY <2>1, <2>2, <2>3
  <2>6. QED
    BY <2>3, <2>4, <2>5
<1>6. QED
  BY <1>2, <1>3, <1>5 DEF WorkOK, Steady, ReplyTo

LEMMA WorkStays ==
    ASSUME setting \in Settings, WorkOK, Steady,
           UNCHANGED <<registry, used, dlq, buried, faults, held, done, replayed, replies>>
    PROVE  WorkOK'
<1>1. \A m \in Messages : IsSettled(m)' <=> IsSettled(m)
  BY DEF IsSettled, InDlq
<1>2. QED
  BY <1>1, WorkStep DEF WorkOK

-----------------------------------------------------------------------------
(* Each action preserves the invariant.  First the senders.                *)

LEMMA EnqueueKeeps ==
    ASSUME IInv, setting' = setting, NEW x, x.sent \in Messages, Enqueue(x),
           x.at = "meta" => x.entry \in Nat /\ EntryOf(x.sent, x.entry),
           UNCHANGED <<delivered, pending, dlq, replies, held, used, buried, done,
                       replayed, faults>>
    PROVE  /\ setting' \in Settings /\ InboxOK' /\ MetaOK' /\ WorkOK' /\ KeepsOK' /\ Steady
           /\ x.at = "xadd" =>
                 \A n : n = Len(streams[QueueOf(x.sent)]) + 1 =>
                    n \in Nat /\ EntryOf(x.sent, n)' /\ Added(x.sent)'
           /\ x.at = "meta" => EntryOf(x.sent, x.entry)' /\ Added(x.sent)'
<1>1. /\ setting \in Settings /\ InboxOK /\ MetaOK /\ WorkOK /\ KeepsOK
      /\ registry \in SUBSET Agents /\ ToAgent[x.sent] \in Agents
  BY SettingTyped DEF IInv, WorkOK
<1>2. \A m \in Messages : IsSettled(m)' <=> IsSettled(m)
  BY DEF IsSettled, InDlq
<1>3. CASE x.at = "register"
  <2>1. /\ registry' = registry \cup {ToAgent[x.sent]}
        /\ UNCHANGED <<streams, trimmed, meta>>
    BY <1>3 DEF Enqueue
  <2>2. InboxOK' /\ Steady
    BY <1>1, <1>2, <2>1, QuietInbox DEF inbox
  <2>3. MetaOK' /\ KeepsOK'
    BY <1>1, <2>1, <2>2, MetaStays, KeepsStay
  <2>4. WorkOK'
    BY <1>1, <1>2, <2>1, <2>2, WorkStep DEF WorkOK
  <2>5. QED
    BY <1>1, <1>3, <2>2, <2>3, <2>4
<1>4. CASE x.at = "xadd"
  <2>1. XAdd(QueueOf(x.sent), x.sent, 0) /\ UNCHANGED <<registry, meta>>
    BY <1>4 DEF Enqueue
  <2>2. PICK q \in Queues : q = QueueOf(x.sent)
    BY <1>1, SettingTyped
  <2>3. PICK last : last = Len(streams[q]) + 1
    OBVIOUS
  <2>4. /\ InboxOK' /\ Steady /\ KeepsOK'
        /\ EntryOf(x.sent, last)' /\ Added(x.sent)' /\ last \in Nat
    BY <1>1, <2>1, <2>2, <2>3, GrowInbox
  <2>5. MetaOK'
    BY <1>1, <2>1, <2>4, MetaStays
  <2>6. WorkOK'
    BY <1>1, <1>2, <2>1, <2>4, WorkStays
  <2>7. QED
    BY <1>1, <1>4, <2>2, <2>3, <2>4, <2>5, <2>6
<1>5. CASE x.at = "meta"
  <2>1. /\ WriteMeta(x.sent, "queued", x.entry)
        /\ UNCHANGED <<streams, trimmed, registry>>
    BY <1>5 DEF Enqueue
  <2>2. InboxOK' /\ Steady
    BY <1>1, <1>2, <2>1, QuietInbox DEF inbox
  <2>3. EntryOf(x.sent, x.entry)' /\ Added(x.sent)'
    <3>1. Added(x.sent)
      BY <1>5 DEF Added, EntryOf
    <3>2. QED
      BY <1>1, <1>5, <2>2, <3>1, EntriesStay
  <2>4. MetaOK' /\ KeepsOK' /\ WorkOK'
    BY <1>1, <1>5, <2>1, <2>2, <2>3, MetaWritten, KeepsStay, WorkStays
  <2>5. QED
    BY <1>1, <1>5, <2>2, <2>3, <2>4
<1>6. QED
  BY <1>3, <1>4, <1>5 DEF Enqueue

LEMMA IdleIsGood == /\ GoodSending(Idle)' /\ GoodConsuming(Idle)' /\ GoodSweeping(Idle)'
BY DEF GoodSending, GoodConsuming, GoodSweeping, Idle

(* Steps that leave the inboxes and the metadata alone.                    *)
LEMMA QuietKeeps ==
    ASSUME IInv, setting' = setting, UNCHANGED inbox, UNCHANGED meta,
           done \subseteq done', \A m \in Messages : IsSettled(m) => IsSettled(m)'
    PROVE  setting' \in Settings /\ InboxOK' /\ MetaOK' /\ KeepsOK' /\ Steady
<1>1. setting \in Settings /\ InboxOK /\ MetaOK /\ KeepsOK
  BY DEF IInv
<1>2. InboxOK' /\ Steady
  BY <1>1, QuietInbox
<1>3. streams' = streams
  BY DEF inbox
<1>4. QED
  BY <1>1, <1>2, <1>3, MetaStays, KeepsStay

LEMMA SenderStarts ==
    ASSUME IInv, setting' = setting, NEW s \in Senders, NEW m \in Messages, NEW letter \in Nat,
           used' = used \cup {m},
           sending' = [sending EXCEPT
                ![s] = [at |-> "register", sent |-> m, entry |-> 0, letter |-> letter]],
           UNCHANGED <<inbox, registry, meta, dlq, replies, consuming, sweeping, held,
                       buried, history, faults>>
    PROVE  IInv'
<1>1. \A x \in Messages : IsSettled(x)' <=> IsSettled(x)
  BY DEF IsSettled, InDlq, history
<1>2. /\ setting \in Settings /\ InboxOK /\ CallsOK /\ WorkOK
      /\ setting' \in Settings /\ InboxOK' /\ MetaOK' /\ KeepsOK' /\ Steady
  BY <1>1, QuietKeeps DEF IInv, history
<1>3. PICK y : y = [at |-> "register", sent |-> m, entry |-> 0, letter |-> letter]
  OBVIOUS
<1>4. y \in Sending /\ y.at = "register"
  BY <1>3 DEF Sending
<1>5. GoodSending(y)'
  BY <1>4 DEF GoodSending
<1>6. CallsOK'
  BY <1>2, <1>3, <1>5, SendingStep
<1>7. WorkOK'
  BY <1>1, <1>2, WorkStep DEF WorkOK, history
<1>8. QED
  BY <1>2, <1>6, <1>7 DEF IInv

LEMMA DispatchKeeps ==
    ASSUME IInv, setting' = setting, NEW s \in Senders, NEW m \in Messages, Dispatch(s, m)
    PROVE  IInv'
BY SenderStarts DEF Dispatch

LEMMA ReplayStartKeeps ==
    ASSUME IInv, setting' = setting, NEW s \in Senders, NEW m \in Messages, ReplayStart(s, m)
    PROVE  IInv'
<1>1. PICK d \in dlq : sending' = [sending EXCEPT
         ![s] = [at |-> "register", sent |-> m, entry |-> 0, letter |-> d.number]]
  BY DEF ReplayStart
<1>2. d.number \in Nat
  BY DEF IInv, WorkOK, Letter
<1>3. QED
  BY <1>1, <1>2, SenderStarts DEF ReplayStart

LEMMA SendKeeps ==
    ASSUME IInv, setting' = setting, NEW s \in Senders, Send(s)
    PROVE  IInv'
<1>1. PICK x : x = sending[s]
  OBVIOUS
<1>2. x \in Sending /\ x.sent \in Messages /\ x.entry \in Nat
  BY <1>1 DEF Send, IInv, CallsOK, Sending
<1>3. x.at = "meta" => EntryOf(x.sent, x.entry)
  BY <1>1 DEF IInv, CallsOK, GoodSending
<1>4. /\ Enqueue(x)
      /\ UNCHANGED <<delivered, pending, dlq, replies, held, used, buried, done,
                     replayed, faults, consuming, sweeping>>
      /\ sending' = [sending EXCEPT
            ![s] = Enqueued(x, IF x.letter = 0 THEN Idle ELSE [x EXCEPT !.at = "xdel"])]
  BY <1>1 DEF Send, history
<1>5. /\ setting' \in Settings /\ InboxOK' /\ MetaOK' /\ WorkOK' /\ KeepsOK' /\ Steady
      /\ x.at = "xadd" =>
            \A n : n = Len(streams[QueueOf(x.sent)]) + 1 => n \in Nat /\ EntryOf(x.sent, n)'
      /\ x.at = "meta" => EntryOf(x.sent, x.entry)'
  BY <1>2, <1>3, <1>4, EnqueueKeeps
<1>6. PICK y : y = Enqueued(x, IF x.letter = 0 THEN Idle ELSE [x EXCEPT !.at = "xdel"])
  OBVIOUS
<1>7. GoodSending(y)'
  <2>1. CASE x.at = "register"
    <3>1. y = [x EXCEPT !.at = "xadd"]
      BY <1>6, <2>1 DEF Enqueued
    <3>2. y \in Sending /\ y.at = "xadd"
      BY <1>2, <3>1 DEF Sending
    <3>3. QED
      BY <3>2 DEF GoodSending
  <2>2. CASE x.at = "xadd"
    <3>1. PICK n : n = Len(streams[QueueOf(x.sent)]) + 1
      OBVIOUS
    <3>2. y = [x EXCEPT !.at = "meta", !.entry = n]
      BY <1>6, <2>2, <3>1 DEF Enqueued
    <3>3. n \in Nat /\ EntryOf(x.sent, n)'
      BY <1>5, <2>2, <3>1
    <3>4. y \in Sending /\ y.sent = x.sent /\ y.entry = n
      BY <1>2, <3>2, <3>3 DEF Sending
    <3>5. QED
      BY <3>3, <3>4 DEF GoodSending
  <2>3. CASE x.at \notin {"register", "xadd"}
    <3>1. y = Idle \/ y = [x EXCEPT !.at = "xdel"]
      BY <1>6, <2>3 DEF Enqueued
    <3>2. EntryOf(x.sent, x.entry)'
      BY <1>4, <1>5, <2>3 DEF Enqueue
    <3>3. y = [x EXCEPT !.at = "xdel"] =>
             y \in Sending /\ y.sent = x.sent /\ y.entry = x.entry
      BY <1>2 DEF Sending
    <3>4. QED
      BY <3>1, <3>2, <3>3, IdleIsGood DEF GoodSending
  <2>4. QED
    BY <2>1, <2>2, <2>3
<1>8. CallsOK'
  BY <1>4, <1>5, <1>6, <1>7, SendingStep DEF IInv
<1>9. QED
  BY <1>5, <1>8 DEF IInv

(* What replayDlq removes is in the stream again.                          *)
LEMMA ReplayEndsSent ==
    ASSUME IInv, NEW s \in Senders, ReplayEnd(s)
    PROVE  Accepted(sending[s].sent)
<1>1. PICK x : x = sending[s]
  OBVIOUS
<1>2. GoodSending(x) /\ x.at = "xdel"
  BY <1>1 DEF IInv, CallsOK, ReplayEnd
<1>3. x \in Sending /\ x.sent \in Messages /\ EntryOf(x.sent, x.entry)
  BY <1>2 DEF GoodSending, Idle, Sending
<1>4. QueueOf(x.sent) \in Queues
  BY <1>3, SettingTyped DEF IInv
<1>5. QED
  BY <1>1, <1>3, <1>4 DEF Accepted, EntryOf

LEMMA ReplayEndKeeps ==
    ASSUME IInv, setting' = setting, NEW s \in Senders, ReplayEnd(s)
    PROVE  IInv'
<1> DEFINE letters == {d \in dlq : d.number = sending[s].letter}
<1>1. /\ dlq' = dlq \ letters /\ replayed' = replayed \cup {d.message : d \in letters}
      /\ sending' = [sending EXCEPT ![s] = Idle]
      /\ UNCHANGED <<inbox, registry, meta, replies, consuming, sweeping, held, used,
                     buried, done, faults>>
  BY ReplayEndsSent DEF ReplayEnd
<1>2. dlq \in SUBSET Letter
  BY DEF IInv, WorkOK
<1>3. {d.message : d \in letters} \in SUBSET Messages
  BY <1>2 DEF Letter
<1>4. \A m \in Messages : IsSettled(m)' <=> IsSettled(m)
  BY <1>1 DEF IsSettled, InDlq
<1> HIDE DEF letters
<1>5. /\ setting \in Settings /\ InboxOK /\ CallsOK /\ WorkOK
      /\ setting' \in Settings /\ InboxOK' /\ MetaOK' /\ KeepsOK' /\ Steady
  BY <1>1, <1>4, QuietKeeps DEF IInv
<1>6. CallsOK'
  BY <1>1, <1>5, SendingStep, IdleIsGood
<1>7. WorkOK'
  BY <1>1, <1>2, <1>3, <1>4, <1>5, WorkStep DEF WorkOK
<1>8. QED
  BY <1>5, <1>6, <1>7 DEF IInv

-----------------------------------------------------------------------------
(* Claims.                                                                 *)

LEMMA ClaimAtHand ==
    ASSUME IInv, NEW c \in Consumers, NEW x, x = consuming[c], x.at = "claim"
    PROVE  /\ GoodClaim(x) /\ x \in Claiming
           /\ x.priority \in 0 .. TopPriority /\ x.priority \in Nat /\ x.room \in Nat
           /\ x.todo \in SUBSET Nat /\ x.got \in SUBSET Messages
           /\ x.before \in SUBSET (Queues \X Nat)
<1>1. GoodClaim(x)
  <2>1. GoodConsuming(x)
    BY DEF IInv, CallsOK
  <2>2. ~GoodAnswer(x) /\ x # Idle
    BY DEF GoodAnswer, Answering, Idle
  <2>3. QED
    BY <2>1, <2>2 DEF GoodConsuming
<1>2. x \in Claiming
  BY <1>1 DEF GoodClaim
<1>3. QED
  BY <1>1, <1>2, BusConstants DEF Claiming

LEMMA ClaimStartKeeps ==
    ASSUME IInv, setting' = setting, NEW c \in Consumers, ClaimStart(c)
    PROVE  IInv'
<1>1. \A m \in Messages : IsSettled(m)' <=> IsSettled(m)
  BY DEF IsSettled, InDlq, ClaimStart, history
<1>2. /\ setting \in Settings /\ InboxOK /\ CallsOK /\ WorkOK
      /\ setting' \in Settings /\ InboxOK' /\ MetaOK' /\ KeepsOK' /\ Steady
  BY <1>1, QuietKeeps DEF IInv, ClaimStart, history
<1>3. PICK before : before = {e \in Queues \X (1 .. MaxEntries) :
                                 e[1][1] = setting.claimFor /\ e[2] \in Waiting(e[1])}
  OBVIOUS
<1>4. before \in SUBSET (Queues \X Nat)
  BY <1>3, BusConstants
<1>5. ASSUME NEW e \in before
      PROVE  /\ e[1][1] = setting.claimFor /\ e[2] \in DOMAIN streams[e[1]]
             /\ e[1][2] <= TopPriority
  BY <1>3 DEF Waiting, Queues, Priorities
<1>6. PICK y : y = [at |-> "claim", priority |-> TopPriority, todo |-> {},
                    room |-> setting.claimCount, got |-> {}, before |-> before]
  OBVIOUS
<1>7. y \in Claiming
  <2>1. TopPriority \in 0 .. TopPriority /\ setting.claimCount \in Nat
    BY <1>2, BusConstants, SettingTyped
  <2>2. QED
    BY <1>4, <1>6, <2>1 DEF Claiming
<1>8. GoodClaim(y)'
  <2>1. /\ y.todo = {} /\ y.got = {} /\ y.room \in Nat /\ y.before = before
        /\ y.priority = TopPriority
    BY <1>2, <1>6, SettingTyped
  <2>2. IsFiniteSet(y.todo) /\ Cardinality(y.todo) <= y.room
    BY <2>1, FS_EmptySet
  <2>3. streams' = streams
    BY DEF ClaimStart, inbox
  <2>4. QED
    BY <1>5, <1>7, <2>1, <2>2, <2>3 DEF GoodClaim
<1>9. CallsOK'
  <2>1. consuming' = [consuming EXCEPT ![c] = y] /\ UNCHANGED <<sending, sweeping>>
    BY <1>3, <1>6 DEF ClaimStart
  <2>2. QED
    BY <1>2, <1>8, <2>1, ConsumingStep DEF GoodConsuming
<1>10. WorkOK'
  BY <1>2, WorkStays DEF ClaimStart, history
<1>11. QED
  BY <1>2, <1>9, <1>10 DEF IInv

(* A message of the stream a claim reads has the priority of that stream.  *)
LEMMA ClaimedPriority ==
    ASSUME setting \in Settings, InboxOK, NEW q \in Queues,
           NEW i \in DOMAIN streams[q]
    PROVE  /\ streams[q][i].message \in Messages /\ PriorityOf[streams[q][i].message] = q[2]
           /\ Added(streams[q][i].message) /\ EntryOf(streams[q][i].message, i)
<1>1. streams[q][i].message \in Messages /\ QueueOf(streams[q][i].message) = q
  BY StreamTyped DEF InboxOK
<1>2. PriorityOf[streams[q][i].message] = q[2]
  BY <1>1 DEF QueueOf
<1>3. QED
  BY <1>1, <1>2, StreamTyped

LEMMA ClaimReadKeeps ==
    ASSUME IInv, setting' = setting, NEW c \in Consumers, ClaimRead(c)
    PROVE  IInv'
<1>1. PICK x : x = consuming[c]
  OBVIOUS
<1>2. PICK q : q = <<setting.claimFor, x.priority>>
  OBVIOUS
<1>3. PICK entries : entries = Read(q, x.room)
  OBVIOUS
<1>4. /\ x.at = "claim" /\ x.todo = {} /\ x.priority > 0 /\ x.room > 0
      /\ pending' = [pending EXCEPT ![q] = @ \cup entries]
      /\ delivered' = [delivered EXCEPT ![q] = Position(q, entries)]
      /\ consuming' = [consuming EXCEPT
            ![c] = IF entries = {} THEN [x EXCEPT !.priority = x.priority - 1]
                   ELSE [x EXCEPT !.todo = entries]]
      /\ UNCHANGED <<streams, trimmed, registry, meta, dlq, replies, sending,
                     sweeping, held, used, buried, done, replayed, faults>>
  BY <1>1, <1>2, <1>3 DEF ClaimRead, history
<1>5. /\ GoodClaim(x) /\ x \in Claiming
      /\ x.priority \in 0 .. TopPriority /\ x.priority \in Nat /\ x.room \in Nat
      /\ x.before \in SUBSET (Queues \X Nat)
  BY <1>1, <1>4, ClaimAtHand
<1>6. setting \in Settings /\ InboxOK /\ MetaOK /\ CallsOK /\ WorkOK /\ KeepsOK
  BY DEF IInv
<1>7. q \in Queues /\ q[2] = x.priority
  <2>1. x.priority \in Priorities
    BY <1>4, <1>5, BusConstants DEF Priorities
  <2>2. QED
    BY <1>2, <1>6, <2>1, SettingTyped
<1>8. x.room \in Nat \ {0}
  BY <1>4, <1>5
<1>9. /\ InboxOK' /\ Steady /\ KeepsOK'
      /\ \A i \in Waiting(q)' : i \notin entries
  BY <1>3, <1>4, <1>6, <1>7, <1>8, ReadInbox
<1>10. /\ entries \in SUBSET Waiting(q) /\ IsFiniteSet(entries)
       /\ Cardinality(entries) <= x.room
       /\ Cardinality(entries) < x.room => entries = Waiting(q)
  BY <1>3, <1>6, <1>7, <1>8, ReadFacts
<1>11. GoodClaim(x)'
  BY <1>5, <1>6, <1>9, ClaimStays
<1>12. ASSUME NEW e \in x.before, e[2] \in Waiting(e[1])', e[1][2] = x.priority
       PROVE  e[2] \in Waiting(q) /\ e[2] \notin entries
  <2>1. e[1] \in Queues /\ e[2] \in DOMAIN streams[e[1]] /\ e[1][1] = setting.claimFor
    BY <1>5 DEF GoodClaim
  <2>2. e[1] = q
    BY <1>2, <1>12, <2>1 DEF Queues
  <2>3. e[2] \in Waiting(q)' /\ e[2] \in Waiting(q)
    BY <1>9, <1>12, <2>1, <2>2 DEF Steady, Waiting
  <2>4. QED
    BY <1>9, <2>3
<1>13. \A e \in x.before : e[1][2] \in Nat
  BY <1>5 DEF Queues, Priorities
<1>14. \A e \in x.before : StillWaits(x, e)' => e[1][2] <= x.priority
  BY <1>4, <1>11 DEF GoodClaim
<1>15. \A e \in x.before : StillWaits(x, e)' => e[2] \in Waiting(e[1])'
  BY DEF StillWaits
<1>16. ASSUME entries = {}
       PROVE  \E y : GoodClaim(y)' /\ consuming' = [consuming EXCEPT ![c] = y]
  <2>1. PICK y : y = [x EXCEPT !.priority = x.priority - 1]
    OBVIOUS
  <2>2. /\ y \in Claiming /\ y.priority = x.priority - 1 /\ y.todo = x.todo
        /\ y.room = x.room /\ y.got = x.got /\ y.before = x.before
    <3>1. x.priority - 1 \in 0 .. TopPriority
      BY <1>4, <1>5, BusConstants
    <3>2. QED
      BY <1>5, <2>1, <3>1 DEF Claiming
  <2>3. Waiting(q) = {}
    BY <1>4, <1>5, <1>10, <1>16, FS_EmptySet
  <2>4. \A e \in x.before : StillWaits(x, e)' => e[1][2] <= y.priority
    BY <1>5, <1>12, <1>13, <1>14, <1>15, <2>2, <2>3
  <2>5. \A e \in x.before : StillWaits(y, e)' => StillWaits(x, e)'
    BY <2>2 DEF StillWaits
  <2>6. \A g \in x.got : PriorityOf'[g] \in Nat /\ PriorityOf'[g] >= x.priority
    <3>1. x.got \in SUBSET Messages /\ PriorityOf' = PriorityOf
      BY <1>5 DEF Claiming, PriorityOf
    <3>2. \A g \in x.got : PriorityOf[g] \in Nat
      BY <1>6, <3>1, SettingTyped DEF Priorities
    <3>3. QED
      BY <1>11, <3>1, <3>2 DEF GoodClaim
  <2>7. \A g \in x.got : PriorityOf'[g] >= y.priority
    BY <1>5, <2>2, <2>6
  <2>8. GoodClaim(y)'
    BY <1>4, <1>11, <2>2, <2>4, <2>5, <2>7 DEF GoodClaim
  <2>9. QED
    BY <1>4, <1>16, <2>1, <2>8
<1>17. ASSUME entries # {}
       PROVE  \E y : GoodClaim(y)' /\ consuming' = [consuming EXCEPT ![c] = y]
  <2>1. PICK y : y = [x EXCEPT !.todo = entries]
    OBVIOUS
  <2>2. entries \in SUBSET DOMAIN streams[q] /\ entries \in SUBSET Nat
    BY <1>6, <1>7, <1>10, StreamTyped DEF Waiting
  <2>3. /\ y \in Claiming /\ y.priority = x.priority /\ y.todo = entries
        /\ y.room = x.room /\ y.got = x.got /\ y.before = x.before
    BY <1>5, <2>1, <2>2 DEF Claiming
  <2>4. ASSUME NEW e \in x.before, StillWaits(x, e)', Cardinality(entries) < x.room
        PROVE  e[1][2] < x.priority
    <3>1. e[1][2] # x.priority
      BY <1>10, <1>12, <1>15, <2>4
    <3>2. QED
      BY <1>5, <1>13, <1>14, <2>4, <3>1
  <2>5. \A e \in x.before : StillWaits(y, e)' => StillWaits(x, e)'
    BY <2>3 DEF StillWaits
  <2>6. Cardinality(entries) \in Nat
    BY <1>10, FS_CardinalityType
  <2>7. GoodClaim(y)'
    BY <1>2, <1>4, <1>5, <1>10, <1>11, <2>2, <2>3, <2>4, <2>5, <2>6 DEF GoodClaim
  <2>8. QED
    BY <1>4, <1>17, <2>1, <2>7
<1>18. CallsOK'
  BY <1>4, <1>6, <1>9, <1>16, <1>17, ConsumingStep DEF GoodConsuming
<1>19. MetaOK' /\ WorkOK'
  BY <1>4, <1>6, <1>9, MetaStays, WorkStays
<1>20. QED
  BY <1>6, <1>9, <1>18, <1>19 DEF IInv

LEMMA ClaimMetaKeeps ==
    ASSUME IInv, setting' = setting, NEW c \in Consumers, ClaimMeta(c)
    PROVE  IInv'
<1>1. PICK x : x = consuming[c]
  OBVIOUS
<1>2. PICK q : q = <<setting.claimFor, x.priority>>
  OBVIOUS
<1>3. PICK i : i = First(x.todo)
  OBVIOUS
<1>4. PICK m : m = streams[q][i].message
  OBVIOUS
<1>5. PICK y : y = [x EXCEPT !.todo = x.todo \ {i}, !.got = x.got \cup {m},
                             !.room = x.room - 1,
                             !.priority = IF x.todo = {i} THEN x.priority - 1
                                          ELSE x.priority]
  OBVIOUS
<1>6. /\ x.at = "claim" /\ x.todo # {} /\ WriteMeta(m, "claimed", i)
      /\ consuming' = [consuming EXCEPT ![c] = y]
      /\ UNCHANGED <<inbox, registry, dlq, replies, sending, sweeping, held, used,
                     buried, done, replayed, faults>>
  BY <1>1, <1>2, <1>3, <1>4, <1>5 DEF ClaimMeta, history
<1>7. /\ GoodClaim(x) /\ x \in Claiming
      /\ x.priority \in 0 .. TopPriority /\ x.priority \in Nat /\ x.room \in Nat
      /\ x.todo \in SUBSET Nat /\ x.got \in SUBSET Messages
      /\ x.before \in SUBSET (Queues \X Nat)
  BY <1>1, <1>6, ClaimAtHand
<1>8. setting \in Settings /\ InboxOK /\ MetaOK /\ CallsOK /\ WorkOK /\ KeepsOK
  BY DEF IInv
<1>9. q \in Queues /\ q[2] = x.priority /\ x.priority > 0
  <2>1. x.priority > 0
    BY <1>6, <1>7 DEF GoodClaim
  <2>2. x.priority \in Priorities
    BY <1>7, <2>1, BusConstants DEF Priorities
  <2>3. QED
    BY <1>2, <1>8, <2>1, <2>2, SettingTyped
<1>10. i \in x.todo /\ i \in Nat /\ i \in DOMAIN streams[q]
  <2>1. i \in x.todo
    BY <1>3, <1>6, <1>7, FirstOf
  <2>2. QED
    BY <1>2, <1>7, <2>1 DEF GoodClaim
<1>11. m \in Messages /\ PriorityOf[m] = x.priority /\ Added(m) /\ EntryOf(m, i)
  BY <1>4, <1>8, <1>9, <1>10, ClaimedPriority
<1>12. InboxOK' /\ Steady
  <2>1. \A n \in Messages : IsSettled(n)' <=> IsSettled(n)
    BY <1>6 DEF IsSettled, InDlq
  <2>2. QED
    BY <1>6, <1>8, <2>1, QuietInbox
<1>13. Added(m)' /\ EntryOf(m, i)'
  BY <1>8, <1>11, <1>12, EntriesStay
<1>14. MetaOK' /\ KeepsOK' /\ WorkOK'
  <2>1. streams' = streams
    BY <1>6 DEF inbox
  <2>2. QED
    BY <1>6, <1>8, <1>10, <1>11, <1>12, <1>13, <2>1, MetaWritten, KeepsStay, WorkStays
<1>15. GoodClaim(x)' /\ PriorityOf' = PriorityOf
  BY <1>7, <1>8, <1>12, ClaimStays DEF PriorityOf
<1>16. PICK size \in Nat : /\ size = Cardinality(x.todo) /\ size > 0 /\ size <= x.room
                          /\ IsFiniteSet(x.todo \ {i}) /\ Cardinality(x.todo \ {i}) = size - 1
  <2>1. IsFiniteSet(x.todo) /\ Cardinality(x.todo) <= x.room
    BY <1>7 DEF GoodClaim
  <2>2. Cardinality(x.todo) \in Nat /\ Cardinality(x.todo) # 0
    BY <1>6, <2>1, FS_CardinalityType, FS_EmptySet
  <2>3. QED
    BY <1>10, <2>1, <2>2, FS_RemoveElement, SMTT(30)
<1>17. /\ y \in Claiming /\ y.todo = x.todo \ {i} /\ y.got = x.got \cup {m}
       /\ y.room = x.room - 1 /\ y.before = x.before /\ y.priority \in Nat
       /\ y.todo = {} => y.priority = x.priority - 1
       /\ y.todo # {} => y.priority = x.priority
  <2>1. x.priority - 1 \in 0 .. TopPriority /\ x.room - 1 \in Nat
    BY <1>7, <1>9, <1>16, BusConstants
  <2>2. x.todo \ {i} = {} <=> x.todo = {i}
    BY <1>10
  <2>3. x.todo \ {i} \in SUBSET Nat /\ x.got \cup {m} \in SUBSET Messages
    BY <1>7, <1>11
  <2>4. CASE x.todo = {i}
    <3>1. y = [x EXCEPT !.todo = x.todo \ {i}, !.got = x.got \cup {m},
                        !.room = x.room - 1, !.priority = x.priority - 1]
      BY <1>5, <2>4
    <3>2. /\ y \in Claiming /\ y.todo = x.todo \ {i} /\ y.got = x.got \cup {m}
          /\ y.room = x.room - 1 /\ y.before = x.before /\ y.priority = x.priority - 1
      BY <1>7, <2>1, <2>3, <3>1 DEF Claiming
    <3>3. x.todo \ {i} = {}
      BY <2>4
    <3>4. QED
      BY <2>1, <3>2, <3>3
  <2>5. CASE x.todo # {i}
    <3>1. y = [x EXCEPT !.todo = x.todo \ {i}, !.got = x.got \cup {m},
                        !.room = x.room - 1, !.priority = x.priority]
      BY <1>5, <2>5
    <3>2. QED
      BY <1>7, <2>1, <2>2, <2>3, <2>5, <3>1 DEF Claiming
  <2>6. QED
    BY <2>4, <2>5
<1>18. \A n \in y.got : Added(n)' /\ PriorityOf[n] \in Nat /\ PriorityOf[n] >= x.priority
  <2>1. \A n \in Messages : PriorityOf[n] \in Nat
    BY <1>8, SettingTyped DEF Priorities
  <2>2. QED
    BY <1>7, <1>11, <1>13, <1>15, <1>17, <2>1 DEF GoodClaim
<1>19. ASSUME NEW e \in y.before, StillWaits(y, e)'
       PROVE  /\ e[1][2] \in Nat
              /\ \A g \in y.got : e[1][2] <= PriorityOf[g]
              /\ y.room > 0 => e[1][2] <= y.priority
              /\ y.todo # {} /\ y.room > Cardinality(y.todo) => e[1][2] < y.priority
  <2>1. e[1][2] \in Nat /\ e \in x.before
    BY <1>7, <1>17 DEF Queues, Priorities
  <2>2. StillWaits(x, e)'
    BY <1>17, <1>19 DEF StillWaits
  <2>3. /\ \A g \in x.got : e[1][2] <= PriorityOf[g]
        /\ e[1][2] <= x.priority
        /\ x.room > size => e[1][2] < x.priority
    BY <1>6, <1>7, <1>15, <1>16, <2>1, <2>2 DEF GoodClaim
  <2>4. \A g \in y.got : e[1][2] <= PriorityOf[g]
    BY <1>11, <1>17, <2>3
  <2>5. CASE y.todo = {}
    <3>1. size = 1
      <4>1. Cardinality(x.todo \ {i}) = 0
        BY <1>17, <2>5, FS_EmptySet
      <4>2. QED
        BY <1>16, <4>1
    <3>2. y.room = x.room - 1 /\ y.priority = x.priority - 1 /\ x.room \in Nat
      BY <1>7, <1>17, <2>5
    <3>3. x.room > 1 => e[1][2] < x.priority
      BY <2>3, <3>1
    <3>4. y.room > 0 => e[1][2] <= y.priority
      BY <1>7, <2>1, <3>2, <3>3
    <3>5. QED
      BY <2>1, <2>4, <2>5, <3>4
  <2>6. CASE y.todo # {}
    BY <1>7, <1>16, <1>17, <2>1, <2>3, <2>4, <2>6
  <2>7. QED
    BY <2>5, <2>6
<1>20. \A g \in y.got : PriorityOf[g] >= y.priority
  BY <1>7, <1>17, <1>18
<1>21. y.todo # {} => /\ y.priority > 0
                      /\ y.todo \subseteq DOMAIN (streams[<<setting.claimFor, y.priority>>])'
  BY <1>9, <1>15, <1>17 DEF GoodClaim
<1>22. Cardinality(y.todo) <= y.room /\ IsFiniteSet(y.todo)
  BY <1>7, <1>16, <1>17
<1>23. \A e \in y.before : e[1][1] = setting.claimFor /\ e[2] \in DOMAIN (streams[e[1]])'
  BY <1>15, <1>17 DEF GoodClaim
<1>24. GoodClaim(y)'
  BY <1>15, <1>17, <1>18, <1>19, <1>20, <1>21, <1>22, <1>23 DEF GoodClaim
<1>25. CallsOK'
  BY <1>6, <1>8, <1>12, <1>24, ConsumingStep DEF GoodConsuming
<1>26. QED
  BY <1>8, <1>12, <1>14, <1>25 DEF IInv

LEMMA ClaimReturnKeeps ==
    ASSUME IInv, setting' = setting, NEW c \in Consumers, ClaimReturn(c)
    PROVE  IInv'
<1>1. PICK x : x = consuming[c]
  OBVIOUS
<1>2. /\ x.at = "claim" /\ held' = [held EXCEPT ![c] = @ \cup x.got]
      /\ consuming' = [consuming EXCEPT ![c] = Idle]
      /\ UNCHANGED <<inbox, registry, meta, dlq, replies, sending, sweeping, used,
                     buried, done, replayed, faults>>
  BY <1>1 DEF ClaimReturn, history
<1>3. x.got \in SUBSET Messages /\ \A m \in x.got : Added(m)
  BY <1>1, <1>2, ClaimAtHand DEF GoodClaim
<1>4. \A m \in Messages : IsSettled(m)' <=> IsSettled(m)
  BY <1>2 DEF IsSettled, InDlq
<1>5. /\ setting \in Settings /\ InboxOK /\ CallsOK /\ WorkOK
      /\ setting' \in Settings /\ InboxOK' /\ MetaOK' /\ KeepsOK' /\ Steady
  BY <1>2, <1>4, QuietKeeps DEF IInv
<1>6. CallsOK'
  BY <1>2, <1>5, ConsumingStep, IdleIsGood
<1>7. /\ held' \in [Consumers -> SUBSET Messages]
      /\ \A d \in Consumers : \A m \in held'[d] : m \in held[d] \/ Added(m)
  BY <1>2, <1>3, <1>5 DEF WorkOK
<1>8. WorkOK'
  BY <1>2, <1>4, <1>5, <1>7, WorkStep DEF WorkOK
<1>9. QED
  BY <1>5, <1>6, <1>8 DEF IInv

-----------------------------------------------------------------------------
(* Acks and replies.                                                       *)

LEMMA AnswerAtHand ==
    ASSUME IInv, NEW c \in Consumers, NEW x, x = consuming[c], x.at \notin {"claim", "idle"}
    PROVE  /\ GoodAnswer(x) /\ x \in Answering
           /\ x.message \in Messages /\ x.message \in done /\ x.entry \in Nat
           /\ x.sent # NoMessage => x.sent \in Messages
           /\ QueueOf(x.message) \in Queues
<1>1. GoodAnswer(x)
  <2>1. GoodConsuming(x)
    BY DEF IInv, CallsOK
  <2>2. ~GoodClaim(x) /\ x # Idle
    BY DEF GoodClaim, Claiming, Idle
  <2>3. QED
    BY <2>1, <2>2 DEF GoodConsuming
<1>2. x \in Answering /\ x.message \in done
  BY <1>1 DEF GoodAnswer
<1>3. x.message \in Messages
  BY <1>2 DEF Answering
<1>4. QED
  BY <1>1, <1>2, <1>3, SettingTyped DEF Answering, IInv

(* The work of m is done: what AckStart and ReplyStart share.              *)
LEMMA AnswerStarts ==
    ASSUME IInv, setting' = setting, NEW c \in Consumers, NEW m \in held[c],
           held' = [held EXCEPT ![c] = @ \ {m}], done' = done \cup {m},
           NEW y, y \in Answering, consuming' = [consuming EXCEPT ![c] = y],
           y.message = m, y.at \in {"getmeta", "register"},
           y.at = "register" => y.sent # NoMessage,
           y.sent # NoMessage => y.at = "register" /\ ReplyTo[y.sent] = m,
           used' \in SUBSET Messages,
           UNCHANGED <<inbox, registry, meta, dlq, replies, sending, sweeping,
                       buried, replayed, faults>>
    PROVE  IInv'
<1>1. m \in Messages /\ Added(m)
  BY DEF IInv, WorkOK
<1>2. \A n \in Messages : IsSettled(n)' <=> (IsSettled(n) \/ n = m)
  BY DEF IsSettled, InDlq
<1>3. /\ setting \in Settings /\ InboxOK /\ CallsOK /\ WorkOK
      /\ setting' \in Settings /\ InboxOK' /\ MetaOK' /\ KeepsOK' /\ Steady
  BY <1>2, QuietKeeps DEF IInv
<1>4. GoodAnswer(y)'
  BY DEF GoodAnswer, ReplyTo
<1>5. CallsOK'
  BY <1>3, <1>4, ConsumingStep DEF GoodConsuming
<1>6. /\ held' \in [Consumers -> SUBSET Messages]
      /\ \A d \in Consumers : \A n \in held'[d] : n \in held[d]
  BY <1>3 DEF WorkOK
<1>7. WorkOK'
  BY <1>1, <1>2, <1>3, <1>6, WorkStep DEF WorkOK
<1>8. QED
  BY <1>3, <1>5, <1>7 DEF IInv

LEMMA AckStartKeeps ==
    ASSUME IInv, setting' = setting, NEW c \in Consumers, NEW m \in Messages, AckStart(c, m)
    PROVE  IInv'
<1>1. PICK y : y = [at |-> "getmeta", message |-> m, sent |-> NoMessage, entry |-> 0]
  OBVIOUS
<1>2. y \in Answering /\ y.at = "getmeta" /\ y.message = m /\ y.sent = NoMessage
  BY <1>1 DEF Answering
<1>3. used \in SUBSET Messages
  BY DEF IInv, WorkOK
<1>4. QED
  BY <1>1, <1>2, <1>3, AnswerStarts DEF AckStart

LEMMA ReplyStartKeeps ==
    ASSUME IInv, setting' = setting, NEW c \in Consumers, NEW m \in Messages,
           NEW r \in Messages, ReplyStart(c, m, r)
    PROVE  IInv'
<1>1. PICK y : y = [at |-> "register", message |-> m, sent |-> r, entry |-> 0]
  OBVIOUS
<1>2. /\ y \in Answering /\ y.at = "register" /\ y.message = m /\ y.sent = r
      /\ y.sent # NoMessage /\ ReplyTo[y.sent] = m
  BY <1>1, BusConstants DEF Answering, ReplyStart
<1>3. used' \in SUBSET Messages
  BY DEF IInv, WorkOK, ReplyStart
<1>4. QED
  BY <1>1, <1>2, <1>3, AnswerStarts DEF ReplyStart

LEMMA ReplyEnqueueKeeps ==
    ASSUME IInv, setting' = setting, NEW c \in Consumers, ReplyEnqueue(c)
    PROVE  IInv'
<1>1. PICK x : x = consuming[c]
  OBVIOUS
<1>2. PICK y : y = Enqueued(x, [x EXCEPT !.at = "getmeta"])
  OBVIOUS
<1>3. /\ x.at \in {"register", "xadd", "meta"} /\ Enqueue(x)
      /\ consuming' = [consuming EXCEPT ![c] = y]
      /\ UNCHANGED <<delivered, pending, dlq, replies, sending, sweeping, held,
                     used, buried, done, replayed, faults>>
  BY <1>1, <1>2 DEF ReplyEnqueue, history
<1>4. /\ GoodAnswer(x) /\ x \in Answering /\ x.message \in Messages /\ x.message \in done
      /\ x.sent # NoMessage => x.sent \in Messages
      /\ x.entry \in Nat
  BY <1>1, <1>3, AnswerAtHand
<1>5. /\ x.sent \in Messages /\ x.sent # NoMessage /\ ReplyTo[x.sent] = x.message
      /\ x.at = "meta" => EntryOf(x.sent, x.entry)
  BY <1>3, <1>4 DEF GoodAnswer
<1>6. /\ setting' \in Settings /\ InboxOK' /\ MetaOK' /\ WorkOK' /\ KeepsOK' /\ Steady
      /\ x.at = "xadd" =>
            \A n : n = Len(streams[QueueOf(x.sent)]) + 1 =>
               n \in Nat /\ EntryOf(x.sent, n)' /\ Added(x.sent)'
      /\ x.at = "meta" => EntryOf(x.sent, x.entry)' /\ Added(x.sent)'
  BY <1>3, <1>4, <1>5, EnqueueKeeps
<1>7. ReplyTo' = ReplyTo /\ done' = done
  BY <1>3 DEF ReplyTo
<1>8. GoodAnswer(y)'
  <2>1. CASE x.at = "register"
    <3>1. y = [x EXCEPT !.at = "xadd"]
      BY <1>2, <2>1 DEF Enqueued
    <3>2. y \in Answering /\ y.at = "xadd" /\ y.sent = x.sent /\ y.message = x.message
      BY <1>4, <3>1 DEF Answering
    <3>3. QED
      BY <1>4, <1>5, <1>7, <3>2 DEF GoodAnswer
  <2>2. CASE x.at = "xadd"
    <3>1. PICK n : n = Len(streams[QueueOf(x.sent)]) + 1
      OBVIOUS
    <3>2. y = [x EXCEPT !.at = "meta", !.entry = n]
      BY <1>2, <2>2, <3>1 DEF Enqueued
    <3>3. n \in Nat /\ EntryOf(x.sent, n)' /\ Added(x.sent)'
      BY <1>6, <2>2, <3>1
    <3>4. /\ y \in Answering /\ y.at = "meta" /\ y.entry = n /\ y.sent = x.sent
          /\ y.message = x.message
      BY <1>4, <3>2, <3>3 DEF Answering
    <3>5. QED
      BY <1>4, <1>5, <1>7, <3>3, <3>4 DEF GoodAnswer
  <2>3. CASE x.at = "meta"
    <3>1. y = [x EXCEPT !.at = "getmeta"]
      BY <1>2, <2>3 DEF Enqueued
    <3>2. y \in Answering /\ y.at = "getmeta" /\ y.sent = x.sent /\ y.message = x.message
      BY <1>4, <3>1 DEF Answering
    <3>3. QED
      BY <1>4, <1>5, <1>6, <1>7, <2>3, <3>2 DEF GoodAnswer
  <2>4. QED
    BY <1>3, <2>1, <2>2, <2>3
<1>9. CallsOK'
  BY <1>3, <1>6, <1>8, ConsumingStep DEF IInv, GoodConsuming
<1>10. QED
  BY <1>6, <1>9 DEF IInv

(* The rest of an ack moves the call on, or returns.                       *)
LEMMA AnsweredIsGood ==
    ASSUME setting \in Settings, Steady, NEW x, GoodAnswer(x),
           x.at \in {"getmeta", "ackmeta"}, NEW y, y = Answered(x)
    PROVE  GoodConsuming(y)'
<1>1. CASE x.sent = NoMessage
  BY <1>1, IdleIsGood DEF Answered
<1>2. CASE x.sent # NoMessage
  <2>1. y = [x EXCEPT !.at = "record"] /\ x \in Answering
    BY <1>2 DEF Answered, GoodAnswer
  <2>2. /\ y \in Answering /\ y.at = "record" /\ y.sent = x.sent
        /\ y.message = x.message
    BY <2>1 DEF Answering
  <2>3. GoodAnswer(x)'
    BY AnswerStays
  <2>4. GoodAnswer(y)'
    BY <1>2, <2>2, <2>3 DEF GoodAnswer
  <2>5. QED
    BY <2>4 DEF GoodConsuming
<1>3. QED
  BY <1>1, <1>2

LEMMA AckGetMetaKeeps ==
    ASSUME IInv, setting' = setting, NEW c \in Consumers, AckGetMeta(c)
    PROVE  IInv'
<1>1. PICK x : x = consuming[c]
  OBVIOUS
<1>2. PICK y : y = IF meta[x.message] = NoMeta THEN Answered(x)
                   ELSE [x EXCEPT !.at = "xack", !.entry = meta[x.message].entry]
  OBVIOUS
<1>3. /\ x.at = "getmeta" /\ consuming' = [consuming EXCEPT ![c] = y]
      /\ UNCHANGED <<inbox, registry, meta, dlq, replies, sending, sweeping, held,
                     used, buried, done, replayed, faults>>
  BY <1>1, <1>2 DEF AckGetMeta, history
<1>4. GoodAnswer(x) /\ x \in Answering /\ x.message \in Messages
  BY <1>1, <1>3, AnswerAtHand
<1>5. \A m \in Messages : IsSettled(m)' <=> IsSettled(m)
  BY <1>3 DEF IsSettled, InDlq
<1>6. /\ setting \in Settings /\ InboxOK /\ MetaOK /\ CallsOK /\ WorkOK
      /\ setting' \in Settings /\ InboxOK' /\ MetaOK' /\ KeepsOK' /\ Steady
  BY <1>3, <1>5, QuietKeeps DEF IInv
<1>7. GoodConsuming(y)'
  <2>1. CASE meta[x.message] = NoMeta
    <3>1. y = Answered(x)
      BY <1>2, <2>1
    <3>2. QED
      BY <1>3, <1>4, <1>6, <3>1, AnsweredIsGood
  <2>2. CASE meta[x.message] # NoMeta
    <3>1. PICK i : i = meta[x.message].entry
      OBVIOUS
    <3>2. i \in Nat /\ EntryOf(x.message, i)
      BY <1>4, <1>6, <2>2, <3>1, MetaRead
    <3>3. EntryOf(x.message, i)'
      BY <1>4, <1>6, <3>2, EntriesStay
    <3>4. y = [x EXCEPT !.at = "xack", !.entry = i]
      BY <1>2, <2>2, <3>1
    <3>5. /\ y \in Answering /\ y.at = "xack" /\ y.entry = i /\ y.sent = x.sent
          /\ y.message = x.message
      BY <1>4, <3>2, <3>4 DEF Answering
    <3>6. GoodAnswer(x)'
      BY <1>4, <1>6, AnswerStays
    <3>7. GoodAnswer(y)'
      BY <1>3, <3>3, <3>5, <3>6 DEF GoodAnswer
    <3>8. QED
      BY <3>7 DEF GoodConsuming
  <2>3. QED
    BY <2>1, <2>2
<1>8. CallsOK'
  BY <1>3, <1>6, <1>7, ConsumingStep
<1>9. WorkOK'
  BY <1>3, <1>6, WorkStays
<1>10. QED
  BY <1>6, <1>8, <1>9 DEF IInv

LEMMA AckXAckKeeps ==
    ASSUME IInv, setting' = setting, NEW c \in Consumers, AckXAck(c)
    PROVE  IInv'
<1>1. PICK x : x = consuming[c]
  OBVIOUS
<1>2. PICK q : q = QueueOf(x.message)
  OBVIOUS
<1>3. PICK y : y = [x EXCEPT !.at = "ackmeta"]
  OBVIOUS
<1>4. /\ x.at = "xack" /\ XAck(q, x.entry)
      /\ consuming' = [consuming EXCEPT ![c] = y]
      /\ UNCHANGED <<streams, trimmed, delivered, registry, meta, dlq, replies,
                     sending, sweeping, held, used, buried, done, replayed, faults>>
  BY <1>1, <1>2, <1>3 DEF AckXAck, history
<1>5. /\ GoodAnswer(x) /\ x \in Answering /\ x.message \in Messages /\ x.message \in done
      /\ EntryOf(x.message, x.entry) /\ q \in Queues
  <2>1. GoodAnswer(x) /\ x \in Answering /\ x.message \in Messages /\ x.message \in done /\ q \in Queues
    BY <1>1, <1>2, <1>4, AnswerAtHand
  <2>2. QED
    BY <1>4, <2>1 DEF GoodAnswer
<1>6. setting \in Settings /\ InboxOK /\ MetaOK /\ CallsOK /\ WorkOK /\ KeepsOK
  BY DEF IInv
<1>7. InboxOK' /\ Steady /\ KeepsOK'
  <2>1. \A m \in Messages : IsSettled(m)' <=> IsSettled(m)
    BY <1>4 DEF IsSettled, InDlq
  <2>2. IsSettled(x.message)'
    BY <1>4, <1>5 DEF IsSettled
  <2>3. QED
    BY <1>2, <1>4, <1>5, <1>6, <2>1, <2>2, AckInbox
<1>8. GoodAnswer(y)'
  <2>1. /\ y \in Answering /\ y.at = "ackmeta" /\ y.entry = x.entry /\ y.sent = x.sent
        /\ y.message = x.message
    BY <1>3, <1>5 DEF Answering
  <2>2. GoodAnswer(x)'
    BY <1>5, <1>6, <1>7, AnswerStays
  <2>3. QED
    BY <1>4, <2>1, <2>2 DEF GoodAnswer
<1>9. CallsOK'
  BY <1>4, <1>6, <1>7, <1>8, ConsumingStep DEF GoodConsuming
<1>10. MetaOK' /\ WorkOK'
  BY <1>4, <1>6, <1>7, MetaStays, WorkStays
<1>11. QED
  BY <1>6, <1>7, <1>9, <1>10 DEF IInv

LEMMA AckMetaKeeps ==
    ASSUME IInv, setting' = setting, NEW c \in Consumers, AckMeta(c)
    PROVE  IInv'
<1>1. PICK x : x = consuming[c]
  OBVIOUS
<1>2. PICK y : y = Answered(x)
  OBVIOUS
<1>3. /\ x.at = "ackmeta" /\ WriteMeta(x.message, "acked", x.entry)
      /\ consuming' = [consuming EXCEPT ![c] = y]
      /\ UNCHANGED <<inbox, registry, dlq, replies, sending, sweeping, held, used,
                     buried, done, replayed, faults>>
  BY <1>1, <1>2 DEF AckMeta, history
<1>4. /\ GoodAnswer(x) /\ x.message \in Messages /\ x.entry \in Nat
      /\ EntryOf(x.message, x.entry)
  <2>1. GoodAnswer(x) /\ x.message \in Messages /\ x.entry \in Nat
    BY <1>1, <1>3, AnswerAtHand
  <2>2. QED
    BY <1>3, <2>1 DEF GoodAnswer
<1>5. setting \in Settings /\ InboxOK /\ MetaOK /\ CallsOK /\ WorkOK /\ KeepsOK
  BY DEF IInv
<1>6. InboxOK' /\ Steady
  <2>1. \A m \in Messages : IsSettled(m)' <=> IsSettled(m)
    BY <1>3 DEF IsSettled, InDlq
  <2>2. QED
    BY <1>3, <1>5, <2>1, QuietInbox
<1>7. MetaOK' /\ KeepsOK' /\ WorkOK'
  <2>1. streams' = streams
    BY <1>3 DEF inbox
  <2>2. EntryOf(x.message, x.entry)'
    BY <1>4, <1>5, <1>6, EntriesStay
  <2>3. QED
    BY <1>3, <1>4, <1>5, <1>6, <2>1, <2>2, MetaWritten, KeepsStay, WorkStays
<1>8. CallsOK'
  <2>1. GoodConsuming(y)'
    BY <1>2, <1>3, <1>4, <1>5, <1>6, AnsweredIsGood
  <2>2. QED
    BY <1>3, <1>5, <1>6, <2>1, ConsumingStep
<1>9. QED
  BY <1>5, <1>6, <1>7, <1>8 DEF IInv

LEMMA RecordReplyKeeps ==
    ASSUME IInv, setting' = setting, NEW c \in Consumers, RecordReply(c)
    PROVE  IInv'
<1>1. PICK x : x = consuming[c]
  OBVIOUS
<1>2. /\ x.at = "record" /\ replies' = [replies EXCEPT ![x.message] = x.sent]
      /\ consuming' = [consuming EXCEPT ![c] = Idle]
      /\ UNCHANGED <<inbox, registry, meta, dlq, sending, sweeping, held, used,
                     buried, done, replayed, faults>>
  BY <1>1 DEF RecordReply, history
<1>3. /\ GoodAnswer(x) /\ x.message \in Messages /\ x.message \in done
      /\ x.sent # NoMessage => x.sent \in Messages
  BY <1>1, <1>2, AnswerAtHand
<1>4. x.sent \in Messages /\ ReplyTo[x.sent] = x.message /\ Added(x.sent)
  BY <1>2, <1>3 DEF GoodAnswer
<1>5. \A m \in Messages : IsSettled(m)' <=> IsSettled(m)
  BY <1>2 DEF IsSettled, InDlq
<1>6. /\ setting \in Settings /\ InboxOK /\ MetaOK /\ CallsOK /\ WorkOK
      /\ setting' \in Settings /\ InboxOK' /\ MetaOK' /\ KeepsOK' /\ Steady
  BY <1>2, <1>5, QuietKeeps DEF IInv
<1>7. CallsOK'
  BY <1>2, <1>6, ConsumingStep, IdleIsGood
<1>8. WorkOK'
  BY <1>2, <1>3, <1>4, <1>5, <1>6, WorkStep DEF WorkOK
<1>9. QED
  BY <1>6, <1>7, <1>8 DEF IInv

-----------------------------------------------------------------------------
(* Sweeps.                                                                 *)

LEMMA SweepAtHand ==
    ASSUME IInv, NEW s \in Sweepers, NEW x, x = sweeping[s], x.at # "idle"
    PROVE  /\ x \in Sweeping /\ GoodSweeping(x) /\ x # Idle
           /\ x.queue \in Queues /\ x.entry \in Nat /\ x.copy \in Nat
           /\ x.todo \in SUBSET Nat /\ x.entry \in x.todo
           /\ x.entry \in DOMAIN streams[x.queue]
           /\ AtHand(x).message \in Messages /\ AtHand(x).retryCount \in Nat
           /\ QueueOf(AtHand(x).message) = x.queue
           /\ EntryOf(AtHand(x).message, x.entry) /\ Added(AtHand(x).message)
<1>1. GoodSweeping(x) /\ x # Idle
  BY DEF IInv, CallsOK, Idle
<1>2. x \in Sweeping
  BY <1>1 DEF GoodSweeping
<1>3. x.queue \in Queues /\ x.entry \in Nat /\ x.copy \in Nat /\ x.todo \in SUBSET Nat
  BY <1>2 DEF Sweeping
<1>4. x.entry \in x.todo /\ x.entry \in DOMAIN streams[x.queue]
  BY <1>1 DEF GoodSweeping
<1>5. /\ AtHand(x).message \in Messages /\ AtHand(x).retryCount \in Nat
      /\ EntryOf(AtHand(x).message, x.entry) /\ Added(AtHand(x).message)
  BY <1>3, <1>4, StreamTyped DEF AtHand, IInv
<1>6. QueueOf(AtHand(x).message) = x.queue
  BY <1>3, <1>4 DEF AtHand, IInv, InboxOK
<1>7. QED
  BY <1>1, <1>2, <1>3, <1>4, <1>5, <1>6

(* The sweep goes on with the first of what is left.                       *)
LEMMA SweptIsGood ==
    ASSUME setting \in Settings, InboxOK, Steady, NEW x \in Sweeping, GoodSweeping(x),
           x # Idle, NEW y, y = Swept(x)
    PROVE  GoodSweeping(y)'
<1>1. PICK rest : rest = x.todo \ {x.entry}
  OBVIOUS
<1>2. CASE rest = {}
  BY <1>1, <1>2, IdleIsGood DEF Swept
<1>3. CASE rest # {}
  <2>1. PICK i : i = First(rest)
    OBVIOUS
  <2>2. y = [x EXCEPT !.at = "entry", !.todo = rest, !.entry = i, !.copy = 0]
    BY <1>1, <1>3, <2>1 DEF Swept
  <2>3. rest \in SUBSET x.todo /\ rest \in SUBSET Nat
    BY <1>1 DEF Sweeping
  <2>4. i \in rest /\ i \in Nat
    BY <1>3, <2>1, <2>3, FirstOf
  <2>5. y \in Sweeping /\ y.at = "entry" /\ y.queue = x.queue /\ y.todo = rest /\ y.entry = i
    <3>1. y = [at |-> "entry", queue |-> x.queue, todo |-> rest, entry |-> i, copy |-> 0]
      BY <2>2 DEF Sweeping
    <3>2. x.queue \in Queues
      BY DEF Sweeping
    <3>3. QED
      BY <2>3, <2>4, <3>1, <3>2 DEF Sweeping
  <2>6. GoodSweeping(x)'
    BY SweepingStays
  <2>7. IsFiniteSet(rest) /\ rest \subseteq DOMAIN (streams[x.queue])'
    BY <2>3, <2>6, FS_Subset DEF GoodSweeping
  <2>8. QED
    BY <2>4, <2>5, <2>7 DEF GoodSweeping
<1>4. QED
  BY <1>2, <1>3

LEMMA SweepStartKeeps ==
    ASSUME IInv, setting' = setting, NEW s \in Sweepers, NEW q \in Queues, SweepStart(s, q)
    PROVE  IInv'
<1>1. PICK idle \in SUBSET pending[q] :
         LET alive == {i \in idle : i > trimmed[q]}
         IN  /\ idle # {}
             /\ pending' = [pending EXCEPT ![q] = @ \ (idle \ alive)]
             /\ sweeping' = [sweeping EXCEPT
                   ![s] = IF alive = {} THEN Idle
                          ELSE [at |-> "entry", queue |-> q, todo |-> alive,
                                entry |-> First(alive), copy |-> 0]]
  BY DEF SweepStart
<1>2. PICK alive : alive = {i \in idle : i > trimmed[q]}
  OBVIOUS
<1>3. PICK gone : gone = idle \ alive
  OBVIOUS
<1>4. PICK y : y = IF alive = {} THEN Idle
                   ELSE [at |-> "entry", queue |-> q, todo |-> alive,
                         entry |-> First(alive), copy |-> 0]
  OBVIOUS
<1>5. /\ pending' = [pending EXCEPT ![q] = @ \ gone]
      /\ sweeping' = [sweeping EXCEPT ![s] = y]
      /\ UNCHANGED <<streams, trimmed, delivered, registry, meta, dlq, replies,
                     sending, consuming, held, used, buried, done, replayed, faults>>
  BY <1>1, <1>2, <1>3, <1>4 DEF SweepStart, history
<1>6. setting \in Settings /\ InboxOK /\ MetaOK /\ CallsOK /\ WorkOK /\ KeepsOK
  BY DEF IInv
<1>7. /\ pending[q] \in SUBSET DOMAIN streams[q] /\ pending[q] \in SUBSET Nat
      /\ IsFiniteSet(pending[q]) /\ trimmed[q] \in Nat
  BY <1>6, StreamTyped DEF InboxOK
<1>8. InboxOK' /\ Steady /\ KeepsOK'
  <2>1. \A i \in gone : i <= trimmed[q]
    BY <1>2, <1>3, <1>7
  <2>2. QED
    BY <1>5, <1>6, <2>1, DropInbox
<1>9. GoodSweeping(y)'
  <2>1. CASE alive = {}
    BY <1>4, <2>1, IdleIsGood
  <2>2. CASE alive # {}
    <3>1. PICK i : i = First(alive)
      OBVIOUS
    <3>2. alive \in SUBSET pending[q] /\ alive \in SUBSET Nat
      BY <1>2, <1>7
    <3>3. i \in alive /\ i \in Nat
      BY <2>2, <3>1, <3>2, FirstOf
    <3>4. y = [at |-> "entry", queue |-> q, todo |-> alive, entry |-> i, copy |-> 0]
      BY <1>4, <2>2, <3>1
    <3>5. y \in Sweeping /\ y.at = "entry" /\ y.queue = q /\ y.todo = alive /\ y.entry = i
      BY <3>2, <3>3, <3>4 DEF Sweeping
    <3>6. IsFiniteSet(alive) /\ alive \subseteq DOMAIN (streams[q])'
      BY <1>5, <1>7, <3>2, FS_Subset
    <3>7. QED
      BY <3>3, <3>5, <3>6 DEF GoodSweeping
  <2>3. QED
    BY <2>1, <2>2
<1>10. CallsOK'
  BY <1>5, <1>6, <1>8, <1>9, SweepingStep
<1>11. MetaOK' /\ WorkOK'
  BY <1>5, <1>6, <1>8, MetaStays, WorkStays
<1>12. QED
  BY <1>6, <1>8, <1>10, <1>11 DEF IInv

LEMMA SweepRetryKeeps ==
    ASSUME IInv, setting' = setting, NEW s \in Sweepers, SweepRetry(s)
    PROVE  IInv'
<1>1. PICK x : x = sweeping[s]
  OBVIOUS
<1>2. PICK q : q = x.queue
  OBVIOUS
<1>3. PICK m : m = AtHand(x).message
  OBVIOUS
<1>4. PICK n : n = NextAttempt(x)
  OBVIOUS
<1>5. PICK last : last = Len(streams[q]) + 1
  OBVIOUS
<1>6. PICK y : y = [x EXCEPT !.at = "xack", !.copy = last]
  OBVIOUS
<1>7. /\ x.at = "entry" /\ XAdd(q, m, n) /\ sweeping' = [sweeping EXCEPT ![s] = y]
      /\ UNCHANGED <<delivered, pending, registry, meta, dlq, replies, sending,
                     consuming, held, used, buried, done, replayed, faults>>
  BY <1>1, <1>2, <1>3, <1>4, <1>5, <1>6 DEF SweepRetry, history
<1>8. /\ x \in Sweeping /\ GoodSweeping(x) /\ x # Idle /\ q \in Queues
      /\ x.entry \in x.todo /\ x.entry \in DOMAIN streams[q] /\ x.entry \in Nat
      /\ m \in Messages /\ QueueOf(m) = q /\ n \in Nat
  BY <1>1, <1>2, <1>3, <1>4, <1>7, SweepAtHand DEF NextAttempt
<1>9. setting \in Settings /\ InboxOK /\ MetaOK /\ CallsOK /\ WorkOK /\ KeepsOK
  BY DEF IInv
<1>10. /\ InboxOK' /\ Steady /\ KeepsOK'
       /\ EntryOf(m, last)' /\ last \in Nat
       /\ last \in DOMAIN (streams'[q]) /\ \A i \in DOMAIN streams[q] : i < last
       /\ last <= trimmed'[q] \/ last \in Open(q)'
  BY <1>5, <1>7, <1>8, <1>9, GrowInbox
<1>11. GoodSweeping(y)'
  <2>1. /\ y \in Sweeping /\ y.at = "xack" /\ y.queue = q /\ y.todo = x.todo
        /\ y.entry = x.entry /\ y.copy = last
    BY <1>2, <1>6, <1>8, <1>10 DEF Sweeping
  <2>2. GoodSweeping(x)'
    BY <1>8, <1>9, <1>10, SweepingStays
  <2>3. AtHand(y)'.message = m
    BY <1>2, <1>3, <1>8, <1>10, <2>1 DEF AtHand, Steady
  <2>4. KeptAfter(m, x.entry)'
    <3>1. QueueOf(m)' = q
      BY <1>8 DEF QueueOf, ToAgent, PriorityOf
    <3>2. QED
      BY <1>8, <1>10, <3>1 DEF KeptAfter
  <2>5. EntryOf(AtHand(y).message, y.copy)' /\ KeptAfter(AtHand(y).message, y.entry)'
    BY <1>10, <2>1, <2>3, <2>4 DEF EntryOf, KeptAfter, IsSettled, InDlq, QueueOf
  <2>6. QED
    BY <1>2, <1>8, <2>1, <2>2, <2>5 DEF GoodSweeping
<1>12. CallsOK'
  BY <1>7, <1>9, <1>10, <1>11, SweepingStep
<1>13. MetaOK' /\ WorkOK'
  BY <1>7, <1>9, <1>10, MetaStays, WorkStays
<1>14. QED
  BY <1>9, <1>10, <1>12, <1>13 DEF IInv

LEMMA SweepXAckKeeps ==
    ASSUME IInv, setting' = setting, NEW s \in Sweepers, SweepXAck(s)
    PROVE  IInv'
<1>1. PICK x : x = sweeping[s]
  OBVIOUS
<1>2. PICK q : q = x.queue
  OBVIOUS
<1>3. PICK m : m = AtHand(x).message
  OBVIOUS
<1>4. PICK y : y = [x EXCEPT !.at = "meta"]
  OBVIOUS
<1>5. /\ x.at = "xack" /\ XAck(q, x.entry) /\ sweeping' = [sweeping EXCEPT ![s] = y]
      /\ UNCHANGED <<streams, trimmed, delivered, registry, meta, dlq, replies,
                     sending, consuming, held, used, buried, done, replayed, faults>>
  BY <1>1, <1>2, <1>4 DEF SweepXAck, history
<1>6. /\ x \in Sweeping /\ GoodSweeping(x) /\ x # Idle /\ q \in Queues
      /\ m \in Messages /\ QueueOf(m) = q /\ EntryOf(m, x.entry)
  BY <1>1, <1>2, <1>3, <1>5, SweepAtHand
<1>7. KeptAfter(m, x.entry)
  BY <1>3, <1>5, <1>6 DEF GoodSweeping
<1>8. setting \in Settings /\ InboxOK /\ MetaOK /\ CallsOK /\ WorkOK /\ KeepsOK
  BY DEF IInv
<1>9. InboxOK' /\ Steady /\ KeepsOK'
  <2>1. \A n \in Messages : IsSettled(n)' <=> IsSettled(n)
    BY <1>5 DEF IsSettled, InDlq
  <2>2. QED
    BY <1>5, <1>6, <1>7, <1>8, <2>1, AckInbox
<1>10. GoodSweeping(y)'
  <2>1. /\ y \in Sweeping /\ y.at = "meta" /\ y.queue = q /\ y.todo = x.todo
        /\ y.entry = x.entry /\ y.copy = x.copy
    BY <1>2, <1>4, <1>6 DEF Sweeping
  <2>2. GoodSweeping(x)'
    BY <1>6, <1>8, <1>9, SweepingStays
  <2>3. EntryOf(AtHand(x).message, x.copy)' => EntryOf(AtHand(y).message, y.copy)'
    BY <1>2, <2>1 DEF EntryOf, AtHand, QueueOf
  <2>4. QED
    BY <1>2, <1>5, <1>6, <2>1, <2>2, <2>3 DEF GoodSweeping
<1>11. CallsOK'
  BY <1>5, <1>8, <1>9, <1>10, SweepingStep
<1>12. MetaOK' /\ WorkOK'
  BY <1>5, <1>8, <1>9, MetaStays, WorkStays
<1>13. QED
  BY <1>8, <1>9, <1>11, <1>12 DEF IInv

LEMMA SweepMetaKeeps ==
    ASSUME IInv, setting' = setting, NEW s \in Sweepers, SweepMeta(s)
    PROVE  IInv'
<1>1. PICK x : x = sweeping[s]
  OBVIOUS
<1>2. PICK m : m = AtHand(x).message
  OBVIOUS
<1>3. PICK y : y = Swept(x)
  OBVIOUS
<1>4. /\ x.at = "meta" /\ WriteMeta(m, "queued", x.copy)
      /\ sweeping' = [sweeping EXCEPT ![s] = y]
      /\ UNCHANGED <<inbox, registry, dlq, replies, sending, consuming, held, used,
                     buried, done, replayed, faults>>
  BY <1>1, <1>2, <1>3 DEF SweepMeta, history
<1>5. /\ x \in Sweeping /\ GoodSweeping(x) /\ x # Idle /\ x.copy \in Nat /\ m \in Messages
  BY <1>1, <1>2, <1>4, SweepAtHand
<1>6. EntryOf(m, x.copy)
  BY <1>2, <1>4, <1>5 DEF GoodSweeping
<1>7. setting \in Settings /\ InboxOK /\ MetaOK /\ CallsOK /\ WorkOK /\ KeepsOK
  BY DEF IInv
<1>8. InboxOK' /\ Steady
  <2>1. \A n \in Messages : IsSettled(n)' <=> IsSettled(n)
    BY <1>4 DEF IsSettled, InDlq
  <2>2. QED
    BY <1>4, <1>7, <2>1, QuietInbox
<1>9. MetaOK' /\ KeepsOK' /\ WorkOK'
  <2>1. streams' = streams
    BY <1>4 DEF inbox
  <2>2. EntryOf(m, x.copy)'
    BY <1>5, <1>6, <1>7, <1>8, EntriesStay
  <2>3. QED
    BY <1>4, <1>5, <1>7, <1>8, <2>1, <2>2, MetaWritten, KeepsStay, WorkStays
<1>10. CallsOK'
  BY <1>3, <1>4, <1>5, <1>7, <1>8, SweptIsGood, SweepingStep
<1>11. QED
  BY <1>7, <1>8, <1>9, <1>10 DEF IInv

LEMMA SweepBuryKeeps ==
    ASSUME IInv, setting' = setting, NEW s \in Sweepers, SweepBury(s)
    PROVE  IInv'
<1>1. PICK x : x = sweeping[s]
  OBVIOUS
<1>2. PICK q : q = x.queue
  OBVIOUS
<1>3. PICK m : m = AtHand(x).message
  OBVIOUS
<1>4. PICK y : y = [x EXCEPT !.at = "getmeta"]
  OBVIOUS
<1>5. PICK letter : letter = [number |-> buried + 1, message |-> m]
  OBVIOUS
<1>6. /\ x.at = "entry" /\ XAck(q, x.entry) /\ sweeping' = [sweeping EXCEPT ![s] = y]
      /\ buried' = buried + 1 /\ dlq' = dlq \cup {letter}
      /\ UNCHANGED <<streams, trimmed, delivered, registry, meta, replies, sending,
                     consuming, held, used, done, replayed, faults>>
  BY <1>1, <1>2, <1>3, <1>4, <1>5 DEF SweepBury, Bury, history
<1>7. /\ x \in Sweeping /\ GoodSweeping(x) /\ x # Idle /\ q \in Queues
      /\ m \in Messages /\ QueueOf(m) = q /\ EntryOf(m, x.entry) /\ Added(m)
  BY <1>1, <1>2, <1>3, <1>6, SweepAtHand
<1>8. setting \in Settings /\ InboxOK /\ MetaOK /\ CallsOK /\ WorkOK /\ KeepsOK
  BY DEF IInv
<1>9. letter \in Letter /\ letter.message = m
  BY <1>5, <1>7, <1>8 DEF Letter, WorkOK
<1>10. \A n \in Messages : IsSettled(n)' <=> (IsSettled(n) \/ n = m)
  BY <1>6, <1>9 DEF IsSettled, InDlq
<1>11. InboxOK' /\ Steady /\ KeepsOK'
  BY <1>6, <1>7, <1>8, <1>10, AckInbox
<1>12. GoodSweeping(y)'
  <2>1. /\ y \in Sweeping /\ y.at = "getmeta" /\ y.queue = q /\ y.todo = x.todo
        /\ y.entry = x.entry
    BY <1>2, <1>4, <1>7 DEF Sweeping
  <2>2. GoodSweeping(x)'
    BY <1>7, <1>8, <1>11, SweepingStays
  <2>3. QED
    BY <1>2, <1>7, <2>1, <2>2 DEF GoodSweeping
<1>13. CallsOK'
  BY <1>6, <1>8, <1>11, <1>12, SweepingStep
<1>14. MetaOK'
  BY <1>6, <1>8, <1>11, MetaStays
<1>15. WorkOK'
  <2>1. dlq' \in SUBSET Letter /\ buried' \in Nat
    BY <1>6, <1>8, <1>9 DEF WorkOK
  <2>2. QED
    BY <1>6, <1>7, <1>8, <1>10, <1>11, <2>1, WorkStep DEF WorkOK
<1>16. QED
  BY <1>8, <1>11, <1>13, <1>14, <1>15 DEF IInv

LEMMA SweepGetMetaKeeps ==
    ASSUME IInv, setting' = setting, NEW s \in Sweepers, SweepGetMeta(s)
    PROVE  IInv'
<1>1. PICK x : x = sweeping[s]
  OBVIOUS
<1>2. PICK m : m = AtHand(x).message
  OBVIOUS
<1>3. PICK y : y = IF meta[m] = NoMeta THEN Swept(x)
                   ELSE [x EXCEPT !.at = "deadmeta", !.copy = meta[m].entry]
  OBVIOUS
<1>4. /\ x.at = "getmeta" /\ sweeping' = [sweeping EXCEPT ![s] = y]
      /\ UNCHANGED <<inbox, registry, meta, dlq, replies, sending, consuming, held,
                     used, buried, done, replayed, faults>>
  BY <1>1, <1>2, <1>3 DEF SweepGetMeta, history
<1>5. x \in Sweeping /\ GoodSweeping(x) /\ x # Idle /\ m \in Messages
  BY <1>1, <1>2, <1>4, SweepAtHand
<1>6. \A n \in Messages : IsSettled(n)' <=> IsSettled(n)
  BY <1>4 DEF IsSettled, InDlq
<1>7. /\ setting \in Settings /\ InboxOK /\ MetaOK /\ CallsOK /\ WorkOK
      /\ setting' \in Settings /\ InboxOK' /\ MetaOK' /\ KeepsOK' /\ Steady
  BY <1>4, <1>6, QuietKeeps DEF IInv
<1>8. GoodSweeping(y)'
  <2>1. CASE meta[m] = NoMeta
    <3>1. y = Swept(x)
      BY <1>3, <2>1
    <3>2. QED
      BY <1>5, <1>7, <3>1, SweptIsGood
  <2>2. CASE meta[m] # NoMeta
    <3>1. PICK i : i = meta[m].entry
      OBVIOUS
    <3>2. i \in Nat /\ EntryOf(m, i)
      BY <1>5, <1>7, <2>2, <3>1, MetaRead
    <3>3. y = [x EXCEPT !.at = "deadmeta", !.copy = i]
      BY <1>3, <2>2, <3>1
    <3>4. /\ y \in Sweeping /\ y.at = "deadmeta" /\ y.queue = x.queue /\ y.todo = x.todo
          /\ y.entry = x.entry /\ y.copy = i
      BY <1>5, <3>2, <3>3 DEF Sweeping
    <3>5. GoodSweeping(x)'
      BY <1>5, <1>7, SweepingStays
    <3>6. EntryOf(AtHand(y).message, y.copy)'
      BY <1>2, <1>4, <3>2, <3>4, <1>7 DEF AtHand, EntryOf, inbox, QueueOf, ToAgent, PriorityOf
    <3>7. QED
      BY <1>5, <3>4, <3>5, <3>6 DEF GoodSweeping
  <2>3. QED
    BY <2>1, <2>2
<1>9. CallsOK'
  BY <1>4, <1>7, <1>8, SweepingStep
<1>10. WorkOK'
  BY <1>4, <1>7, WorkStays
<1>11. QED
  BY <1>7, <1>9, <1>10 DEF IInv

LEMMA SweepDeadMetaKeeps ==
    ASSUME IInv, setting' = setting, NEW s \in Sweepers, SweepDeadMeta(s)
    PROVE  IInv'
<1>1. PICK x : x = sweeping[s]
  OBVIOUS
<1>2. PICK m : m = AtHand(x).message
  OBVIOUS
<1>3. PICK y : y = Swept(x)
  OBVIOUS
<1>4. /\ x.at = "deadmeta" /\ WriteMeta(m, "dead_letter", x.copy)
      /\ sweeping' = [sweeping EXCEPT ![s] = y]
      /\ UNCHANGED <<inbox, registry, dlq, replies, sending, consuming, held, used,
                     buried, done, replayed, faults>>
  BY <1>1, <1>2, <1>3 DEF SweepDeadMeta, history
<1>5. /\ x \in Sweeping /\ GoodSweeping(x) /\ x # Idle /\ x.copy \in Nat /\ m \in Messages
  BY <1>1, <1>2, <1>4, SweepAtHand
<1>6. EntryOf(m, x.copy)
  BY <1>2, <1>4, <1>5 DEF GoodSweeping
<1>7. setting \in Settings /\ InboxOK /\ MetaOK /\ CallsOK /\ WorkOK /\ KeepsOK
  BY DEF IInv
<1>8. InboxOK' /\ Steady
  <2>1. \A n \in Messages : IsSettled(n)' <=> IsSettled(n)
    BY <1>4 DEF IsSettled, InDlq
  <2>2. QED
    BY <1>4, <1>7, <2>1, QuietInbox
<1>9. MetaOK' /\ KeepsOK' /\ WorkOK'
  <2>1. streams' = streams
    BY <1>4 DEF inbox
  <2>2. EntryOf(m, x.copy)'
    BY <1>5, <1>6, <1>7, <1>8, EntriesStay
  <2>3. QED
    BY <1>4, <1>5, <1>7, <1>8, <2>1, <2>2, MetaWritten, KeepsStay, WorkStays
<1>10. CallsOK'
  BY <1>3, <1>4, <1>5, <1>7, <1>8, SweptIsGood, SweepingStep
<1>11. QED
  BY <1>7, <1>8, <1>9, <1>10 DEF IInv

-----------------------------------------------------------------------------
(* Crashes, expiries, and all of it together.                              *)

LEMMA FaultKeeps ==
    ASSUME IInv, setting' = setting, Fault
    PROVE  IInv'
<1>1. UNCHANGED <<inbox, registry, dlq, replies, used, buried, done, replayed>>
  BY DEF Fault, history
<1>2. setting \in Settings /\ InboxOK /\ MetaOK /\ CallsOK /\ WorkOK /\ KeepsOK
  BY DEF IInv
<1>3. \A n \in Messages : IsSettled(n)' <=> IsSettled(n)
  BY <1>1 DEF IsSettled, InDlq
<1>4. InboxOK' /\ Steady /\ KeepsOK'
  <2>1. InboxOK' /\ Steady /\ streams' = streams
    BY <1>1, <1>2, <1>3, QuietInbox DEF inbox
  <2>2. QED
    BY <1>2, <2>1, KeepsStay
<1>5. faults' \in Nat
  BY <1>2 DEF Fault, WorkOK
<1>6. ASSUME held' \in [Consumers -> SUBSET Messages],
             \A c \in Consumers : \A m \in held'[c] : m \in held[c]
      PROVE  WorkOK'
  BY <1>1, <1>2, <1>3, <1>4, <1>5, <1>6, WorkStep DEF WorkOK
<1>7. ASSUME NEW s \in Senders, CrashSender(s)
      PROVE  IInv'
  <2>1. held' = held /\ meta' = meta /\ CallsOK'
    BY <1>2, <1>4, <1>7, SendingStep, IdleIsGood DEF CrashSender
  <2>2. MetaOK' /\ WorkOK'
    BY <1>2, <1>4, <1>6, <2>1, MetaStays DEF WorkOK
  <2>3. QED
    BY <1>2, <1>4, <2>1, <2>2 DEF IInv
<1>8. ASSUME NEW c \in Consumers, CrashConsumer(c)
      PROVE  IInv'
  <2>1. held' = [held EXCEPT ![c] = {}] /\ meta' = meta /\ CallsOK'
    BY <1>2, <1>4, <1>8, ConsumingStep, IdleIsGood DEF CrashConsumer
  <2>2. /\ held' \in [Consumers -> SUBSET Messages]
        /\ \A d \in Consumers : \A m \in held'[d] : m \in held[d]
    BY <1>2, <2>1 DEF WorkOK
  <2>3. MetaOK' /\ WorkOK'
    BY <1>2, <1>4, <1>6, <2>1, <2>2, MetaStays
  <2>4. QED
    BY <1>2, <1>4, <2>1, <2>3 DEF IInv
<1>9. ASSUME NEW s \in Sweepers, CrashSweeper(s)
      PROVE  IInv'
  <2>1. held' = held /\ meta' = meta /\ CallsOK'
    BY <1>2, <1>4, <1>9, SweepingStep, IdleIsGood DEF CrashSweeper
  <2>2. MetaOK' /\ WorkOK'
    BY <1>2, <1>4, <1>6, <2>1, MetaStays DEF WorkOK
  <2>3. QED
    BY <1>2, <1>4, <2>1, <2>2 DEF IInv
<1>10. ASSUME NEW m \in Messages, ExpireMeta(m)
       PROVE  IInv'
  <2>1. /\ held' = held /\ UNCHANGED <<sending, consuming, sweeping>>
        /\ meta' = [meta EXCEPT ![m] = NoMeta]
    BY <1>10 DEF ExpireMeta, calls
  <2>2. \A x \in Messages : \A i : EntryOf(x, i) => EntryOf(x, i)'
    BY <1>2, <1>4, EntriesStay
  <2>3. \A x \in Messages : meta'[x] # NoMeta => meta'[x] = meta[x]
    BY <1>2, <2>1 DEF MetaOK
  <2>4. MetaOK'
    BY <1>2, <2>1, <2>2, <2>3 DEF MetaOK
  <2>5. CallsOK' /\ WorkOK'
    BY <1>2, <1>4, <1>6, <2>1, CallsUnchanged DEF WorkOK
  <2>6. QED
    BY <1>2, <1>4, <2>4, <2>5 DEF IInv
<1>11. QED
  BY <1>7, <1>8, <1>9, <1>10 DEF Fault

LEMMA StutterKeeps ==
    ASSUME IInv, UNCHANGED vars
    PROVE  IInv'
<1>1. /\ setting' = setting
      /\ UNCHANGED <<inbox, registry, meta, dlq, replies, sending, consuming, sweeping,
                     held, used, buried, done, replayed, faults>>
  BY DEF vars, calls, history
<1>2. \A n \in Messages : IsSettled(n)' <=> IsSettled(n)
  BY <1>1 DEF IsSettled, InDlq
<1>3. /\ setting \in Settings /\ InboxOK /\ CallsOK /\ WorkOK
      /\ setting' \in Settings /\ InboxOK' /\ MetaOK' /\ KeepsOK' /\ Steady
  BY <1>1, <1>2, QuietKeeps DEF IInv
<1>4. CallsOK' /\ WorkOK'
  BY <1>1, <1>3, CallsUnchanged, WorkStays
<1>5. QED
  BY <1>3, <1>4 DEF IInv

LEMMA NextKeeps ==
    ASSUME IInv, [Next]_vars
    PROVE  IInv'
<1>1. CASE UNCHANGED vars
  BY <1>1, StutterKeeps
<1>2. CASE Next
  <2>1. setting' = setting /\ Step
    BY <1>2 DEF Next
  <2>2. ASSUME NEW s \in Senders, NEW m \in Messages, Dispatch(s, m) \/ ReplayStart(s, m)
        PROVE  IInv'
    BY <2>1, <2>2, DispatchKeeps, ReplayStartKeeps
  <2>3. ASSUME NEW s \in Senders, Send(s) \/ ReplayEnd(s)
        PROVE  IInv'
    BY <2>1, <2>3, SendKeeps, ReplayEndKeeps
  <2>4. ASSUME NEW c \in Consumers, ConsumerStep(c)
        PROVE  IInv'
    BY <2>1, <2>4, ClaimStartKeeps, ClaimReadKeeps, ClaimMetaKeeps, ClaimReturnKeeps,
       ReplyEnqueueKeeps, AckGetMetaKeeps, AckXAckKeeps, AckMetaKeeps, RecordReplyKeeps
       DEF ConsumerStep
  <2>5. ASSUME NEW c \in Consumers, NEW m \in Messages, AckStart(c, m)
        PROVE  IInv'
    BY <2>1, <2>5, AckStartKeeps
  <2>6. ASSUME NEW c \in Consumers, NEW m \in Messages, NEW r \in Messages, ReplyStart(c, m, r)
        PROVE  IInv'
    BY <2>1, <2>6, ReplyStartKeeps
  <2>7. ASSUME NEW s \in Sweepers, SweeperStep(s)
        PROVE  IInv'
    BY <2>1, <2>7, SweepStartKeeps, SweepRetryKeeps, SweepXAckKeeps, SweepMetaKeeps,
       SweepBuryKeeps, SweepGetMetaKeeps, SweepDeadMetaKeeps DEF SweeperStep
  <2>8. QED
    BY <2>1, <2>2, <2>3, <2>4, <2>5, <2>6, <2>7, FaultKeeps DEF Step
<1>3. QED
  BY <1>1, <1>2

LEMMA InitHolds ==
    ASSUME Init
    PROVE  IInv
<1>1. setting \in Settings /\ setting \in Setting
  BY BusConstants DEF Init
<1>2. \A m \in Messages : QueueOf(m) \in Queues
  BY <1>1, SettingTyped
<1>3. InboxOK
  BY DEF Init, InboxOK
<1>4. MetaOK
  BY DEF Init, MetaOK
<1>5. CallsOK
  <2>1. GoodSending(Idle) /\ GoodConsuming(Idle) /\ GoodSweeping(Idle)
    BY DEF GoodSending, GoodConsuming, GoodSweeping, Idle
  <2>2. QED
    BY <2>1 DEF Init, CallsOK
<1>6. \A m \in Messages : ~Added(m) /\ ~IsSettled(m)
  BY <1>2 DEF Init, Added, IsSettled, InDlq
<1>7. WorkOK
  <2>1. used \in SUBSET Messages
    BY DEF Init
  <2>2. QED
    BY <1>6, <2>1 DEF Init, WorkOK
<1>8. KeepsOK
  BY <1>6 DEF KeepsOK
<1>9. QED
  BY <1>1, <1>3, <1>4, <1>5, <1>7, <1>8 DEF IInv

(* The invariant holds in every reachable state.                           *)
THEOREM Inductive == Spec => []IInv
BY InitHolds, NextKeeps, PTL DEF Spec

-----------------------------------------------------------------------------
(* What follows: types, replies, the order of claims.                      *)

(* Every variable keeps its type.                                          *)
THEOREM BusTypeCorrect == Spec => []TypeOK
<1>1. IInv => TypeOK
  BY DEF IInv, InboxOK, MetaOK, CallsOK, WorkOK, TypeOK
<1>2. QED
  BY <1>1, Inductive, PTL

LEMMA AddedIsAccepted ==
    ASSUME IInv, NEW m \in Messages
    PROVE  /\ Accepted(m) <=> Added(m)
           /\ IsOpen(m) => Added(m)
           /\ IsOpen(m) <=> \E i \in DOMAIN streams[QueueOf(m)] :
                               EntryOf(m, i) /\ i \in Open(QueueOf(m))
<1>1. setting \in Settings /\ InboxOK /\ QueueOf(m) \in Queues
  BY SettingTyped DEF IInv
<1>2. ASSUME NEW q \in Queues, NEW i \in DOMAIN streams[q], streams[q][i].message = m
      PROVE  QueueOf(m) = q /\ EntryOf(m, i)
  BY <1>1, <1>2 DEF InboxOK, EntryOf
<1>3. \A q \in Queues : \A i \in Open(q) : i \in DOMAIN streams[q]
  BY <1>1, StreamTyped DEF Open, Waiting
<1>4. Accepted(m) <=> Added(m)
  BY <1>1, <1>2 DEF Accepted, Added, EntryOf
<1>5. IsOpen(m) <=> \E i \in DOMAIN streams[QueueOf(m)] :
                       EntryOf(m, i) /\ i \in Open(QueueOf(m))
  BY <1>1, <1>2, <1>3 DEF IsOpen, EntryOf
<1>6. QED
  BY <1>4, <1>5 DEF Added

(* What awaitReply finds is an answer to the message, already in the       *)
(* asker's inbox, of a consumer that finished the work, however calls,     *)
(* crashes and sweeps interleave.                                          *)
THEOREM RepliesAnswer == Spec => []RecordedReplyAnswers
<1>1. ASSUME IInv
      PROVE  RecordedReplyAnswers
  <2>1. \A m \in Messages : replies[m] # NoMessage =>
           /\ replies[m] \in Messages /\ ReplyTo[replies[m]] = m /\ m \in done
           /\ Added(replies[m])
    BY <1>1 DEF IInv, WorkOK
  <2>2. QED
    BY <1>1, <2>1, AddedIsAccepted DEF RecordedReplyAnswers
<1>2. QED
  BY <1>1, Inductive, PTL

(* A claim never passes over an entry that waited when it began, with any  *)
(* number of consumers, sweepers and senders beside it.                    *)
THEOREM ClaimsTakeHighest == Spec => []ClaimTakesHighest
<1>1. ASSUME IInv, NEW c \in Consumers, consuming[c].at = "claim",
             NEW e \in consuming[c].before, NEW g \in consuming[c].got,
             e[2] \in Waiting(e[1])
      PROVE  e[1][2] <= PriorityOf[g]
  <2>1. PICK x : x = consuming[c]
    OBVIOUS
  <2>2. GoodClaim(x)
    BY <1>1, <2>1, ClaimAtHand
  <2>3. QED
    BY <1>1, <2>1, <2>2 DEF GoodClaim, StillWaits
<1>2. IInv => ClaimTakesHighest
  BY <1>1 DEF ClaimTakesHighest
<1>3. QED
  BY <1>2, Inductive, PTL

-----------------------------------------------------------------------------
(* At-least-once delivery.                                                 *)

WasTrimmed(m) == \E q \in Queues : \E i \in DOMAIN streams[q] :
                    i <= trimmed[q] /\ streams[q][i].message = m
LostOnlyByTrimming ==
    \A m \in Messages : Accepted(m) => IsOpen(m) \/ IsSettled(m) \/ WasTrimmed(m)

LEMMA KeptMeans ==
    ASSUME IInv
    PROVE  LostOnlyByTrimming
<1>1. ASSUME NEW m \in Messages, Accepted(m), ~IsSettled(m)
      PROVE  IsOpen(m) \/ WasTrimmed(m)
  <2>1. Added(m) /\ QueueOf(m) \in Queues
    BY <1>1, AddedIsAccepted, SettingTyped DEF IInv
  <2>2. KeptAfter(m, 0)
    BY <2>1 DEF IInv, KeepsOK
  <2>3. PICK i \in DOMAIN streams[QueueOf(m)] :
           EntryOf(m, i) /\ (i <= trimmed[QueueOf(m)] \/ i \in Open(QueueOf(m)))
    BY <1>1, <2>2 DEF KeptAfter
  <2>4. QED
    BY <2>1, <2>3 DEF EntryOf, IsOpen, WasTrimmed
<1>2. QED
  BY <1>1 DEF LostOnlyByTrimming

(* Whoever crashes between whichever two commands, and however acks,       *)
(* sweeps and replays interleave, the only way to lose a message that is   *)
(* neither finished nor dead-lettered is the MAXLEN of XADD.               *)
THEOREM TrimmingAloneLoses == Spec => []LostOnlyByTrimming
BY KeptMeans, Inductive, PTL

NoTrim == \A q \in Queues : trimmed[q] = 0

LEMMA NothingTrimmed ==
    ASSUME StreamMaxLen >= MaxEntries
    PROVE  Spec => []NoTrim
<1>1. Init => NoTrim
  BY DEF Init, NoTrim
<1>2. ASSUME IInv, NoTrim, NEW q \in Queues, NEW m, NEW n, XAdd(q, m, n)
      PROVE  NoTrim'
  <2>1. PICK t \in trimmed[q] .. Len(streams[q]) + 1 :
           /\ t > trimmed[q] => Len(streams[q]) + 1 - t >= StreamMaxLen
           /\ trimmed' = [trimmed EXCEPT ![q] = t]
    BY <1>2 DEF XAdd
  <2>2. Len(streams[q]) \in Nat /\ Len(streams[q]) < MaxEntries /\ trimmed[q] = 0
    BY <1>2, StreamTyped DEF XAdd, NoTrim, IInv
  <2>3. t = 0
    BY <2>1, <2>2, BusConstants
  <2>4. trimmed \in [Queues -> Nat]
    BY <1>2 DEF IInv, InboxOK
  <2>5. QED
    BY <1>2, <2>1, <2>3, <2>4 DEF NoTrim
<1>3. ASSUME NoTrim, trimmed' = trimmed
      PROVE  NoTrim'
  BY <1>3 DEF NoTrim
<1>4. ASSUME IInv, NoTrim, NEW x, x.sent \in Messages, Enqueue(x)
      PROVE  NoTrim'
  <2>1. QueueOf(x.sent) \in Queues
    BY <1>4, SettingTyped DEF IInv
  <2>2. QED
    BY <1>2, <1>3, <1>4, <2>1 DEF Enqueue
<1>5. ASSUME IInv, NoTrim, [Next]_vars
      PROVE  NoTrim'
  <2>1. ASSUME UNCHANGED inbox
        PROVE  NoTrim'
    BY <1>3, <1>5, <2>1 DEF inbox
  <2>2. ASSUME NEW s \in Senders, Send(s)
        PROVE  NoTrim'
    <3>1. sending[s] \in Sending /\ Enqueue(sending[s])
      BY <1>5, <2>2 DEF Send, IInv, CallsOK
    <3>2. sending[s].sent \in Messages
      BY <3>1 DEF Sending
    <3>3. QED
      BY <1>4, <1>5, <3>1, <3>2
  <2>3. ASSUME NEW c \in Consumers, ReplyEnqueue(c)
        PROVE  NoTrim'
    <3>1. PICK x : x = consuming[c]
      OBVIOUS
    <3>2. x.at \in {"register", "xadd", "meta"} /\ Enqueue(x)
      BY <2>3, <3>1 DEF ReplyEnqueue
    <3>3. GoodAnswer(x) /\ (x.sent # NoMessage => x.sent \in Messages)
      BY <1>5, <3>1, <3>2, AnswerAtHand
    <3>4. x.sent \in Messages
      BY <3>2, <3>3 DEF GoodAnswer
    <3>5. QED
      BY <1>4, <1>5, <3>2, <3>4
  <2>4. ASSUME NEW s \in Sweepers, SweepRetry(s)
        PROVE  NoTrim'
    <3>1. PICK x : x = sweeping[s]
      OBVIOUS
    <3>2. x.at = "entry" /\ XAdd(x.queue, AtHand(x).message, NextAttempt(x))
      BY <2>4, <3>1 DEF SweepRetry
    <3>3. x.queue \in Queues
      BY <1>5, <3>1, <3>2, SweepAtHand
    <3>4. QED
      BY <1>2, <1>5, <3>2, <3>3
  <2>5. ASSUME trimmed' = trimmed
        PROVE  NoTrim'
    BY <1>3, <1>5, <2>5
  <2>6. CASE UNCHANGED vars
    BY <2>1, <2>6 DEF vars
  <2>7. CASE Next
    <3>1. ASSUME NEW c \in Consumers, ConsumerStep(c)
          PROVE  NoTrim'
      BY <2>1, <2>3, <2>5, <3>1
         DEF ConsumerStep, ClaimStart, ClaimRead, ClaimMeta, ClaimReturn, AckGetMeta,
             AckXAck, AckMeta, RecordReply
    <3>2. ASSUME NEW s \in Sweepers, SweeperStep(s)
          PROVE  NoTrim'
      BY <2>1, <2>4, <2>5, <3>2
         DEF SweeperStep, SweepStart, SweepXAck, SweepMeta, SweepBury, SweepGetMeta,
             SweepDeadMeta
    <3>3. QED
      BY <2>1, <2>2, <2>7, <3>1, <3>2
         DEF Next, Step, Dispatch, ReplayStart, ReplayEnd, AckStart, ReplyStart, Fault
  <2>8. QED
    BY <1>5, <2>6, <2>7
<1>6. QED
  BY <1>1, <1>5, Inductive, PTL DEF Spec

(* As long as no stream outgrows SPANOAI_STREAM_MAXLEN, a message in the   *)
(* stream is delivered or deliverable until a consumer has finished its    *)
(* work or it is a dead letter.                                            *)
THEOREM AtLeastOnceDelivery ==
    ASSUME StreamMaxLen >= MaxEntries
    PROVE  Spec => []NothingIsLost
<1>1. ASSUME IInv, NoTrim
      PROVE  NothingIsLost
  <2>1. ASSUME NEW m \in Messages, WasTrimmed(m)
        PROVE  FALSE
    <3>1. PICK q \in Queues : \E i \in DOMAIN streams[q] : i <= trimmed[q]
      BY <2>1 DEF WasTrimmed
    <3>2. DOMAIN streams[q] = 1 .. Len(streams[q]) /\ trimmed[q] = 0
      BY <1>1, StreamTyped DEF NoTrim, IInv
    <3>3. QED
      BY <3>1, <3>2
  <2>2. QED
    BY <1>1, <2>1, KeptMeans DEF LostOnlyByTrimming, NothingIsLost
<1>2. QED
  BY <1>1, Inductive, NothingTrimmed, PTL

-----------------------------------------------------------------------------
(* The bus implements AtLeastOnce.                                         *)

Custody == [m \in Messages |-> IF IsSettled(m) THEN "settled"
                               ELSE IF IsOpen(m) THEN "owed" ELSE "none"]

Ledger == [m \in Messages |-> IF IsSettled(m) THEN "settled"
                              ELSE IF Added(m) THEN "owed" ELSE "none"]

LEMMA OwedIsOpen ==
    ASSUME IInv, NoTrim, NEW m \in Messages, ~IsSettled(m)
    PROVE  IsOpen(m) <=> Added(m)
<1>1. Added(m) => IsOpen(m)
  <2>1. ASSUME Added(m)
        PROVE  IsOpen(m)
    <3>1. QueueOf(m) \in Queues /\ KeptAfter(m, 0)
      BY <2>1, SettingTyped DEF IInv, KeepsOK
    <3>2. trimmed[QueueOf(m)] = 0 /\ DOMAIN streams[QueueOf(m)] = 1 .. Len(streams[QueueOf(m)])
      BY <3>1, StreamTyped DEF NoTrim, IInv
    <3>3. PICK i \in DOMAIN streams[QueueOf(m)] : EntryOf(m, i) /\ i \in Open(QueueOf(m))
      BY <2>1, <3>1, <3>2 DEF KeptAfter
    <3>4. QED
      BY <3>3, AddedIsAccepted
  <2>2. QED
    BY <2>1
<1>2. IsOpen(m) => Added(m)
  BY AddedIsAccepted DEF IsOpen, Accepted, Open
<1>3. QED
  BY <1>1, <1>2


LEMMA CustodyIsLedger == IInv /\ NoTrim => Custody = Ledger
BY OwedIsOpen DEF Custody, Ledger

(* A step adds at most one message, and settles at most one.               *)
Alike(m)    == (Added(m)' <=> Added(m)) /\ (IsSettled(m)' <=> IsSettled(m))
Joins(m)    == Added(m)' /\ (IsSettled(m)' <=> IsSettled(m))
Finishes(m) == Added(m) /\ Added(m)' /\ IsSettled(m)'
OneChange   == \/ \A x \in Messages : Alike(x)
               \/ \E m \in Messages : /\ \A x \in Messages \ {m} : Alike(x)
                                      /\ Joins(m) \/ Finishes(m)

LEMMA SameAdded ==
    ASSUME setting' = setting, streams' = streams, NEW m
    PROVE  Added(m)' <=> Added(m)
BY DEF Added, EntryOf, QueueOf, ToAgent, PriorityOf

LEMMA SameSettled ==
    ASSUME UNCHANGED <<dlq, done, replayed>>, NEW m
    PROVE  IsSettled(m)' <=> IsSettled(m)
BY DEF IsSettled, InDlq

LEMMA XAddChanges ==
    ASSUME IInv, setting' = setting, NEW m \in Messages, NEW n \in Nat, NEW q \in Queues,
           q = QueueOf(m), XAdd(q, m, n), UNCHANGED <<delivered, pending, dlq, done, replayed>>
    PROVE  OneChange
<1>1. setting \in Settings /\ InboxOK /\ KeepsOK
  BY DEF IInv
<1>2. PICK last : last = Len(streams[q]) + 1
  OBVIOUS
<1>3. /\ Steady /\ Added(m)'
      /\ \A x \in Messages : Added(x)' => Added(x) \/ x = m
  BY <1>1, <1>2, GrowInbox
<1>4. \A x \in Messages : Added(x) => Added(x)'
  BY <1>1, <1>3, EntriesStay
<1>5. QED
  BY <1>3, <1>4, SameSettled DEF OneChange, Alike, Joins

LEMMA EnqueueChanges ==
    ASSUME IInv, setting' = setting, NEW x, x.sent \in Messages, Enqueue(x),
           UNCHANGED <<delivered, pending, dlq, done, replayed>>
    PROVE  OneChange
<1>1. CASE streams' = streams
  BY <1>1, SameAdded, SameSettled DEF OneChange, Alike
<1>2. CASE XAdd(QueueOf(x.sent), x.sent, 0)
  <2>1. PICK q \in Queues : q = QueueOf(x.sent)
    BY SettingTyped DEF IInv
  <2>2. QED
    BY <1>2, <2>1, XAddChanges
<1>3. QED
  BY <1>1, <1>2 DEF Enqueue

LEMMA DoneChanges ==
    ASSUME IInv, setting' = setting, streams' = streams, NEW m \in Messages, Added(m),
           \A x \in Messages : IsSettled(x)' <=> (IsSettled(x) \/ x = m)
    PROVE  OneChange
BY SameAdded DEF OneChange, Alike, Finishes

LEMMA StepChanges ==
    ASSUME IInv, [Next]_vars
    PROVE  OneChange
<1>1. ASSUME setting' = setting, streams' = streams, UNCHANGED <<dlq, done, replayed>>
      PROVE  OneChange
  BY <1>1, SameAdded, SameSettled DEF OneChange, Alike
<1>2. ASSUME setting' = setting, UNCHANGED inbox, UNCHANGED <<dlq, history>>
      PROVE  OneChange
  BY <1>1, <1>2 DEF inbox, history
<1>3. CASE UNCHANGED vars
  BY <1>2, <1>3 DEF vars
<1>4. CASE Next
  <2>1. setting' = setting /\ Step
    BY <1>4 DEF Next
  <2>2. ASSUME NEW s \in Senders, Send(s)
        PROVE  OneChange
    <3>1. PICK x : x = sending[s]
      OBVIOUS
    <3>2. x \in Sending /\ x.sent \in Messages
      BY <2>2, <3>1 DEF Send, IInv, CallsOK, Sending
    <3>3. QED
      BY <2>1, <2>2, <3>1, <3>2, EnqueueChanges DEF Send, history
  <2>3. ASSUME NEW s \in Senders, ReplayEnd(s)
        PROVE  OneChange
    <3>1. PICK letters : letters = {d \in dlq : d.number = sending[s].letter}
      OBVIOUS
    <3>2. /\ dlq' = dlq \ letters /\ replayed' = replayed \cup {d.message : d \in letters}
          /\ UNCHANGED <<streams, done>>
      BY <2>3, <3>1, ReplayEndsSent DEF ReplayEnd, inbox
    <3>3. letters \subseteq dlq
      BY <3>1
    <3>4. \A x \in Messages : IsSettled(x)' <=> IsSettled(x)
      BY <3>2, <3>3 DEF IsSettled, InDlq
    <3>5. QED
      BY <2>1, <3>2, <3>4, SameAdded DEF OneChange, Alike
  <2>4. ASSUME NEW c \in Consumers, NEW m \in Messages, m \in held[c],
               done' = done \cup {m}, UNCHANGED inbox, UNCHANGED <<dlq, replayed>>
        PROVE  OneChange
    <3>1. Added(m) /\ streams' = streams
      BY <2>4 DEF IInv, WorkOK, inbox
    <3>2. \A x \in Messages : IsSettled(x)' <=> (IsSettled(x) \/ x = m)
      BY <2>4 DEF IsSettled, InDlq
    <3>3. QED
      BY <2>1, <3>1, <3>2, DoneChanges
  <2>5. ASSUME NEW c \in Consumers, ReplyEnqueue(c)
        PROVE  OneChange
    <3>1. PICK x : x = consuming[c]
      OBVIOUS
    <3>2. x.at \in {"register", "xadd", "meta"} /\ Enqueue(x)
      BY <2>5, <3>1 DEF ReplyEnqueue
    <3>3. GoodAnswer(x) /\ (x.sent # NoMessage => x.sent \in Messages)
      BY <3>1, <3>2, AnswerAtHand
    <3>4. x.sent \in Messages
      BY <3>2, <3>3 DEF GoodAnswer
    <3>5. QED
      BY <2>1, <2>5, <3>2, <3>4, EnqueueChanges DEF ReplyEnqueue, history
  <2>6. ASSUME NEW s \in Sweepers, SweepRetry(s)
        PROVE  OneChange
    <3>1. PICK x : x = sweeping[s]
      OBVIOUS
    <3>2. PICK m : m = AtHand(x).message
      OBVIOUS
    <3>3. x.at = "entry" /\ XAdd(x.queue, m, NextAttempt(x))
      BY <2>6, <3>1, <3>2 DEF SweepRetry
    <3>4. x.queue \in Queues /\ m \in Messages /\ QueueOf(m) = x.queue /\ NextAttempt(x) \in Nat
      BY <3>1, <3>2, <3>3, SweepAtHand DEF NextAttempt
    <3>5. QED
      BY <2>1, <2>6, <3>3, <3>4, XAddChanges DEF SweepRetry, history
  <2>7. ASSUME NEW s \in Sweepers, SweepBury(s)
        PROVE  OneChange
    <3>1. PICK x : x = sweeping[s]
      OBVIOUS
    <3>2. PICK m : m = AtHand(x).message
      OBVIOUS
    <3>3. PICK letter : letter = [number |-> buried + 1, message |-> m]
      OBVIOUS
    <3>4. x.at = "entry" /\ dlq' = dlq \cup {letter} /\ UNCHANGED <<streams, done, replayed>>
      BY <2>7, <3>1, <3>2, <3>3 DEF SweepBury, Bury, history
    <3>5. m \in Messages /\ Added(m) /\ letter.message = m
      BY <3>1, <3>2, <3>3, <3>4, SweepAtHand
    <3>6. \A x1 \in Messages : IsSettled(x1)' <=> (IsSettled(x1) \/ x1 = m)
      BY <3>4, <3>5 DEF IsSettled, InDlq
    <3>7. QED
      BY <2>1, <3>4, <3>5, <3>6, DoneChanges
  <2>8. ASSUME NEW c \in Consumers, ConsumerStep(c)
        PROVE  OneChange
    BY <1>1, <1>2, <2>1, <2>5, <2>8
       DEF ConsumerStep, ClaimStart, ClaimRead, ClaimMeta, ClaimReturn, AckGetMeta, AckXAck,
           AckMeta, RecordReply, history
  <2>9. ASSUME NEW s \in Sweepers, SweeperStep(s)
        PROVE  OneChange
    BY <1>1, <1>2, <2>1, <2>6, <2>7, <2>9
       DEF SweeperStep, SweepStart, SweepXAck, SweepMeta, SweepGetMeta, SweepDeadMeta, history
  <2>10. ASSUME NEW s \in Senders, NEW m \in Messages, Dispatch(s, m) \/ ReplayStart(s, m)
         PROVE  OneChange
    BY <1>2, <2>1, <2>10 DEF Dispatch, ReplayStart
  <2>11. ASSUME NEW c \in Consumers, NEW m \in Messages, AckStart(c, m)
         PROVE  OneChange
    BY <2>4, <2>11 DEF AckStart
  <2>12. ASSUME NEW c \in Consumers, NEW m \in Messages, NEW r \in Messages, ReplyStart(c, m, r)
         PROVE  OneChange
    BY <2>4, <2>12 DEF ReplyStart
  <2>13. CASE Fault
    BY <1>2, <2>1, <2>13 DEF Fault
  <2>14. QED
    BY <2>1, <2>2, <2>3, <2>8, <2>9, <2>10, <2>11, <2>12, <2>13 DEF Step
<1>5. QED
  BY <1>3, <1>4

LEMMA LedgerStep ==
    ASSUME IInv, [Next]_vars
    PROVE  \/ Ledger' = Ledger
           \/ \E m \in Messages :
                 \/ Ledger[m] = "none" /\ Ledger' = [Ledger EXCEPT ![m] = "owed"]
                 \/ Ledger[m] = "owed" /\ Ledger' = [Ledger EXCEPT ![m] = "settled"]
<1>1. OneChange
  BY StepChanges
<1>2. CASE \A x \in Messages : Alike(x)
  BY <1>2 DEF Alike, Ledger
<1>3. ASSUME NEW m \in Messages, \A x \in Messages \ {m} : Alike(x), Joins(m)
      PROVE  \/ Ledger' = Ledger
             \/ Ledger[m] = "none" /\ Ledger' = [Ledger EXCEPT ![m] = "owed"]
  <2>1. CASE Added(m) \/ IsSettled(m)
    BY <1>3, <2>1 DEF Alike, Joins, Ledger
  <2>2. CASE ~Added(m) /\ ~IsSettled(m)
    BY <1>3, <2>2 DEF Alike, Joins, Ledger
  <2>3. QED
    BY <2>1, <2>2
<1>4. ASSUME NEW m \in Messages, \A x \in Messages \ {m} : Alike(x), Finishes(m)
      PROVE  \/ Ledger' = Ledger
             \/ Ledger[m] = "owed" /\ Ledger' = [Ledger EXCEPT ![m] = "settled"]
  <2>1. CASE IsSettled(m)
    BY <1>4, <2>1 DEF Alike, Finishes, Ledger
  <2>2. CASE ~IsSettled(m)
    BY <1>4, <2>2 DEF Alike, Finishes, Ledger
  <2>3. QED
    BY <2>1, <2>2
<1>5. QED
  BY <1>1, <1>2, <1>3, <1>4 DEF OneChange

(* The bus implements AtLeastOnce: what an XADD put into a stream is owed  *)
(* until an acknowledgement, a reply, a dead letter or its replay settles  *)
(* it, one message at a time, and no step of the bus takes it back.        *)
THEOREM BusImplementsDelivery ==
    ASSUME StreamMaxLen >= MaxEntries
    PROVE  Spec => ImplementsDelivery
<1>1. Init => Delivery!Init
  <2>1. Init => \A m \in Messages : ~IsSettled(m) /\ ~IsOpen(m)
    <3>1. Init => \A q \in Queues : Open(q) = {}
      BY DEF Init, Open, Waiting
    <3>2. QED
      BY <3>1 DEF Init, IsSettled, InDlq, IsOpen
  <2>2. QED
    BY <2>1 DEF Delivery!Init
<1>2. (IInv /\ NoTrim => Custody = Ledger)'
  BY CustodyIsLedger, PTL
<1>3. IInv /\ NoTrim /\ IInv' /\ NoTrim' /\ [Next]_vars
        => [Delivery!Next]_Custody
  BY <1>2, CustodyIsLedger, LedgerStep
     DEF Custody, Delivery!Next, Delivery!Accept, Delivery!Settle
<1>4. QED
  BY <1>1, <1>3, Inductive, NothingTrimmed, PTL
     DEF Spec, ImplementsDelivery, Delivery!Spec, Custody

-----------------------------------------------------------------------------
(* How often a message is delivered.                                       *)

(* Call x has yet to add its message: nobody else will, and it is not in    *)
(* the inbox.                                                              *)
ToAdd(x)     == x.at \in {"register", "xadd"}
WillAdd(x, m) == ToAdd(x) /\ x.sent = m
FreshIds ==
    /\ \A m \in Messages : Added(m) =>
          /\ m \in used
          /\ \A s \in Senders : ~WillAdd(sending[s], m)
          /\ \A c \in Consumers : ~WillAdd(consuming[c], m)
    /\ \A m \in Messages :
          /\ \A s \in Senders : WillAdd(sending[s], m) =>
                /\ m \in used /\ \A c \in Consumers : ~WillAdd(consuming[c], m)
                /\ \A t \in Senders : WillAdd(sending[t], m) => s = t
          /\ \A c \in Consumers : WillAdd(consuming[c], m) =>
                /\ m \in used
                /\ \A d \in Consumers : WillAdd(consuming[d], m) => c = d

(* The entries sweep x has claimed and not decided on.                     *)
Undecided(x) == IF x.at = "entry" THEN x.todo ELSE x.todo \ {x.entry}
SweepsOK ==
    \A s \in Sweepers : sweeping[s] # Idle =>
        /\ s \in setting.sweepers
        /\ \A i \in sweeping[s].todo : i <= delivered[sweeping[s].queue]

(* The copies of a message count up, to maxRetries at most.                *)
SameMessage(q, i, j) == streams[q][i].message = streams[q][j].message
CopiesCount ==
    \A q \in Queues : \A i \in DOMAIN streams[q] :
        /\ streams[q][i].retryCount <= setting.maxRetries
        /\ \A j \in DOMAIN streams[q] : i < j /\ SameMessage(q, i, j) =>
              streams[q][i].retryCount < streams[q][j].retryCount

(* An entry is over once it has a later copy or its message is a dead      *)
(* letter; what is over is delivered, no sweep will decide on it, and it   *)
(* is pending only until the sweep that copied it acknowledges it.         *)
Over(q, i) == \/ \E j \in DOMAIN streams[q] : i < j /\ SameMessage(q, i, j)
              \/ InDlq(streams[q][i].message)
Copied(q, i) ==
    \E s \in Sweepers :
        sweeping[s].at = "xack" /\ sweeping[s].queue = q /\ sweeping[s].entry = i
InSweep(q, i) ==
    \E s \in Sweepers :
        sweeping[s] # Idle /\ sweeping[s].queue = q /\ i \in Undecided(sweeping[s])
OverIsDone ==
    \A q \in Queues : \A i \in DOMAIN streams[q] : Over(q, i) =>
        /\ i <= delivered[q] /\ ~InSweep(q, i)
        /\ i \in pending[q] => Copied(q, i)

OneLetter == \A d, e \in dlq : d.message = e.message => d = e

(* One sweep at a time, and nothing has crashed.                           *)
Alone == \A s, t \in setting.sweepers : s = t
Budgeted == CopiesCount /\ OverIsDone /\ OneLetter
Calm(f) == f = 0 /\ Alone
BudgetInv == FreshIds /\ SweepsOK /\ (Calm(faults) => Budgeted)

LEMMA CallsTyped ==
    ASSUME IInv
    PROVE  /\ \A s \in Senders : ToAdd(sending[s]) => sending[s].sent \in Messages
           /\ \A c \in Consumers : ToAdd(consuming[c]) => consuming[c].sent \in Messages
<1>1. ASSUME NEW s \in Senders, ToAdd(sending[s])
      PROVE  sending[s].sent \in Messages
  <2>1. sending[s] \in Sending
    BY <1>1 DEF IInv, CallsOK, Idle, ToAdd
  <2>2. QED
    BY <2>1 DEF Sending
<1>2. ASSUME NEW c \in Consumers, ToAdd(consuming[c])
      PROVE  consuming[c].sent \in Messages
  <2>1. PICK x : x = consuming[c]
    OBVIOUS
  <2>2. x.at \in {"register", "xadd"}
    BY <1>2, <2>1 DEF ToAdd
  <2>3. GoodAnswer(x) /\ (x.sent # NoMessage => x.sent \in Messages)
    BY <2>1, <2>2, AnswerAtHand
  <2>4. QED
    BY <2>1, <2>2, <2>3 DEF GoodAnswer
<1>3. QED
  BY <1>1, <1>2

(* Call y comes of x: it adds what x had yet to add, if anything.          *)
ComesOf(y, x) == \A m \in Messages : WillAdd(y, m) => WillAdd(x, m)
SendersGoOn   == \A s \in Senders : ComesOf(sending'[s], sending[s])
ConsumersGoOn == \A c \in Consumers : ComesOf(consuming'[c], consuming[c])

LEMMA IdsGoOn ==
    ASSUME FreshIds, used \subseteq used', SendersGoOn, ConsumersGoOn,
           \A m \in Messages : Added(m)' => Added(m)
    PROVE  FreshIds'
BY DEF FreshIds, SendersGoOn, ConsumersGoOn, ComesOf

(* A call starts that will add a message with a new id.                    *)
LEMMA SenderBegins ==
    ASSUME IInv, FreshIds, NEW s \in Senders, NEW y, NEW m \in Messages, y.sent = m,
           m \notin used, used' = used \cup {m}, sending' = [sending EXCEPT ![s] = y],
           consuming' = consuming, \A x \in Messages : Added(x)' => Added(x)
    PROVE  FreshIds'
<1>1. \A t \in Senders : sending'[t] = IF t = s THEN y ELSE sending[t]
  BY DEF IInv, CallsOK
<1>2. \A x \in Messages : WillAdd(y, x) => x = m
  BY DEF WillAdd
<1>3. ~Added(m) /\ \A t \in Senders : ~WillAdd(sending[t], m)
  BY DEF FreshIds
<1>4. \A c \in Consumers : ~WillAdd(consuming[c], m)
  BY DEF FreshIds
<1>5. QED
  BY <1>1, <1>2, <1>3, <1>4 DEF FreshIds

LEMMA ReplierBegins ==
    ASSUME IInv, FreshIds, NEW c \in Consumers, NEW y, NEW m \in Messages, y.sent = m,
           m \notin used, used' = used \cup {m}, consuming' = [consuming EXCEPT ![c] = y],
           sending' = sending, \A x \in Messages : Added(x)' => Added(x)
    PROVE  FreshIds'
<1>1. \A d \in Consumers : consuming'[d] = IF d = c THEN y ELSE consuming[d]
  BY DEF IInv, CallsOK
<1>2. \A x \in Messages : WillAdd(y, x) => x = m
  BY DEF WillAdd
<1>3. ~Added(m) /\ \A t \in Senders : ~WillAdd(sending[t], m)
  BY DEF FreshIds
<1>4. \A d \in Consumers : ~WillAdd(consuming[d], m)
  BY DEF FreshIds
<1>5. QED
  BY <1>1, <1>2, <1>3, <1>4 DEF FreshIds

(* One command of enqueue, for the one call that had the message to add.   *)
LEMMA EnqueuedComesOf ==
    ASSUME NEW x, NEW then, NEW y, y = Enqueued(x, then), ~ToAdd(then),
           x \in Sending \cup Answering, x.at \in {"register", "xadd", "meta"}
    PROVE  ComesOf(y, x) /\ (x.at = "xadd" => ~ToAdd(y))
<1>1. CASE x.at = "register"
  <2>1. y = [x EXCEPT !.at = "xadd"]
    BY <1>1 DEF Enqueued
  <2>2. y.at = "xadd" /\ y.sent = x.sent
    BY <2>1 DEF Sending, Answering
  <2>3. QED
    BY <1>1, <2>2 DEF ComesOf, WillAdd, ToAdd
<1>2. CASE x.at = "xadd"
  <2>1. PICK n : n = Len(streams[QueueOf(x.sent)]) + 1
    OBVIOUS
  <2>2. y = [x EXCEPT !.at = "meta", !.entry = n]
    BY <1>2, <2>1 DEF Enqueued
  <2>3. y.at = "meta"
    BY <2>2 DEF Sending, Answering
  <2>4. QED
    BY <2>3 DEF ComesOf, WillAdd, ToAdd
<1>3. CASE x.at = "meta"
  BY <1>3 DEF Enqueued, ComesOf, WillAdd
<1>4. QED
  BY <1>1, <1>2, <1>3

(* What an enqueue adds.                                                   *)
LEMMA EnqueueAdds ==
    ASSUME IInv, setting' = setting, NEW x, x.sent \in Messages, Enqueue(x),
           UNCHANGED <<delivered, pending, dlq, done, replayed>>
    PROVE  \A m \in Messages : Added(m)' => Added(m) \/ (x.at = "xadd" /\ m = x.sent)
<1>1. CASE streams' = streams
  BY <1>1, SameAdded
<1>2. CASE x.at = "xadd" /\ XAdd(QueueOf(x.sent), x.sent, 0)
  <2>1. PICK q \in Queues : q = QueueOf(x.sent)
    BY SettingTyped DEF IInv
  <2>2. PICK last : last = Len(streams[q]) + 1
    OBVIOUS
  <2>3. \A m \in Messages : Added(m)' => Added(m) \/ m = x.sent
    BY <1>2, <2>1, <2>2, GrowInbox DEF IInv
  <2>4. QED
    BY <1>2, <2>3
<1>3. QED
  BY <1>1, <1>2 DEF Enqueue

LEMMA SendIds ==
    ASSUME IInv, FreshIds, setting' = setting, NEW s \in Senders, Send(s)
    PROVE  FreshIds'
<1>1. PICK x : x = sending[s]
  OBVIOUS
<1>2. PICK then : then = IF x.letter = 0 THEN Idle ELSE [x EXCEPT !.at = "xdel"]
  OBVIOUS
<1>3. PICK y : y = Enqueued(x, then)
  OBVIOUS
<1>4. /\ x # Idle /\ Enqueue(x) /\ sending' = [sending EXCEPT ![s] = y]
      /\ UNCHANGED <<delivered, pending, dlq, consuming, used, done, replayed>>
  BY <1>1, <1>2, <1>3 DEF Send, history
<1>5. x \in Sending /\ x.sent \in Messages /\ x.at \in {"register", "xadd", "meta"}
  BY <1>1, <1>4 DEF IInv, CallsOK, Sending, Enqueue
<1>6. then.at \notin {"register", "xadd"}
  BY <1>2, <1>5 DEF Idle, Sending
<1>7. ComesOf(y, x) /\ (x.at = "xadd" => ~ToAdd(y))
  BY <1>3, <1>5, <1>6, EnqueuedComesOf DEF ToAdd
<1>8. \A m \in Messages : Added(m)' => Added(m) \/ (x.at = "xadd" /\ m = x.sent)
  BY <1>4, <1>5, EnqueueAdds
<1>9. \A t \in Senders : sending'[t] = IF t = s THEN y ELSE sending[t]
  BY <1>4 DEF IInv, CallsOK
<1>10. CASE x.at # "xadd"
  <2>1. \A t \in Senders : ComesOf(sending'[t], sending[t])
    BY <1>1, <1>7, <1>9 DEF ComesOf
  <2>2. QED
    BY <1>4, <1>8, <1>10, <2>1, IdsGoOn DEF SendersGoOn, ConsumersGoOn, ComesOf
<1>11. CASE x.at = "xadd"
  <2>1. WillAdd(sending[s], x.sent) /\ \A m \in Messages : ~WillAdd(y, m)
    BY <1>1, <1>7, <1>11 DEF WillAdd, ToAdd
  <2>2. /\ x.sent \in used /\ \A c \in Consumers : ~WillAdd(consuming[c], x.sent)
        /\ \A t \in Senders : WillAdd(sending[t], x.sent) => s = t
    BY <1>5, <2>1 DEF FreshIds
  <2>3. \A m \in Messages : Added(m)' => Added(m) \/ m = x.sent
    BY <1>8
  <2>4. QED
    BY <1>4, <1>9, <2>1, <2>2, <2>3 DEF FreshIds
<1>12. QED
  BY <1>10, <1>11

LEMMA ReplyIds ==
    ASSUME IInv, FreshIds, setting' = setting, NEW c \in Consumers, ReplyEnqueue(c)
    PROVE  FreshIds'
<1>1. PICK x : x = consuming[c]
  OBVIOUS
<1>2. PICK then : then = [x EXCEPT !.at = "getmeta"]
  OBVIOUS
<1>3. PICK y : y = Enqueued(x, then)
  OBVIOUS
<1>4. /\ x.at \in {"register", "xadd", "meta"} /\ Enqueue(x)
      /\ consuming' = [consuming EXCEPT ![c] = y]
      /\ UNCHANGED <<delivered, pending, dlq, sending, used, done, replayed>>
  BY <1>1, <1>2, <1>3 DEF ReplyEnqueue, history
<1>5. x \in Answering /\ x.sent \in Messages
  <2>1. GoodAnswer(x) /\ x \in Answering /\ (x.sent # NoMessage => x.sent \in Messages)
    BY <1>1, <1>4, AnswerAtHand
  <2>2. QED
    BY <1>4, <2>1 DEF GoodAnswer
<1>6. then.at = "getmeta"
  BY <1>2, <1>5 DEF Answering
<1>7. ComesOf(y, x) /\ (x.at = "xadd" => ~ToAdd(y))
  BY <1>3, <1>4, <1>5, <1>6, EnqueuedComesOf DEF ToAdd
<1>8. \A m \in Messages : Added(m)' => Added(m) \/ (x.at = "xadd" /\ m = x.sent)
  BY <1>4, <1>5, EnqueueAdds
<1>9. \A d \in Consumers : consuming'[d] = IF d = c THEN y ELSE consuming[d]
  BY <1>4 DEF IInv, CallsOK
<1>10. CASE x.at # "xadd"
  <2>1. \A d \in Consumers : ComesOf(consuming'[d], consuming[d])
    BY <1>1, <1>7, <1>9 DEF ComesOf
  <2>2. QED
    BY <1>4, <1>8, <1>10, <2>1, IdsGoOn DEF SendersGoOn, ConsumersGoOn, ComesOf
<1>11. CASE x.at = "xadd"
  <2>1. WillAdd(consuming[c], x.sent) /\ \A m \in Messages : ~WillAdd(y, m)
    BY <1>1, <1>7, <1>11 DEF WillAdd, ToAdd
  <2>2. /\ x.sent \in used /\ \A t \in Senders : ~WillAdd(sending[t], x.sent)
        /\ \A d \in Consumers : WillAdd(consuming[d], x.sent) => c = d
    BY <1>5, <2>1 DEF FreshIds
  <2>3. \A m \in Messages : Added(m)' => Added(m) \/ m = x.sent
    BY <1>8
  <2>4. QED
    BY <1>4, <1>9, <2>1, <2>2, <2>3 DEF FreshIds
<1>12. QED
  BY <1>10, <1>11

(* An id is given to one call, which adds its message at most once.        *)
LEMMA StepIds ==
    ASSUME IInv, FreshIds, [Next]_vars
    PROVE  FreshIds'
<1>1. ASSUME setting' = setting, streams' = streams, used' = used, SendersGoOn, ConsumersGoOn
      PROVE  FreshIds'
  BY <1>1, SameAdded, IdsGoOn
<1>2. sending' = sending => SendersGoOn
  BY DEF SendersGoOn, ComesOf
<1>3. consuming' = consuming => ConsumersGoOn
  BY DEF ConsumersGoOn, ComesOf
<1>4. ASSUME NEW s \in Senders, NEW y, sending' = [sending EXCEPT ![s] = y], ~ToAdd(y)
      PROVE  SendersGoOn
  <2>1. \A t \in Senders : sending'[t] = IF t = s THEN y ELSE sending[t]
    BY <1>4 DEF IInv, CallsOK
  <2>2. QED
    BY <1>4, <2>1 DEF SendersGoOn, ComesOf, WillAdd
<1>5. ASSUME NEW c \in Consumers, NEW y, consuming' = [consuming EXCEPT ![c] = y], ~ToAdd(y)
      PROVE  ConsumersGoOn
  <2>1. \A d \in Consumers : consuming'[d] = IF d = c THEN y ELSE consuming[d]
    BY <1>5 DEF IInv, CallsOK
  <2>2. QED
    BY <1>5, <2>1 DEF ConsumersGoOn, ComesOf, WillAdd
<1>6. ~ToAdd(Idle)
  BY DEF ToAdd, Idle
<1>7. CASE UNCHANGED vars
  BY <1>1, <1>2, <1>3, <1>7 DEF vars, inbox, calls
<1>8. CASE Next
  <2>1. setting' = setting /\ Step
    BY <1>8 DEF Next
  <2>2. ASSUME NEW s \in Senders, NEW m \in Messages, Dispatch(s, m) \/ ReplayStart(s, m)
        PROVE  FreshIds'
    <3>1. PICK y : /\ y.sent = m /\ sending' = [sending EXCEPT ![s] = y]
                   /\ m \notin used /\ used' = used \cup {m}
                   /\ consuming' = consuming /\ streams' = streams
      BY <2>2 DEF Dispatch, ReplayStart, inbox
    <3>2. QED
      BY <2>1, <3>1, SameAdded, SenderBegins
  <2>3. ASSUME NEW c \in Consumers, NEW m \in Messages, NEW r \in Messages, ReplyStart(c, m, r)
        PROVE  FreshIds'
    <3>1. PICK y : /\ y.sent = r /\ consuming' = [consuming EXCEPT ![c] = y]
                   /\ r \notin used /\ used' = used \cup {r}
                   /\ sending' = sending /\ streams' = streams
      BY <2>3 DEF ReplyStart, inbox
    <3>2. QED
      BY <2>1, <3>1, SameAdded, ReplierBegins
  <2>4. ASSUME NEW c \in Consumers, NEW m \in Messages, AckStart(c, m)
        PROVE  FreshIds'
    <3>1. PICK y : /\ y.at = "getmeta" /\ consuming' = [consuming EXCEPT ![c] = y]
                   /\ used' = used /\ sending' = sending /\ streams' = streams
      BY <2>4 DEF AckStart, inbox
    <3>2. ~ToAdd(y)
      BY <3>1 DEF ToAdd
    <3>3. QED
      BY <1>1, <1>2, <1>5, <2>1, <3>1, <3>2
  <2>5. ASSUME NEW s \in Senders, ReplayEnd(s)
        PROVE  FreshIds'
    BY <1>1, <1>3, <1>4, <1>6, <2>1, <2>5 DEF ReplayEnd, inbox
  <2>6. ASSUME NEW c \in Consumers, ConsumerStep(c), ~ReplyEnqueue(c)
        PROVE  FreshIds'
    <3>1. /\ used' = used /\ sending' = sending /\ streams' = streams
      BY <2>6 DEF ConsumerStep, ClaimStart, ClaimRead, ClaimMeta, ClaimReturn, AckGetMeta,
                  AckXAck, AckMeta, RecordReply, inbox
    <3>2. PICK x : x = consuming[c]
      OBVIOUS
    <3>3. \E y : consuming' = [consuming EXCEPT ![c] = y] /\ y.at \notin {"register", "xadd"}
      <4>1. CASE ClaimStart(c)
        <5>1. PICK before : before = {e \in Queues \X (1 .. MaxEntries) :
                 e[1][1] = setting.claimFor /\ e[2] \in Waiting(e[1])}
          OBVIOUS
        <5>2. PICK y : y = [at |-> "claim", priority |-> TopPriority, todo |-> {},
                            room |-> setting.claimCount, got |-> {}, before |-> before]
          OBVIOUS
        <5>3. consuming' = [consuming EXCEPT ![c] = y]
          BY <4>1, <5>1, <5>2 DEF ClaimStart
        <5>4. y.at = "claim"
          BY <5>2
        <5>5. QED
          BY <5>3, <5>4
      <4>2. CASE ClaimReturn(c) \/ RecordReply(c)
        BY <4>2 DEF ClaimReturn, RecordReply, Idle
      <4>3. CASE ClaimRead(c) \/ ClaimMeta(c)
        <5>1. x \in Claiming
          BY <3>2, <4>3, ClaimAtHand DEF ClaimRead, ClaimMeta
        <5>2. ASSUME ClaimRead(c)
              PROVE  \E y : consuming' = [consuming EXCEPT ![c] = y] /\ y.at = "claim"
          <6>1. PICK entries : entries = Read(<<setting.claimFor, x.priority>>, x.room)
            OBVIOUS
          <6>2. PICK y : y = IF entries = {} THEN [x EXCEPT !.priority = x.priority - 1]
                             ELSE [x EXCEPT !.todo = entries]
            OBVIOUS
          <6>3. consuming' = [consuming EXCEPT ![c] = y]
            BY <3>2, <5>2, <6>1, <6>2 DEF ClaimRead
          <6>4. y.at = "claim"
            BY <5>1, <6>2 DEF Claiming
          <6>5. QED
            BY <6>3, <6>4
        <5>3. ASSUME ClaimMeta(c)
              PROVE  \E y : consuming' = [consuming EXCEPT ![c] = y] /\ y.at = "claim"
          <6>1. PICK i : i = First(x.todo)
            OBVIOUS
          <6>2. PICK m : m = streams[<<setting.claimFor, x.priority>>][i].message
            OBVIOUS
          <6>3. PICK y : y = [x EXCEPT !.todo = x.todo \ {i}, !.got = x.got \cup {m},
                                       !.room = x.room - 1,
                                       !.priority = IF x.todo = {i} THEN x.priority - 1
                                                    ELSE x.priority]
            OBVIOUS
          <6>4. consuming' = [consuming EXCEPT ![c] = y]
            BY <3>2, <5>3, <6>1, <6>2, <6>3 DEF ClaimMeta
          <6>5. y.at = "claim"
            BY <5>1, <6>3 DEF Claiming
          <6>6. QED
            BY <6>4, <6>5
        <5>4. QED
          BY <4>3, <5>2, <5>3
      <4>4. CASE AckGetMeta(c) \/ AckXAck(c) \/ AckMeta(c)
        <5>1. x.at \in {"getmeta", "xack", "ackmeta"}
          BY <3>2, <4>4 DEF AckGetMeta, AckXAck, AckMeta
        <5>2. x \in Answering
          BY <3>2, <5>1, AnswerAtHand
        <5>3. Answered(x).at \notin {"register", "xadd"}
          BY <5>2 DEF Answered, Answering, Idle
        <5>4. PICK y : y \in {Answered(x), [x EXCEPT !.at = "ackmeta"],
                              [x EXCEPT !.at = "xack", !.entry = meta[x.message].entry]}
                       /\ consuming' = [consuming EXCEPT ![c] = y]
          <6>1. CASE AckGetMeta(c)
            BY <3>2, <6>1 DEF AckGetMeta
          <6>2. CASE AckXAck(c)
            BY <3>2, <6>2 DEF AckXAck
          <6>3. CASE AckMeta(c)
            BY <3>2, <6>3 DEF AckMeta
          <6>4. QED
            BY <4>4, <6>1, <6>2, <6>3
        <5>5. y.at \notin {"register", "xadd"}
          BY <5>2, <5>3, <5>4 DEF Answering
        <5>6. QED
          BY <5>4, <5>5
      <4>5. QED
        BY <2>6, <4>1, <4>2, <4>3, <4>4 DEF ConsumerStep
    <3>4. ConsumersGoOn
      BY <1>5, <3>3 DEF ToAdd
    <3>5. QED
      BY <1>1, <1>2, <2>1, <3>1, <3>4
  <2>7. ASSUME NEW s \in Sweepers, SweepRetry(s)
        PROVE  FreshIds'
    <3>1. PICK x : x = sweeping[s]
      OBVIOUS
    <3>2. PICK m : m = AtHand(x).message
      OBVIOUS
    <3>3. /\ x.at = "entry" /\ XAdd(x.queue, m, NextAttempt(x))
          /\ UNCHANGED <<delivered, pending, dlq, sending, consuming, used, done, replayed>>
      BY <2>7, <3>1, <3>2 DEF SweepRetry, history
    <3>4. /\ x.queue \in Queues /\ m \in Messages /\ QueueOf(m) = x.queue /\ Added(m)
          /\ NextAttempt(x) \in Nat
      BY <3>1, <3>2, <3>3, SweepAtHand DEF NextAttempt
    <3>5. PICK last : last = Len(streams[x.queue]) + 1
      OBVIOUS
    <3>6. \A n \in Messages : Added(n)' => Added(n) \/ n = m
      BY <2>1, <3>3, <3>4, <3>5, GrowInbox DEF IInv
    <3>7. QED
      BY <1>2, <1>3, <3>3, <3>4, <3>6, IdsGoOn
  <2>8. ASSUME NEW s \in Sweepers, SweeperStep(s), ~SweepRetry(s)
        PROVE  FreshIds'
    <3>1. UNCHANGED <<streams, used, sending, consuming>>
      BY <2>8 DEF SweeperStep, SweepStart, SweepXAck, SweepMeta, SweepBury, SweepGetMeta,
                  SweepDeadMeta, inbox
    <3>2. QED
      BY <1>1, <1>2, <1>3, <2>1, <3>1
  <2>9. CASE Fault
    <3>1. streams' = streams /\ used' = used
      BY <2>9 DEF Fault, inbox
    <3>2. SendersGoOn /\ ConsumersGoOn
      BY <1>2, <1>3, <1>4, <1>5, <1>6, <2>9
         DEF Fault, CrashSender, CrashConsumer, CrashSweeper, ExpireMeta, calls
    <3>3. QED
      BY <1>1, <2>1, <3>1, <3>2
  <2>10. QED
    BY <2>1, <2>2, <2>3, <2>4, <2>5, <2>6, <2>7, <2>8, <2>9, SendIds, ReplyIds
       DEF Step, ConsumerStep
<1>9. QED
  BY <1>7, <1>8

(* The group only moves on: what becomes pending was not delivered before. *)
InboxMovesOn ==
    /\ \A q \in Queues : delivered[q] \in Nat /\ delivered'[q] \in Nat /\ delivered[q] <= delivered'[q]
    /\ \A q \in Queues : \A i \in pending'[q] : i \in pending[q] \/ i > delivered[q]

LEMMA StillInbox ==
    ASSUME IInv, delivered' = delivered, \A q \in Queues : pending'[q] \subseteq pending[q]
    PROVE  InboxMovesOn
BY DEF IInv, InboxOK, InboxMovesOn

LEMMA ClaimMovesOn ==
    ASSUME IInv, setting' = setting, NEW c \in Consumers, ClaimRead(c)
    PROVE  InboxMovesOn
<1>1. PICK x : x = consuming[c]
  OBVIOUS
<1>2. PICK q : q = <<setting.claimFor, x.priority>>
  OBVIOUS
<1>3. PICK entries : entries = Read(q, x.room)
  OBVIOUS
<1>4. PICK position : position = Position(q, entries)
  OBVIOUS
<1>5. /\ x.at = "claim" /\ x.priority > 0 /\ x.room > 0
      /\ pending' = [pending EXCEPT ![q] = @ \cup entries]
      /\ delivered' = [delivered EXCEPT ![q] = position]
  BY <1>1, <1>2, <1>3, <1>4 DEF ClaimRead
<1>6. x.priority \in 0 .. TopPriority /\ x.room \in Nat
  BY <1>1, <1>5, ClaimAtHand
<1>7. x.priority \in Priorities /\ x.room \in Nat \ {0}
  BY <1>5, <1>6, BusConstants DEF Priorities
<1>8. InboxOK /\ q \in Queues
  BY <1>2, <1>7, SettingTyped DEF IInv
<1>9. /\ entries \in SUBSET Waiting(q)
      /\ entries # {} => position \in entries
  BY <1>3, <1>4, <1>7, <1>8, ReadFacts
<1>10. /\ Waiting(q) \in SUBSET Nat /\ \A i \in Waiting(q) : i > delivered[q]
       /\ \A p \in Queues : delivered[p] \in Nat
  BY <1>8, StreamTyped DEF Waiting, InboxOK
<1>11. position \in Nat /\ delivered[q] <= position
  BY <1>4, <1>8, <1>9, <1>10 DEF Position
<1>12. \A p \in Queues : /\ delivered'[p] = IF p = q THEN position ELSE delivered[p]
                         /\ pending'[p] = IF p = q THEN pending[q] \cup entries ELSE pending[p]
  BY <1>5, <1>8 DEF InboxOK
<1>13. \A p \in Queues : \A i \in pending'[p] : i \in pending[p] \/ i > delivered[p]
  BY <1>9, <1>10, <1>12
<1>14. QED
  BY <1>10, <1>11, <1>12, <1>13 DEF InboxMovesOn

(* Sweep y comes of x: it decides on what x had left to decide on.         *)
SweepOf(y, x) ==
    y # Idle => /\ x # Idle /\ y.queue = x.queue /\ y.todo \subseteq x.todo
                /\ Undecided(y) \subseteq Undecided(x)
SweepsGoOn == \A s \in Sweepers : SweepOf(sweeping'[s], sweeping[s])

LEMMA SweptIsOf ==
    ASSUME NEW x \in Sweeping, x # Idle, NEW y, y = Swept(x)
    PROVE  /\ SweepOf(y, x) /\ y.at # "xack"
<1>1. PICK rest : rest = x.todo \ {x.entry}
  OBVIOUS
<1>2. CASE rest = {}
  <2>1. y = Idle /\ y.at = "idle"
    BY <1>1, <1>2 DEF Swept, Idle
  <2>2. QED
    BY <2>1 DEF SweepOf
<1>3. CASE rest # {}
  <2>1. PICK i : i = First(rest)
    OBVIOUS
  <2>2. y = [x EXCEPT !.at = "entry", !.todo = rest, !.entry = i, !.copy = 0]
    BY <1>1, <1>3, <2>1 DEF Swept
  <2>3. y.at = "entry" /\ y.queue = x.queue /\ y.todo = rest
    BY <2>2 DEF Sweeping
  <2>4. Undecided(y) = rest /\ rest \subseteq Undecided(x) /\ rest \subseteq x.todo
    BY <1>1, <2>3 DEF Undecided
  <2>5. QED
    BY <2>3, <2>4 DEF SweepOf
<1>4. QED
  BY <1>2, <1>3

LEMMA SweepsGoOnOK ==
    ASSUME IInv, SweepsOK, setting' = setting, SweepsGoOn, InboxMovesOn
    PROVE  SweepsOK'
<1>1. ASSUME NEW s \in Sweepers, sweeping'[s] # Idle
      PROVE  /\ s \in setting'.sweepers
             /\ \A i \in sweeping'[s].todo : i <= delivered'[sweeping'[s].queue]
  <2>1. PICK x : x = sweeping[s]
    OBVIOUS
  <2>2. PICK y : y = sweeping'[s]
    OBVIOUS
  <2>3. x # Idle /\ y.queue = x.queue /\ y.todo \subseteq x.todo
    BY <1>1, <2>1, <2>2 DEF SweepsGoOn, SweepOf
  <2>4. s \in setting.sweepers /\ \A i \in x.todo : i <= delivered[x.queue]
    BY <2>1, <2>3 DEF SweepsOK
  <2>5. x.queue \in Queues /\ x.todo \in SUBSET Nat
    BY <2>1, <2>3 DEF IInv, CallsOK, Sweeping
  <2>6. /\ delivered[x.queue] \in Nat /\ delivered'[x.queue] \in Nat
        /\ delivered[x.queue] <= delivered'[x.queue]
    BY <2>5 DEF InboxMovesOn
  <2>7. \A i \in y.todo : i <= delivered'[x.queue]
    BY <2>3, <2>4, <2>5, <2>6
  <2>8. QED
    BY <2>2, <2>3, <2>4, <2>7
<1>2. QED
  BY <1>1 DEF SweepsOK

(* What a step does that adds no entry, buries nothing and starts no sweep. *)
StillCopied ==
    \A q \in Queues : \A i \in pending'[q] :
        i \in pending[q] /\ Copied(q, i) => Copied(q, i)'

LEMMA BudgetStays ==
    ASSUME IInv, Budgeted, setting' = setting, streams' = streams, dlq' \subseteq dlq,
           SweepsGoOn, InboxMovesOn, StillCopied
    PROVE  Budgeted'
<1>1. CopiesCount' /\ OneLetter'
  BY DEF Budgeted, CopiesCount, SameMessage, OneLetter
<1>2. ASSUME NEW q \in Queues, NEW i, InSweep(q, i)'
      PROVE  InSweep(q, i)
  <2>1. PICK s \in Sweepers :
           sweeping'[s] # Idle /\ sweeping'[s].queue = q /\ i \in Undecided(sweeping[s])'
    BY <1>2 DEF InSweep
  <2>2. PICK y : y = sweeping'[s]
    OBVIOUS
  <2>3. i \in Undecided(y)
    BY <2>1, <2>2 DEF Undecided
  <2>4. QED
    BY <2>1, <2>2, <2>3 DEF SweepsGoOn, SweepOf, InSweep
<1>3. ASSUME NEW q \in Queues, NEW i \in DOMAIN streams[q], Over(q, i)'
      PROVE  i <= delivered'[q] /\ ~InSweep(q, i)' /\ (i \in pending'[q] => Copied(q, i)')
  <2>1. Over(q, i)
    BY <1>3 DEF Over, SameMessage, InDlq
  <2>2. i <= delivered[q] /\ ~InSweep(q, i) /\ (i \in pending[q] => Copied(q, i))
    BY <2>1 DEF Budgeted, OverIsDone
  <2>3. delivered[q] \in Nat /\ delivered'[q] \in Nat /\ delivered[q] <= delivered'[q]
    BY DEF InboxMovesOn
  <2>4. i \in Nat
    BY StreamTyped DEF IInv
  <2>5. i \in pending'[q] => i \in pending[q]
    BY <2>2, <2>3, <2>4 DEF InboxMovesOn
  <2>6. QED
    BY <1>2, <2>2, <2>3, <2>4, <2>5 DEF StillCopied
<1>4. OverIsDone'
  BY <1>3 DEF OverIsDone
<1>5. QED
  BY <1>1, <1>4 DEF Budgeted

(* XADD, entry by entry.                                                   *)
LEMMA XAddEntries ==
    ASSUME InboxOK, NEW q \in Queues, NEW m \in Messages, NEW n \in Nat, XAdd(q, m, n),
           NEW last, last = Len(streams[q]) + 1
    PROVE  /\ last \in Nat /\ \A i \in DOMAIN streams[q] : i < last
           /\ last \notin DOMAIN streams[q]
           /\ DOMAIN (streams'[q]) = DOMAIN streams[q] \cup {last}
           /\ \A i \in DOMAIN streams[q] : streams'[q][i] = streams[q][i]
           /\ streams'[q][last].message = m /\ streams'[q][last].retryCount = n
           /\ \A p \in Queues : p # q => streams'[p] = streams[p]
<1>1. PICK entry : entry = [message |-> m, retryCount |-> n]
  OBVIOUS
<1>2. streams' = [streams EXCEPT ![q] = Append(streams[q], entry)]
  BY <1>1 DEF XAdd
<1>3. /\ streams[q] \in Seq(StreamEntry) /\ Len(streams[q]) \in Nat
      /\ DOMAIN streams[q] = 1 .. Len(streams[q])
  BY StreamTyped
<1>4. entry \in StreamEntry /\ entry.message = m /\ entry.retryCount = n
  BY <1>1 DEF StreamEntry
<1>5. streams'[q] = Append(streams[q], entry) /\ \A p \in Queues : p # q => streams'[p] = streams[p]
  BY <1>2 DEF InboxOK
<1>6. /\ DOMAIN (streams'[q]) = 1 .. last
      /\ \A i \in 1 .. Len(streams[q]) : streams'[q][i] = streams[q][i]
      /\ streams'[q][last] = entry
  BY <1>3, <1>4, <1>5
<1>7. 1 .. last = (1 .. Len(streams[q])) \cup {last} /\ last \notin 1 .. Len(streams[q])
  BY <1>3
<1>8. QED
  BY <1>3, <1>4, <1>5, <1>6, <1>7

LEMMA CountsGrow ==
    ASSUME IInv, CopiesCount, setting' = setting, NEW q \in Queues, NEW m \in Messages,
           NEW n \in Nat, XAdd(q, m, n), n <= setting.maxRetries,
           \A i \in DOMAIN streams[q] : streams[q][i].message = m => streams[q][i].retryCount < n
    PROVE  CopiesCount'
<1>1. PICK last : last = Len(streams[q]) + 1
  OBVIOUS
<1>2. /\ last \in Nat /\ \A i \in DOMAIN streams[q] : i < last
      /\ last \notin DOMAIN streams[q]
      /\ DOMAIN (streams'[q]) = DOMAIN streams[q] \cup {last}
      /\ \A i \in DOMAIN streams[q] : streams'[q][i] = streams[q][i]
      /\ streams'[q][last].message = m /\ streams'[q][last].retryCount = n
      /\ \A p \in Queues : p # q => streams'[p] = streams[p]
  BY <1>1, XAddEntries DEF IInv
<1>3. ASSUME NEW p \in Queues, NEW i \in DOMAIN (streams'[p])
      PROVE  streams'[p][i].retryCount <= setting.maxRetries
  BY <1>2, <1>3 DEF CopiesCount
<1>4. ASSUME NEW p \in Queues, NEW i \in DOMAIN (streams'[p]), NEW j \in DOMAIN (streams'[p]),
             i < j, streams'[p][i].message = streams'[p][j].message
      PROVE  streams'[p][i].retryCount < streams'[p][j].retryCount
  <2>1. CASE p # q
    BY <1>2, <1>4, <2>1 DEF CopiesCount, SameMessage
  <2>2. CASE p = q /\ j # last
    <3>1. DOMAIN streams[q] \in SUBSET Nat
      BY StreamTyped DEF IInv
    <3>2. i \in DOMAIN streams[q] /\ j \in DOMAIN streams[q]
      BY <1>2, <1>4, <2>2, <3>1
    <3>3. QED
      BY <1>2, <1>4, <2>2, <3>2 DEF CopiesCount, SameMessage
  <2>3. CASE p = q /\ j = last
    <3>1. i \in DOMAIN streams[q]
      BY <1>2, <1>4, <2>3
    <3>2. QED
      BY <1>2, <1>4, <2>3, <3>1
  <2>4. QED
    BY <2>1, <2>2, <2>3
<1>5. QED
  BY <1>3, <1>4 DEF CopiesCount, SameMessage

(* Which entries are over after an XADD: those of the message it adds, and *)
(* those that were.                                                        *)
LEMMA OverAfter ==
    ASSUME IInv, NEW q \in Queues, NEW m \in Messages, NEW n \in Nat, XAdd(q, m, n),
           dlq' = dlq, ~InDlq(m), NEW p \in Queues, NEW i \in DOMAIN (streams'[p]), Over(p, i)'
    PROVE  /\ i \in DOMAIN streams[p]
           /\ Over(p, i) \/ (p = q /\ streams[q][i].message = m)
<1>1. PICK last : last = Len(streams[q]) + 1
  OBVIOUS
<1>2. /\ last \in Nat /\ \A k \in DOMAIN streams[q] : k < last
      /\ last \notin DOMAIN streams[q]
      /\ DOMAIN (streams'[q]) = DOMAIN streams[q] \cup {last}
      /\ \A k \in DOMAIN streams[q] : streams'[q][k] = streams[q][k]
      /\ streams'[q][last].message = m
      /\ \A r \in Queues : r # q => streams'[r] = streams[r]
  BY <1>1, XAddEntries DEF IInv
<1>3. \/ \E j \in DOMAIN (streams'[p]) : i < j /\ streams'[p][i].message = streams'[p][j].message
      \/ \E d \in dlq : d.message = streams'[p][i].message
  BY DEF Over, SameMessage, InDlq
<1>4. CASE p # q
  BY <1>2, <1>3, <1>4 DEF Over, SameMessage, InDlq
<1>5. CASE p = q
  <2>1. \A j \in DOMAIN (streams'[p]) : ~(last < j)
    <3>1. DOMAIN streams[q] \in SUBSET Nat
      BY StreamTyped DEF IInv
    <3>2. QED
      BY <1>2, <1>5, <3>1
  <2>2. i # last
    BY <1>2, <1>3, <1>5, <2>1 DEF InDlq
  <2>3. i \in DOMAIN streams[q]
    BY <1>2, <1>5, <2>2
  <2>4. QED
    BY <1>2, <1>3, <1>5, <2>3 DEF Over, SameMessage, InDlq
<1>6. QED
  BY <1>4, <1>5

(* A message that enqueue adds has no entry yet.                           *)
LEMMA BudgetEnqueue ==
    ASSUME IInv, Budgeted, setting' = setting, NEW q \in Queues, NEW m \in Messages,
           q = QueueOf(m), XAdd(q, m, 0), ~Added(m),
           UNCHANGED <<delivered, pending, dlq, sweeping>>
    PROVE  Budgeted'
<1>1. \A i \in DOMAIN streams[q] : streams[q][i].message # m
  BY DEF Added, EntryOf
<1>2. ~InDlq(m)
  BY DEF IInv, WorkOK, IsSettled
<1>3. setting.maxRetries \in Nat
  BY SettingTyped DEF IInv
<1>4. CopiesCount'
  BY <1>1, <1>3, CountsGrow DEF Budgeted
<1>5. OneLetter'
  BY DEF Budgeted, OneLetter
<1>6. ASSUME NEW p \in Queues, NEW i \in DOMAIN (streams'[p]), Over(p, i)'
      PROVE  i <= delivered[p] /\ ~InSweep(p, i)' /\ (i \in pending[p] => Copied(p, i)')
  <2>1. i \in DOMAIN streams[p] /\ Over(p, i)
    BY <1>1, <1>2, <1>6, OverAfter
  <2>2. (InSweep(p, i)' <=> InSweep(p, i)) /\ (Copied(p, i)' <=> Copied(p, i))
    BY DEF InSweep, Undecided, Copied
  <2>3. QED
    BY <2>1, <2>2 DEF Budgeted, OverIsDone
<1>7. OverIsDone'
  BY <1>6 DEF OverIsDone
<1>8. QED
  BY <1>4, <1>5, <1>7 DEF Budgeted

(* The sweep that decides on an entry, when it is the only one.            *)
LEMMA OnlySweep ==
    ASSUME IInv, SweepsOK, Alone, Budgeted, NEW s \in Sweepers, NEW x, x = sweeping[s],
           x.at = "entry"
    PROVE  /\ \A t \in Sweepers : sweeping[t] # Idle => t = s
           /\ Undecided(x) = x.todo /\ x.entry <= delivered[x.queue]
           /\ ~Over(x.queue, x.entry)
           /\ \A q \in Queues : \A i : ~Copied(q, i) /\ (InSweep(q, i) <=> q = x.queue /\ i \in x.todo)
           /\ \A q \in Queues : \A i \in DOMAIN streams[q] :
                 Over(q, i) => i <= delivered[q] /\ ~InSweep(q, i) /\ i \notin pending[q]
           /\ \A i \in DOMAIN streams[x.queue] :
                 streams[x.queue][i].message = AtHand(x).message => i = x.entry \/ Over(x.queue, i)
<1>1. x # Idle /\ x.queue \in Queues /\ x.entry \in x.todo /\ x.entry \in DOMAIN streams[x.queue]
  BY SweepAtHand
<1>2. \A t \in Sweepers : sweeping[t] # Idle => t = s
  BY <1>1 DEF SweepsOK, Alone
<1>3. x.entry <= delivered[x.queue]
  BY <1>1 DEF SweepsOK
<1>4. Undecided(x) = x.todo
  BY DEF Undecided
<1>5. \A q \in Queues : \A i : InSweep(q, i) <=> q = x.queue /\ i \in x.todo
  BY <1>1, <1>2, <1>4 DEF InSweep
<1>6. \A q \in Queues : \A i : ~Copied(q, i)
  <2>1. \A t \in Sweepers : sweeping[t].at # "xack"
    BY <1>2 DEF Idle
  <2>2. QED
    BY <2>1 DEF Copied
<1>7. ~Over(x.queue, x.entry)
  BY <1>1, <1>5 DEF Budgeted, OverIsDone
<1>8. \A q \in Queues : \A i \in DOMAIN streams[q] :
         Over(q, i) => i <= delivered[q] /\ ~InSweep(q, i) /\ i \notin pending[q]
  BY <1>6 DEF Budgeted, OverIsDone
<1>9. ASSUME NEW i \in DOMAIN streams[x.queue],
             streams[x.queue][i].message = AtHand(x).message, i # x.entry
      PROVE  Over(x.queue, i)
  <2>1. i \in Nat /\ x.entry \in Nat
    BY <1>1, StreamTyped DEF IInv
  <2>2. ~(x.entry < i)
    BY <1>1, <1>7, <1>9 DEF Over, SameMessage, AtHand
  <2>3. i < x.entry
    BY <1>9, <2>1, <2>2
  <2>4. QED
    BY <1>1, <1>9, <2>3 DEF Over, SameMessage, AtHand
<1>10. QED
  BY <1>2, <1>3, <1>4, <1>5, <1>6, <1>7, <1>8, <1>9

LEMMA BudgetRetry ==
    ASSUME IInv, SweepsOK, Alone, Budgeted, setting' = setting, NEW s \in Sweepers, SweepRetry(s)
    PROVE  Budgeted'
<1>1. PICK x : x = sweeping[s]
  OBVIOUS
<1>2. PICK q : q = x.queue
  OBVIOUS
<1>3. PICK m : m = AtHand(x).message
  OBVIOUS
<1>4. PICK n : n = NextAttempt(x)
  OBVIOUS
<1>5. PICK last : last = Len(streams[q]) + 1
  OBVIOUS
<1>6. PICK y : y = [x EXCEPT !.at = "xack", !.copy = last]
  OBVIOUS
<1>7. /\ x.at = "entry" /\ n <= setting.maxRetries /\ XAdd(q, m, n)
      /\ sweeping' = [sweeping EXCEPT ![s] = y]
      /\ UNCHANGED <<delivered, pending, dlq>>
  BY <1>1, <1>2, <1>3, <1>4, <1>5, <1>6 DEF SweepRetry
<1>8. /\ x \in Sweeping /\ x # Idle /\ q \in Queues /\ m \in Messages
      /\ x.entry \in x.todo /\ x.entry \in DOMAIN streams[q] /\ n \in Nat
      /\ AtHand(x).retryCount \in Nat
  BY <1>1, <1>2, <1>3, <1>4, <1>7, SweepAtHand DEF NextAttempt
<1>9. /\ \A t \in Sweepers : sweeping[t] # Idle => t = s
      /\ x.entry <= delivered[q] /\ ~Over(q, x.entry)
      /\ \A p \in Queues : \A i : InSweep(p, i) <=> p = q /\ i \in x.todo
      /\ \A p \in Queues : \A i \in DOMAIN streams[p] :
            Over(p, i) => i <= delivered[p] /\ ~InSweep(p, i) /\ i \notin pending[p]
      /\ \A i \in DOMAIN streams[q] : streams[q][i].message = m => i = x.entry \/ Over(q, i)
  BY <1>1, <1>2, <1>3, <1>7, OnlySweep
<1>10. y.at = "xack" /\ y.queue = q /\ y.todo = x.todo /\ y.entry = x.entry /\ y # Idle
  BY <1>2, <1>6, <1>8 DEF Sweeping, Idle
<1>11. \A t \in Sweepers : sweeping'[t] = IF t = s THEN y ELSE Idle
  BY <1>7, <1>9 DEF IInv, CallsOK
<1>12. /\ \A p \in Queues : \A i : InSweep(p, i)' => p = q /\ i \in x.todo /\ i # x.entry
       /\ Copied(q, x.entry)'
  <2>1. Undecided(y) = x.todo \ {x.entry}
    BY <1>10 DEF Undecided
  <2>2. \A t \in Sweepers : Undecided(sweeping[t])' = Undecided(sweeping'[t])
    BY DEF Undecided
  <2>3. \A p \in Queues : \A i : InSweep(p, i)' =>
           \E t \in Sweepers : sweeping'[t] # Idle /\ sweeping'[t].queue = p /\ i \in Undecided(sweeping'[t])
    BY <2>2 DEF InSweep, Idle
  <2>4. QED
    BY <1>10, <1>11, <2>1, <2>3 DEF Copied
<1>13. ~InDlq(m)
  BY <1>2, <1>3, <1>9 DEF Over, AtHand
<1>14. CopiesCount'
  <2>1. ASSUME NEW i \in DOMAIN streams[q], streams[q][i].message = m
        PROVE  streams[q][i].retryCount < n
    <3>1. ~(x.entry < i)
      BY <1>2, <1>3, <1>8, <1>9, <2>1 DEF Over, SameMessage, AtHand
    <3>2. i \in Nat /\ x.entry \in Nat /\ streams[q][i].retryCount \in Nat
      BY <1>8, StreamTyped DEF IInv
    <3>3. streams[q][i].retryCount <= streams[q][x.entry].retryCount
      BY <1>2, <1>3, <1>8, <2>1, <3>1, <3>2 DEF Budgeted, CopiesCount, SameMessage, AtHand
    <3>4. n = streams[q][x.entry].retryCount + 1 /\ streams[q][x.entry].retryCount \in Nat
      BY <1>2, <1>4, <1>8 DEF NextAttempt, AtHand
    <3>5. QED
      BY <3>2, <3>3, <3>4
  <2>2. QED
    BY <1>7, <1>8, <2>1, CountsGrow DEF Budgeted
<1>15. OneLetter'
  BY <1>7 DEF Budgeted, OneLetter
<1>16. ASSUME NEW p \in Queues, NEW i \in DOMAIN (streams'[p]), Over(p, i)'
       PROVE  i <= delivered'[p] /\ ~InSweep(p, i)' /\ (i \in pending'[p] => Copied(p, i)')
  <2>1. /\ i \in DOMAIN streams[p]
        /\ Over(p, i) \/ (p = q /\ streams[q][i].message = m)
    BY <1>7, <1>8, <1>13, <1>16, OverAfter
  <2>2. Over(p, i) \/ (p = q /\ i = x.entry)
    BY <1>9, <2>1
  <2>3. CASE Over(p, i)
    BY <1>7, <1>9, <1>12, <2>1, <2>3
  <2>4. CASE p = q /\ i = x.entry
    BY <1>7, <1>9, <1>12, <2>4
  <2>5. QED
    BY <2>2, <2>3, <2>4
<1>17. OverIsDone'
  BY <1>16 DEF OverIsDone
<1>18. QED
  BY <1>14, <1>15, <1>17 DEF Budgeted

LEMMA BudgetBury ==
    ASSUME IInv, SweepsOK, Alone, Budgeted, setting' = setting, NEW s \in Sweepers, SweepBury(s)
    PROVE  Budgeted'
<1>1. PICK x : x = sweeping[s]
  OBVIOUS
<1>2. PICK q : q = x.queue
  OBVIOUS
<1>3. PICK m : m = AtHand(x).message
  OBVIOUS
<1>4. PICK letter : letter = [number |-> buried + 1, message |-> m]
  OBVIOUS
<1>5. PICK y : y = [x EXCEPT !.at = "getmeta"]
  OBVIOUS
<1>6. /\ x.at = "entry" /\ dlq' = dlq \cup {letter}
      /\ pending' = [pending EXCEPT ![q] = @ \ {x.entry}]
      /\ sweeping' = [sweeping EXCEPT ![s] = y] /\ UNCHANGED <<streams, delivered>>
  BY <1>1, <1>2, <1>3, <1>4, <1>5 DEF SweepBury, Bury, XAck
<1>7. /\ x \in Sweeping /\ x # Idle /\ q \in Queues /\ m \in Messages /\ letter.message = m
      /\ x.entry \in x.todo /\ x.entry \in DOMAIN streams[q] /\ QueueOf(m) = q
  BY <1>1, <1>2, <1>3, <1>4, <1>6, SweepAtHand
<1>8. /\ \A t \in Sweepers : sweeping[t] # Idle => t = s
      /\ x.entry <= delivered[q] /\ ~Over(q, x.entry)
      /\ \A p \in Queues : \A i : InSweep(p, i) <=> p = q /\ i \in x.todo
      /\ \A p \in Queues : \A i \in DOMAIN streams[p] :
            Over(p, i) => i <= delivered[p] /\ ~InSweep(p, i) /\ i \notin pending[p]
      /\ \A i \in DOMAIN streams[q] : streams[q][i].message = m => i = x.entry \/ Over(q, i)
  BY <1>1, <1>2, <1>3, <1>6, OnlySweep
<1>9. y.at = "getmeta" /\ y.queue = q /\ y.todo = x.todo /\ y.entry = x.entry /\ y # Idle
  BY <1>2, <1>5, <1>7 DEF Sweeping, Idle
<1>10. \A t \in Sweepers : sweeping'[t] = IF t = s THEN y ELSE Idle
  BY <1>6, <1>8 DEF IInv, CallsOK
<1>11. \A p \in Queues : \A i : InSweep(p, i)' => p = q /\ i \in x.todo /\ i # x.entry
  <2>1. Undecided(y) = x.todo \ {x.entry}
    BY <1>9 DEF Undecided
  <2>2. \A t \in Sweepers : Undecided(sweeping[t])' = Undecided(sweeping'[t])
    BY DEF Undecided
  <2>3. \A p \in Queues : \A i : InSweep(p, i)' =>
           \E t \in Sweepers : sweeping'[t] # Idle /\ sweeping'[t].queue = p /\ i \in Undecided(sweeping'[t])
    BY <2>2 DEF InSweep, Idle
  <2>4. QED
    BY <1>9, <1>10, <2>1, <2>3
<1>12. \A p \in Queues : pending'[p] = IF p = q THEN pending[q] \ {x.entry} ELSE pending[p]
  BY <1>6 DEF IInv, InboxOK
<1>13. CopiesCount'
  BY <1>6 DEF Budgeted, CopiesCount, SameMessage
<1>14. OneLetter'
  <2>1. ~InDlq(m)
    BY <1>2, <1>3, <1>8 DEF Over, AtHand
  <2>2. \A d \in dlq : d.message # m
    BY <2>1 DEF InDlq
  <2>3. QED
    BY <1>6, <1>7, <2>2 DEF Budgeted, OneLetter
<1>15. ASSUME NEW p \in Queues, NEW i \in DOMAIN streams[p], Over(p, i)'
       PROVE  i <= delivered[p] /\ ~InSweep(p, i)' /\ i \notin pending'[p]
  <2>1. \/ \E j \in DOMAIN streams[p] : i < j /\ streams[p][i].message = streams[p][j].message
        \/ \E d \in dlq \cup {letter} : d.message = streams[p][i].message
    BY <1>6, <1>15 DEF Over, SameMessage, InDlq
  <2>2. Over(p, i) \/ streams[p][i].message = m
    BY <1>7, <2>1 DEF Over, SameMessage, InDlq
  <2>3. streams[p][i].message = m => p = q
    BY <1>7 DEF IInv, InboxOK
  <2>4. Over(p, i) \/ (p = q /\ i = x.entry)
    BY <1>8, <2>2, <2>3
  <2>5. CASE Over(p, i)
    BY <1>8, <1>11, <1>12, <2>5
  <2>6. CASE p = q /\ i = x.entry
    BY <1>8, <1>11, <1>12, <2>6
  <2>7. QED
    BY <2>4, <2>5, <2>6
<1>16. OverIsDone'
  BY <1>6, <1>15 DEF OverIsDone
<1>17. QED
  BY <1>13, <1>14, <1>16 DEF Budgeted

(* A sweep takes what is pending, of which nothing is over.                *)
LEMMA BudgetStart ==
    ASSUME IInv, SweepsOK, setting' = setting, NEW s \in Sweepers, NEW q \in Queues, SweepStart(s, q)
    PROVE  /\ SweepsOK'
           /\ Alone /\ Budgeted => Budgeted'
<1>1. PICK idle \in SUBSET pending[q] :
         LET alive == {i \in idle : i > trimmed[q]}
         IN  /\ pending' = [pending EXCEPT ![q] = @ \ (idle \ alive)]
             /\ sweeping' = [sweeping EXCEPT
                   ![s] = IF alive = {} THEN Idle
                          ELSE [at |-> "entry", queue |-> q, todo |-> alive,
                                entry |-> First(alive), copy |-> 0]]
  BY DEF SweepStart
<1>2. PICK alive : alive = {i \in idle : i > trimmed[q]}
  OBVIOUS
<1>3. PICK y : y = IF alive = {} THEN Idle
                   ELSE [at |-> "entry", queue |-> q, todo |-> alive,
                         entry |-> First(alive), copy |-> 0]
  OBVIOUS
<1>4. /\ pending' = [pending EXCEPT ![q] = @ \ (idle \ alive)]
      /\ sweeping' = [sweeping EXCEPT ![s] = y]
  BY <1>1, <1>2, <1>3
<1>5. /\ s \in setting.sweepers /\ sweeping[s] = Idle
      /\ UNCHANGED <<streams, delivered, dlq>>
  BY DEF SweepStart
<1>6. y # Idle => y.at = "entry" /\ y.queue = q /\ y.todo = alive
  BY <1>3
<1>7. /\ \A t \in Sweepers : sweeping'[t] = IF t = s THEN y ELSE sweeping[t]
      /\ \A p \in Queues : pending'[p] \subseteq pending[p]
  BY <1>4 DEF IInv, CallsOK, InboxOK
<1>8. /\ alive \subseteq pending[q]
      /\ \A i \in pending[q] : i <= delivered[q]
  BY <1>2 DEF IInv, InboxOK
<1>9. SweepsOK'
  <2>1. ASSUME NEW t \in Sweepers, sweeping'[t] # Idle
        PROVE  /\ t \in setting.sweepers
               /\ \A i \in sweeping'[t].todo : i <= delivered[sweeping'[t].queue]
    <3>1. CASE t = s
      <4>1. y # Idle /\ sweeping'[t] = y
        BY <1>7, <2>1, <3>1
      <4>2. y.queue = q /\ y.todo = alive
        BY <1>6, <4>1
      <4>3. QED
        BY <1>5, <1>8, <3>1, <4>1, <4>2
    <3>2. CASE t # s
      BY <1>7, <2>1, <3>2 DEF SweepsOK
    <3>3. QED
      BY <3>1, <3>2
  <2>2. QED
    BY <1>5, <2>1 DEF SweepsOK
<1>10. ASSUME Alone, Budgeted
       PROVE  Budgeted'
  <2>1. \A t \in Sweepers : sweeping[t] = Idle
    BY <1>5, <1>10 DEF SweepsOK, Alone
  <2>2. \A p \in Queues : \A i \in DOMAIN streams[p] :
           Over(p, i) => i <= delivered[p] /\ i \notin pending[p]
    <3>1. \A p \in Queues : \A i : ~Copied(p, i)
      BY <2>1 DEF Copied, Idle
    <3>2. QED
      BY <1>10, <3>1 DEF Budgeted, OverIsDone
  <2>3. ASSUME NEW p \in Queues, NEW i, InSweep(p, i)'
        PROVE  i \in pending[p]
    <3>1. PICK t \in Sweepers :
             sweeping'[t] # Idle /\ sweeping'[t].queue = p /\ i \in Undecided(sweeping[t])'
      BY <2>3 DEF InSweep
    <3>2. t = s /\ y # Idle /\ sweeping'[t] = y
      BY <1>7, <2>1, <3>1
    <3>3. y.at = "entry" /\ p = q /\ y.todo = alive
      BY <1>6, <3>1, <3>2
    <3>4. i \in alive
      BY <3>1, <3>2, <3>3 DEF Undecided
    <3>5. QED
      BY <1>8, <3>3, <3>4
  <2>4. CopiesCount' /\ OneLetter'
    BY <1>5, <1>10 DEF Budgeted, CopiesCount, SameMessage, OneLetter
  <2>5. \A p \in Queues : \A i \in DOMAIN streams[p] : Over(p, i)' => Over(p, i)
    BY <1>5 DEF Over, SameMessage, InDlq
  <2>6. OverIsDone'
    BY <1>5, <1>7, <2>2, <2>3, <2>5 DEF OverIsDone
  <2>7. QED
    BY <2>4, <2>6 DEF Budgeted
<1>11. QED
  BY <1>9, <1>10

LEMMA SweepsStay ==
    ASSUME IInv, sweeping' = sweeping
    PROVE  SweepsGoOn
BY DEF SweepsGoOn, SweepOf

(* One sweep goes from x to y.                                             *)
LEMMA OneSweepGoesOn ==
    ASSUME IInv, NEW s \in Sweepers, NEW x, x = sweeping[s], NEW y,
           sweeping' = [sweeping EXCEPT ![s] = y], SweepOf(y, x)
    PROVE  /\ SweepsGoOn
           /\ (x.at # "xack" \/ x.entry \notin pending'[x.queue]) => StillCopied
<1>1. \A t \in Sweepers : sweeping'[t] = IF t = s THEN y ELSE sweeping[t]
  BY DEF IInv, CallsOK
<1>2. SweepsGoOn
  BY <1>1 DEF SweepsGoOn, SweepOf
<1>3. ASSUME x.at # "xack" \/ x.entry \notin pending'[x.queue],
             NEW q \in Queues, NEW i \in pending'[q], Copied(q, i)
      PROVE  Copied(q, i)'
  <2>1. PICK t \in Sweepers :
           sweeping[t].at = "xack" /\ sweeping[t].queue = q /\ sweeping[t].entry = i
    BY <1>3 DEF Copied
  <2>2. t # s
    BY <1>3, <2>1
  <2>3. sweeping'[t] = sweeping[t]
    BY <1>1, <2>2
  <2>4. QED
    BY <2>1, <2>3 DEF Copied
<1>4. QED
  BY <1>2, <1>3 DEF StillCopied

LEMMA SweeperGoesOn ==
    ASSUME IInv, setting' = setting, NEW s \in Sweepers,
           SweepXAck(s) \/ SweepMeta(s) \/ SweepGetMeta(s) \/ SweepDeadMeta(s)
    PROVE  SweepsGoOn /\ InboxMovesOn /\ StillCopied
<1>1. PICK x : x = sweeping[s]
  OBVIOUS
<1>2. x.at \in {"xack", "meta", "getmeta", "deadmeta"}
  BY <1>1 DEF SweepXAck, SweepMeta, SweepGetMeta, SweepDeadMeta
<1>3. x \in Sweeping /\ x # Idle /\ x.queue \in Queues
  BY <1>1, <1>2, SweepAtHand
<1>4. ASSUME NEW y, y.at \in {"meta", "deadmeta"}, y.queue = x.queue, y.todo = x.todo, y.entry = x.entry
      PROVE  SweepOf(y, x)
  <2>1. Undecided(y) = Undecided(x)
    BY <1>2, <1>4 DEF Undecided
  <2>2. QED
    BY <1>3, <1>4, <2>1 DEF SweepOf
<1>5. CASE SweepXAck(s)
  <2>1. PICK y : y = [x EXCEPT !.at = "meta"]
    OBVIOUS
  <2>2. /\ x.at = "xack" /\ pending' = [pending EXCEPT ![x.queue] = @ \ {x.entry}]
        /\ sweeping' = [sweeping EXCEPT ![s] = y] /\ delivered' = delivered
    BY <1>1, <1>5, <2>1 DEF SweepXAck, XAck
  <2>3. y.at = "meta" /\ y.queue = x.queue /\ y.todo = x.todo /\ y.entry = x.entry
    BY <1>3, <2>1 DEF Sweeping
  <2>4. /\ x.entry \notin pending'[x.queue]
        /\ \A q \in Queues : pending'[q] \subseteq pending[q]
    BY <1>3, <2>2 DEF IInv, InboxOK
  <2>5. SweepOf(y, x)
    BY <1>4, <2>3
  <2>6. SweepsGoOn /\ StillCopied
    BY <1>1, <2>2, <2>4, <2>5, OneSweepGoesOn
  <2>7. InboxMovesOn
    BY <2>2, <2>4, StillInbox
  <2>8. QED
    BY <2>6, <2>7
<1>6. CASE SweepMeta(s) \/ SweepGetMeta(s) \/ SweepDeadMeta(s)
  <2>1. UNCHANGED <<pending, delivered>> /\ x.at # "xack"
    BY <1>1, <1>6 DEF SweepMeta, SweepGetMeta, SweepDeadMeta, inbox
  <2>2. InboxMovesOn
    BY <2>1, StillInbox
  <2>3. PICK m : m = AtHand(x).message
    OBVIOUS
  <2>4. PICK z : z = [x EXCEPT !.at = "deadmeta", !.copy = meta[m].entry]
    OBVIOUS
  <2>5. PICK y : y \in {Swept(x), z} /\ sweeping' = [sweeping EXCEPT ![s] = y]
    <3>1. CASE SweepMeta(s) \/ SweepDeadMeta(s)
      BY <1>1, <3>1 DEF SweepMeta, SweepDeadMeta
    <3>2. CASE SweepGetMeta(s)
      <4>1. sweeping' = [sweeping EXCEPT ![s] = IF meta[m] = NoMeta THEN Swept(x) ELSE z]
        BY <1>1, <2>3, <2>4, <3>2 DEF SweepGetMeta
      <4>2. QED
        BY <4>1
    <3>3. QED
      BY <1>6, <3>1, <3>2
  <2>6. z.at = "deadmeta" /\ z.queue = x.queue /\ z.todo = x.todo /\ z.entry = x.entry
    BY <1>3, <2>4 DEF Sweeping
  <2>7. SweepOf(y, x)
    BY <1>3, <1>4, <2>5, <2>6, SweptIsOf
  <2>8. QED
    BY <1>1, <2>1, <2>2, <2>5, <2>7, OneSweepGoesOn
<1>7. QED
  BY <1>5, <1>6

(* A command of enqueue, in a send or a reply.                             *)
LEMMA EnqueueBudget ==
    ASSUME IInv, setting' = setting, NEW x, x.sent \in Messages, Enqueue(x),
           x.at = "xadd" => ~Added(x.sent), UNCHANGED <<delivered, pending, dlq, sweeping>>
    PROVE  /\ SweepsGoOn /\ InboxMovesOn
           /\ Budgeted => Budgeted'
<1>1. SweepsGoOn /\ InboxMovesOn /\ StillCopied
  BY SweepsStay, StillInbox DEF StillCopied, Copied
<1>2. CASE streams' = streams
  BY <1>1, <1>2, BudgetStays
<1>3. CASE x.at = "xadd" /\ XAdd(QueueOf(x.sent), x.sent, 0)
  <2>1. PICK q \in Queues : q = QueueOf(x.sent)
    BY SettingTyped DEF IInv
  <2>2. QED
    BY <1>1, <1>3, <2>1, BudgetEnqueue
<1>4. QED
  BY <1>2, <1>3 DEF Enqueue

(* Every step that is no fault, in the terms above.                        *)
LEMMA StepBudget ==
    ASSUME IInv, FreshIds, SweepsOK, setting' = setting, Step, ~Fault
    PROVE  /\ SweepsOK'
           /\ Alone /\ Budgeted => Budgeted'
<1>1. ASSUME streams' = streams, dlq' \subseteq dlq, SweepsGoOn, InboxMovesOn, StillCopied
      PROVE  SweepsOK' /\ (Budgeted => Budgeted')
  BY <1>1, SweepsGoOnOK, BudgetStays
<1>2. ASSUME UNCHANGED <<streams, delivered, sweeping>>, dlq' \subseteq dlq,
             \A q \in Queues : pending'[q] \subseteq pending[q]
      PROVE  SweepsOK' /\ (Budgeted => Budgeted')
  BY <1>1, <1>2, SweepsStay, StillInbox DEF StillCopied, Copied
<1>3. ASSUME UNCHANGED <<inbox, sweeping, dlq>>
      PROVE  SweepsOK' /\ (Budgeted => Budgeted')
  BY <1>2, <1>3 DEF inbox
<1>4. ASSUME NEW s \in Senders, NEW m \in Messages, Dispatch(s, m) \/ ReplayStart(s, m)
      PROVE  SweepsOK' /\ (Budgeted => Budgeted')
  BY <1>3, <1>4 DEF Dispatch, ReplayStart
<1>5. ASSUME NEW s \in Senders, ReplayEnd(s)
      PROVE  SweepsOK' /\ (Budgeted => Budgeted')
  <2>1. /\ UNCHANGED <<inbox, sweeping>>
        /\ dlq' \subseteq dlq
    BY <1>5 DEF ReplayEnd
  <2>2. QED
    BY <1>2, <2>1 DEF inbox
<1>6. ASSUME NEW s \in Senders, Send(s)
      PROVE  SweepsOK' /\ (Budgeted => Budgeted')
  <2>1. PICK x : x = sending[s]
    OBVIOUS
  <2>2. x # Idle /\ Enqueue(x) /\ UNCHANGED <<delivered, pending, dlq, sweeping>>
    BY <1>6, <2>1 DEF Send
  <2>3. x \in Sending /\ x.sent \in Messages
    BY <2>1, <2>2 DEF IInv, CallsOK, Sending
  <2>4. x.at = "xadd" => ~Added(x.sent)
    BY <2>1, <2>3 DEF FreshIds, WillAdd, ToAdd
  <2>5. SweepsGoOn /\ InboxMovesOn /\ (Budgeted => Budgeted')
    BY <2>2, <2>3, <2>4, EnqueueBudget
  <2>6. QED
    BY <2>5, SweepsGoOnOK
<1>7. ASSUME NEW c \in Consumers, ReplyEnqueue(c)
      PROVE  SweepsOK' /\ (Budgeted => Budgeted')
  <2>1. PICK x : x = consuming[c]
    OBVIOUS
  <2>2. /\ x.at \in {"register", "xadd", "meta"} /\ Enqueue(x)
        /\ UNCHANGED <<delivered, pending, dlq, sweeping>>
    BY <1>7, <2>1 DEF ReplyEnqueue
  <2>3. GoodAnswer(x) /\ (x.sent # NoMessage => x.sent \in Messages)
    BY <2>1, <2>2, AnswerAtHand
  <2>4. x.sent \in Messages
    BY <2>2, <2>3 DEF GoodAnswer
  <2>5. x.at = "xadd" => ~Added(x.sent)
    BY <2>1, <2>4 DEF FreshIds, WillAdd, ToAdd
  <2>6. SweepsGoOn /\ InboxMovesOn /\ (Budgeted => Budgeted')
    BY <2>2, <2>4, <2>5, EnqueueBudget
  <2>7. QED
    BY <2>6, SweepsGoOnOK
<1>8. ASSUME NEW c \in Consumers, ClaimRead(c)
      PROVE  SweepsOK' /\ (Budgeted => Budgeted')
  <2>1. UNCHANGED <<streams, dlq, sweeping>>
    BY <1>8 DEF ClaimRead
  <2>2. StillCopied
    BY <2>1 DEF StillCopied, Copied
  <2>3. InboxMovesOn /\ SweepsGoOn
    BY <1>8, <2>1, ClaimMovesOn, SweepsStay
  <2>4. QED
    BY <1>1, <2>1, <2>2, <2>3
<1>9. ASSUME NEW c \in Consumers, AckXAck(c)
      PROVE  SweepsOK' /\ (Budgeted => Budgeted')
  <2>1. PICK x : x = consuming[c]
    OBVIOUS
  <2>2. /\ pending' = [pending EXCEPT ![QueueOf(x.message)] = @ \ {x.entry}]
        /\ UNCHANGED <<streams, delivered, dlq, sweeping>>
    BY <1>9, <2>1 DEF AckXAck, XAck
  <2>3. \A q \in Queues : pending'[q] \subseteq pending[q]
    BY <2>2 DEF IInv, InboxOK
  <2>4. QED
    BY <1>2, <2>2, <2>3
<1>10. ASSUME NEW c \in Consumers, ConsumerStep(c)
       PROVE  SweepsOK' /\ (Budgeted => Budgeted')
  <2>1. CASE ClaimStart(c) \/ ClaimMeta(c) \/ ClaimReturn(c) \/ AckGetMeta(c) \/ AckMeta(c)
             \/ RecordReply(c)
    BY <1>3, <2>1 DEF ClaimStart, ClaimMeta, ClaimReturn, AckGetMeta, AckMeta, RecordReply
  <2>2. QED
    BY <1>7, <1>8, <1>9, <1>10, <2>1 DEF ConsumerStep
<1>11. ASSUME NEW c \in Consumers, NEW m \in Messages, AckStart(c, m)
       PROVE  SweepsOK' /\ (Budgeted => Budgeted')
  BY <1>3, <1>11 DEF AckStart
<1>12. ASSUME NEW c \in Consumers, NEW m \in Messages, NEW r \in Messages, ReplyStart(c, m, r)
       PROVE  SweepsOK' /\ (Budgeted => Budgeted')
  BY <1>3, <1>12 DEF ReplyStart
<1>13. ASSUME NEW s \in Sweepers,
              SweepXAck(s) \/ SweepMeta(s) \/ SweepGetMeta(s) \/ SweepDeadMeta(s)
       PROVE  SweepsOK' /\ (Budgeted => Budgeted')
  <2>1. streams' = streams /\ dlq' = dlq
    BY <1>13 DEF SweepXAck, SweepMeta, SweepGetMeta, SweepDeadMeta, inbox
  <2>2. QED
    BY <1>1, <1>13, <2>1, SweeperGoesOn
<1>14. ASSUME NEW s \in Sweepers, SweepRetry(s) \/ SweepBury(s)
       PROVE  SweepsOK'
  <2>1. PICK x : x = sweeping[s]
    OBVIOUS
  <2>2. x.at = "entry"
    BY <1>14, <2>1 DEF SweepRetry, SweepBury
  <2>3. x \in Sweeping /\ x # Idle
    BY <2>1, <2>2, SweepAtHand
  <2>4. PICK last : last = Len(streams[x.queue]) + 1
    OBVIOUS
  <2>5. PICK y : /\ y \in {[x EXCEPT !.at = "xack", !.copy = last], [x EXCEPT !.at = "getmeta"]}
                 /\ sweeping' = [sweeping EXCEPT ![s] = y]
    BY <1>14, <2>1, <2>4 DEF SweepRetry, SweepBury
  <2>6. y.at \in {"xack", "getmeta"} /\ y.queue = x.queue /\ y.todo = x.todo /\ y.entry = x.entry
    BY <2>3, <2>5 DEF Sweeping
  <2>7. Undecided(y) \subseteq Undecided(x)
    BY <2>2, <2>6 DEF Undecided
  <2>8. SweepOf(y, x)
    BY <2>3, <2>6, <2>7 DEF SweepOf
  <2>9. SweepsGoOn
    BY <2>1, <2>5, <2>8, OneSweepGoesOn
  <2>10. delivered' = delivered /\ \A q \in Queues : pending'[q] \subseteq pending[q]
    <3>1. CASE SweepRetry(s)
      BY <3>1 DEF SweepRetry
    <3>2. CASE SweepBury(s)
      <4>1. pending' = [pending EXCEPT ![x.queue] = @ \ {x.entry}] /\ delivered' = delivered
        BY <2>1, <3>2 DEF SweepBury, XAck
      <4>2. QED
        BY <4>1 DEF IInv, InboxOK
    <3>3. QED
      BY <1>14, <3>1, <3>2
  <2>11. QED
    BY <2>9, <2>10, SweepsGoOnOK, StillInbox
<1>15. ASSUME NEW s \in Sweepers, SweeperStep(s)
       PROVE  SweepsOK' /\ (Alone /\ Budgeted => Budgeted')
  BY <1>13, <1>14, <1>15, BudgetStart, BudgetRetry, BudgetBury DEF SweeperStep
<1>16. QED
  BY <1>4, <1>5, <1>6, <1>10, <1>11, <1>12, <1>15 DEF Step

LEMMA BudgetKept ==
    ASSUME IInv, BudgetInv, [Next]_vars
    PROVE  BudgetInv'
<1>1. FreshIds'
  BY StepIds DEF BudgetInv
<1>2. CASE UNCHANGED vars
  <2>1. UNCHANGED <<setting, streams, delivered, pending, sweeping, dlq, faults>>
    BY <1>2 DEF vars, inbox, calls
  <2>2. SweepsOK' /\ (Budgeted => Budgeted')
    BY <2>1, SweepsGoOnOK, BudgetStays, SweepsStay, StillInbox
       DEF StillCopied, Copied, BudgetInv
  <2>3. QED
    BY <1>1, <2>1, <2>2 DEF BudgetInv, Calm, Alone
<1>3. CASE Next
  <2>1. setting' = setting /\ Step
    BY <1>3 DEF Next
  <2>2. CASE Fault
    <3>1. faults' # 0
      BY <2>2 DEF Fault, IInv, WorkOK
    <3>2. UNCHANGED <<delivered, pending>>
      BY <2>2 DEF Fault, inbox
    <3>3. SweepsGoOn
      <4>1. ASSUME NEW s \in Sweepers, sweeping' = [sweeping EXCEPT ![s] = Idle]
            PROVE  SweepsGoOn
        <5>1. PICK x : x = sweeping[s]
          OBVIOUS
        <5>2. SweepOf(Idle, x)
          BY DEF SweepOf
        <5>3. QED
          BY <4>1, <5>1, <5>2, OneSweepGoesOn
      <4>2. QED
        BY <2>2, <4>1, SweepsStay
           DEF Fault, CrashSender, CrashConsumer, CrashSweeper, ExpireMeta, calls
    <3>4. SweepsOK'
      BY <2>1, <3>2, <3>3, SweepsGoOnOK, StillInbox DEF BudgetInv
    <3>5. QED
      BY <1>1, <3>1, <3>4 DEF BudgetInv, Calm
  <2>3. CASE ~Fault
    <3>1. faults' = faults
      <4>1. ASSUME NEW c \in Consumers, ConsumerStep(c)
            PROVE  faults' = faults
        BY <4>1 DEF ConsumerStep, ClaimStart, ClaimRead, ClaimMeta, ClaimReturn, ReplyEnqueue,
                    AckGetMeta, AckXAck, AckMeta, RecordReply
      <4>2. ASSUME NEW s \in Sweepers, SweeperStep(s)
            PROVE  faults' = faults
        BY <4>2 DEF SweeperStep, SweepStart, SweepRetry, SweepXAck, SweepMeta, SweepBury,
                    SweepGetMeta, SweepDeadMeta
      <4>3. ASSUME NEW s \in Senders, Send(s) \/ ReplayEnd(s)
            PROVE  faults' = faults
        BY <4>3 DEF Send, ReplayEnd
      <4>4. ASSUME NEW s \in Senders, NEW m \in Messages, Dispatch(s, m) \/ ReplayStart(s, m)
            PROVE  faults' = faults
        BY <4>4 DEF Dispatch, ReplayStart
      <4>5. ASSUME NEW c \in Consumers, NEW m \in Messages, AckStart(c, m)
            PROVE  faults' = faults
        BY <4>5 DEF AckStart
      <4>6. ASSUME NEW c \in Consumers, NEW m \in Messages, NEW r \in Messages, ReplyStart(c, m, r)
            PROVE  faults' = faults
        BY <4>6 DEF ReplyStart
      <4>7. QED
        BY <2>1, <2>3, <4>1, <4>2, <4>3, <4>4, <4>5, <4>6 DEF Step
    <3>2. SweepsOK' /\ (Alone /\ Budgeted => Budgeted')
      BY <2>1, <2>3, StepBudget DEF BudgetInv
    <3>3. QED
      BY <1>1, <2>1, <3>1, <3>2 DEF BudgetInv, Calm, Alone
  <2>4. QED
    BY <2>2, <2>3
<1>4. QED
  BY <1>2, <1>3

LEMMA BudgetInit ==
    ASSUME Init
    PROVE  BudgetInv
<1>1. IInv
  BY InitHolds
<1>2. \A m \in Messages : ~Added(m)
  BY <1>1, SettingTyped DEF Init, Added, IInv
<1>3. FreshIds /\ SweepsOK
  BY <1>2 DEF Init, FreshIds, WillAdd, ToAdd, SweepsOK, Idle
<1>4. \A q \in Queues : DOMAIN streams[q] = {}
  BY DEF Init
<1>5. Budgeted
  BY <1>4 DEF Init, Budgeted, CopiesCount, OverIsDone, OneLetter
<1>6. QED
  BY <1>3, <1>5 DEF BudgetInv

LEMMA AloneIfFew ==
    ASSUME IsFiniteSet(Sweepers), setting \in Settings, Cardinality(setting.sweepers) <= 1
    PROVE  Alone
<1>1. setting.sweepers \subseteq Sweepers
  BY BusConstants DEF Setting
<1>2. IsFiniteSet(setting.sweepers) /\ Cardinality(setting.sweepers) \in Nat
  BY <1>1, FS_Subset, FS_CardinalityType
<1>3. Cardinality(setting.sweepers) = 0 => setting.sweepers = {}
  BY <1>2, FS_EmptySet
<1>4. Cardinality(setting.sweepers) = 1 => \E x : setting.sweepers = {x}
  BY <1>2, FS_Singleton
<1>5. QED
  BY <1>2, <1>3, <1>4 DEF Alone

(* Entries of a message differ in retry count, of which there are          *)
(* maxRetries + 1.                                                         *)
Deliveries(m) == {p \in Queues \X (1 .. MaxEntries) :
                     /\ p[2] \in DOMAIN streams[p[1]]
                     /\ streams[p[1]][p[2]].message = m}
LEMMA FewDeliveries ==
    ASSUME IInv, CopiesCount, NEW m \in Messages
    PROVE  Cardinality(Deliveries(m)) <= setting.maxRetries + 1
<1>1. setting.maxRetries \in Nat /\ InboxOK
  BY SettingTyped DEF IInv
<1>2. PICK P : P = Deliveries(m)
  OBVIOUS
<1>3. PICK count : count = [p \in P |-> streams[p[1]][p[2]].retryCount]
  OBVIOUS
<1>4. ASSUME NEW p \in P
      PROVE  /\ p = <<QueueOf(m), p[2]>> /\ p[2] \in DOMAIN streams[QueueOf(m)]
             /\ streams[QueueOf(m)][p[2]].message = m
             /\ count[p] = streams[QueueOf(m)][p[2]].retryCount
  <2>1. /\ p \in Queues \X (1 .. MaxEntries)
        /\ p[2] \in DOMAIN streams[p[1]] /\ streams[p[1]][p[2]].message = m
    BY <1>2, <1>4 DEF Deliveries
  <2>2. p[1] \in Queues /\ p = <<p[1], p[2]>>
    BY <2>1
  <2>3. QueueOf(m) = p[1]
    BY <1>1, <2>1, <2>2 DEF InboxOK
  <2>4. count[p] = streams[p[1]][p[2]].retryCount
    BY <1>3, <1>4
  <2>5. QED
    BY <2>1, <2>2, <2>3, <2>4
<1>5. QueueOf(m) \in Queues
  BY SettingTyped DEF IInv
<1>6. ASSUME NEW i \in DOMAIN streams[QueueOf(m)]
      PROVE  streams[QueueOf(m)][i].retryCount \in 0 .. setting.maxRetries /\ i \in Nat
  <2>1. streams[QueueOf(m)][i].retryCount \in Nat /\ i \in Nat
    BY <1>1, <1>5, <1>6, StreamTyped
  <2>2. streams[QueueOf(m)][i].retryCount <= setting.maxRetries
    BY <1>5, <1>6 DEF CopiesCount
  <2>3. QED
    BY <1>1, <2>1, <2>2
<1>7. ASSUME NEW i \in DOMAIN streams[QueueOf(m)], NEW j \in DOMAIN streams[QueueOf(m)],
             streams[QueueOf(m)][i].message = m, streams[QueueOf(m)][j].message = m,
             streams[QueueOf(m)][i].retryCount = streams[QueueOf(m)][j].retryCount
      PROVE  i = j
  <2>1. i \in Nat /\ j \in Nat /\ streams[QueueOf(m)][i].retryCount \in Nat
    BY <1>6, <1>7, SMTT(30)
  <2>2. ~(i < j) /\ ~(j < i)
    BY <1>5, <1>7, <2>1 DEF CopiesCount, SameMessage
  <2>3. QED
    BY <2>1, <2>2
<1>8. count \in Injection(P, 0 .. setting.maxRetries)
  <2>1. count \in [P -> 0 .. setting.maxRetries]
    BY <1>3, <1>4, <1>6
  <2>2. ASSUME NEW p \in P, NEW r \in P, count[p] = count[r]
        PROVE  p = r
    <3>1. p[2] = r[2]
      BY <1>4, <1>7, <2>2
    <3>2. QED
      BY <1>4, <3>1
  <2>3. QED
    BY <2>1, <2>2 DEF Injection, IsInjective
<1>9. PICK N : N = 0 .. setting.maxRetries
  OBVIOUS
<1>10. IsFiniteSet(N) /\ Cardinality(N) = setting.maxRetries + 1
  <2>1. 0 \in Int /\ setting.maxRetries \in Int /\ ~(0 > setting.maxRetries)
    BY <1>1
  <2>2. /\ IsFiniteSet(0 .. setting.maxRetries)
        /\ Cardinality(0 .. setting.maxRetries) =
              IF 0 > setting.maxRetries THEN 0 ELSE setting.maxRetries - 0 + 1
    BY <2>1, FS_Interval
  <2>3. QED
    BY <1>1, <1>9, <2>1, <2>2
<1>11. Cardinality(P) <= Cardinality(N)
  BY <1>8, <1>9, <1>10, FS_Injection
<1>12. QED
  BY <1>2, <1>10, <1>11

(* While one sweep at a time runs and nothing crashes, a message is        *)
(* delivered maxRetries + 1 times and dead-lettered once at most, however  *)
(* late its consumers answer and however many there are.                   *)
THEOREM RetriesAreBounded ==
    ASSUME IsFiniteSet(Sweepers)
    PROVE  Spec => []DeliveryBudget
<1>1. Spec => [](IInv /\ BudgetInv)
  <2>1. Init => IInv /\ BudgetInv
    BY InitHolds, BudgetInit
  <2>2. IInv /\ BudgetInv /\ [Next]_vars => (IInv /\ BudgetInv)'
    BY NextKeeps, BudgetKept
  <2>3. QED
    BY <2>1, <2>2, PTL DEF Spec
<1>2. ASSUME IInv, BudgetInv, Cardinality(setting.sweepers) <= 1, faults = 0, NEW m \in Messages
      PROVE  /\ Cardinality(Deliveries(m)) <= setting.maxRetries + 1
             /\ Cardinality({d \in dlq : d.message = m}) <= 1
  <2>1. Budgeted
    BY <1>2, AloneIfFew DEF BudgetInv, Calm, IInv
  <2>2. Cardinality(Deliveries(m)) <= setting.maxRetries + 1
    BY <1>2, <2>1, FewDeliveries DEF Budgeted
  <2>3. PICK L : L = {d \in dlq : d.message = m}
    OBVIOUS
  <2>4. L = {} \/ \E d : L = {d}
    BY <2>1, <2>3 DEF Budgeted, OneLetter
  <2>5. Cardinality(L) <= 1
    <3>1. CASE L = {}
      <4>1. Cardinality(L) = 0
        BY <3>1, FS_EmptySet
      <4>2. QED
        BY <4>1
    <3>2. ASSUME NEW d, L = {d}
          PROVE  Cardinality(L) <= 1
      <4>1. Cardinality({d}) = 1
        BY FS_Singleton
      <4>2. QED
        BY <3>2, <4>1
    <3>3. QED
      BY <2>4, <3>1, <3>2
  <2>6. QED
    BY <2>2, <2>3, <2>5
<1>3. IInv /\ BudgetInv => DeliveryBudget
  BY <1>2 DEF DeliveryBudget, Deliveries
<1>4. QED
  BY <1>1, <1>3, PTL
=============================================================================
