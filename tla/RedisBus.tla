------------------------------- MODULE RedisBus -------------------------------
(***************************************************************************)
(* The message bus of one session: backends/redis-bus.ts, under the calls  *)
(* message-bus/index.ts makes of it.  Each agent's inbox is one Redis      *)
(* stream per priority, read by one consumer group.  Redis runs a command  *)
(* (or a MULTI) alone; every method here sends several, so each call in    *)
(* flight is a record that says which command comes next, and any of them  *)
(* can crash between two commands.                                         *)
(*                                                                         *)
(* Time is left out: an entry may be idle long enough for the sweeper as   *)
(* soon as it is pending, a message may expire at any time, as may its     *)
(* metadata.  Publish, audit and live events leave no trace on the bus.    *)
(***************************************************************************)
EXTENDS Integers, Sequences, FiniteSets

CONSTANTS
    Agents,
    Messages,       \* message ids, each used at most once
    Senders,        \* callers of dispatch, broadcast and replayDlq
    Consumers,      \* callers of claim, ack and reply
    Sweepers,       \* background sweeps in progress
    TopPriority,    \* 5
    Settings,       \* the conversations to consider
    StreamMaxLen,   \* SPANOAI_STREAM_MAXLEN
    MaxEntries,     \* bound on the entries ever added to a stream
    NoMessage

Priorities == 1 .. TopPriority
Queues     == Agents \X Priorities

(* Who takes part, and what each message says: the agent it is for, its    *)
(* priority, the message it answers or NoMessage, and its maxRetries.      *)
Setting ==
    [messages : SUBSET Messages, consumers : SUBSET Consumers,
     sweepers : SUBSET Sweepers,
     toAgent : [Messages -> Agents], priority : [Messages -> Priorities],
     replyTo : [Messages -> Messages \cup {NoMessage}], maxRetries : Nat,
     claimFor : Agents, \* the agent the consumers work for
     claimCount : Nat,  \* a claim asks for at most this many messages
     maxFaults : Nat]   \* bound on crashes and expiries of metadata

ASSUME BusConstants ==
    /\ TopPriority \in Nat
    /\ NoMessage \notin Messages
    /\ Settings \subseteq Setting
    /\ StreamMaxLen \in Nat /\ MaxEntries \in Nat

VARIABLES
    setting,    \* chosen at the start
    streams,    \* the entries ever added to each stream, in order
    trimmed,    \* how many of them MAXLEN has removed
    delivered,  \* how many the group has delivered or skipped
    pending,    \* the group's pending list: delivered, not acknowledged
    registry,   \* the agents whose inbox the sweeper knows
    meta,       \* the metadata of each message: status and stream entry
    dlq,        \* the dead letters
    replies,    \* the reply recorded for each message
    sending, consuming, sweeping,   \* the calls in flight
    held,       \* the messages each consumer was handed and works on
    used,       \* ids given to a message so far
    buried,     \* dead letters ever made
    done,       \* history: messages a consumer finished the work of
    replayed,   \* history: dead letters removed once their copy was in the stream
    faults

inbox   == <<streams, trimmed, delivered, pending>>
calls   == <<sending, consuming, sweeping, held>>
history == <<done, replayed>>
vars    == <<setting, inbox, registry, meta, dlq, replies, calls, used, buried, history,
             faults>>

ToAgent    == setting.toAgent
PriorityOf == setting.priority
ReplyTo    == setting.replyTo
QueueOf(m) == <<ToAgent[m], PriorityOf[m]>>

StreamEntry == [message : Messages, retryCount : Nat]
Letter      == [number : Nat, message : Messages]
Meta        == [status : {"queued", "claimed", "acked", "dead_letter"}, entry : Nat]
NoMeta      == [status |-> "none"]
Idle        == [at |-> "idle"]

(* dispatch and replayDlq; letter is what a replay removes at the end.     *)
Sending == [at : {"register", "xadd", "meta", "xdel"}, sent : Messages,
            entry : Nat, letter : Nat]
(* claim: the priority it reads next, the entries it has read there whose  *)
(* metadata it has yet to write, the room left, the messages so far and,   *)
(* for ClaimTakesHighest, what was waiting when it began.                  *)
Claiming == [at : {"claim"}, priority : 0 .. TopPriority, todo : SUBSET Nat,
             room : Nat, got : SUBSET Messages, before : SUBSET (Queues \X Nat)]
(* ack and reply; sent is the reply, or NoMessage in a plain ack.          *)
Answering == [at : {"register", "xadd", "meta", "getmeta", "xack", "ackmeta", "record"},
              message : Messages, sent : Messages \cup {NoMessage}, entry : Nat]
(* reclaimStuck on one stream: the entries claimed and not yet dealt with, *)
(* the one at hand, and its copy.                                          *)
Sweeping == [at : {"entry", "xack", "meta", "getmeta", "deadmeta"}, queue : Queues,
             todo : SUBSET Nat, entry : Nat, copy : Nat]

-----------------------------------------------------------------------------
Waiting(q) == {i \in DOMAIN streams[q] : i > delivered[q] /\ i > trimmed[q]}
Open(q)    == Waiting(q) \cup pending[q]

First(S) == CHOOSE i \in S : \A j \in S : i <= j

InDlq(m)     == \E d \in dlq : d.message = m
Accepted(m)  == \E q \in Queues : \E i \in DOMAIN streams[q] : streams[q][i].message = m

(* XADD MAXLEN ~: the entry joins, and Redis may trim the oldest ones as   *)
(* long as StreamMaxLen are left.                                          *)
XAdd(q, m, retries) ==
    /\ Len(streams[q]) < MaxEntries
    /\ streams' = [streams EXCEPT
                      ![q] = Append(@, [message |-> m, retryCount |-> retries])]
    /\ \E t \in trimmed[q] .. Len(streams[q]) + 1 :
          /\ t > trimmed[q] => Len(streams[q]) + 1 - t >= StreamMaxLen
          /\ trimmed' = [trimmed EXCEPT ![q] = t]

XAckNothing(q, i) == pending' = pending                        \* mutant
XAck(q, i) == pending' = [pending EXCEPT ![q] = @ \ {i}]

WriteBareMeta(m, status, i) == meta' = [meta EXCEPT ![m] = [status |-> status]] \* mutant
WriteMeta(m, status, i) ==
    meta' = [meta EXCEPT ![m] = [status |-> status, entry |-> i]]

(* One command of enqueue on call x: SADD, XADD, then the metadata.        *)
Enqueue(x) ==
    \/ /\ x.at = "register"
       /\ registry' = registry \cup {ToAgent[x.sent]}
       /\ UNCHANGED <<streams, trimmed, meta>>
    \/ /\ x.at = "xadd"
       /\ XAdd(QueueOf(x.sent), x.sent, 0)
       /\ UNCHANGED <<registry, meta>>
    \/ /\ x.at = "meta"
       /\ WriteMeta(x.sent, "queued", x.entry)
       /\ UNCHANGED <<streams, trimmed, registry>>

(* The call after that command, then being what follows enqueue.           *)
Enqueued(x, then) ==
    IF x.at = "register" THEN [x EXCEPT !.at = "xadd"]
    ELSE IF x.at = "xadd"
         THEN [x EXCEPT !.at = "meta", !.entry = Len(streams[QueueOf(x.sent)]) + 1]
    ELSE then

-----------------------------------------------------------------------------
(* dispatch; a broadcast is several of them in a row.                      *)

Dispatch(s, m) ==
    /\ sending[s] = Idle
    /\ m \notin used /\ ReplyTo[m] = NoMessage
    /\ used' = used \cup {m}
    /\ sending' = [sending EXCEPT
                      ![s] = [at |-> "register", sent |-> m, entry |-> 0, letter |-> 0]]
    /\ UNCHANGED <<inbox, registry, meta, dlq, replies, consuming, sweeping, held,
                   buried, history, faults>>

(* replayDlq: a dead letter is enqueued again under a fresh id, then       *)
(* removed.                                                                *)
ReplayStart(s, m) ==
    /\ sending[s] = Idle
    /\ m \notin used
    /\ used' = used \cup {m}
    /\ \E d \in dlq :
          /\ QueueOf(m) = QueueOf(d.message) /\ ReplyTo[m] = ReplyTo[d.message]
          /\ sending' = [sending EXCEPT
                ![s] = [at |-> "register", sent |-> m, entry |-> 0,
                        letter |-> d.number]]
    /\ UNCHANGED <<inbox, registry, meta, dlq, replies, consuming, sweeping, held,
                   buried, history, faults>>

Send(s) ==
    LET x == sending[s]
    IN  /\ x # Idle
        /\ Enqueue(x)
        /\ sending' = [sending EXCEPT
               ![s] = Enqueued(x, IF x.letter = 0 THEN Idle ELSE [x EXCEPT !.at = "xdel"])]
        /\ UNCHANGED <<delivered, pending, dlq, replies, consuming, sweeping, held,
                       used, buried, history, faults>>

ReplayEnd(s) ==
    LET letters == {d \in dlq : d.number = sending[s].letter}
    IN  /\ sending[s].at = "xdel"
        /\ dlq' = dlq \ letters
        /\ replayed' = replayed \cup {d.message : d \in {l \in letters : Accepted(sending[s].sent)}}
        /\ sending' = [sending EXCEPT ![s] = Idle]
        /\ UNCHANGED <<inbox, registry, meta, replies, consuming, sweeping, held,
                       used, buried, done, faults>>

-----------------------------------------------------------------------------
(* claim: XREADGROUP on each priority from the highest, each followed by   *)
(* the metadata of the entries it returned, while there is room.           *)

ClaimStart(c) ==
    /\ c \in setting.consumers
    /\ consuming[c] = Idle
    /\ consuming' = [consuming EXCEPT
          ![c] = [at |-> "claim", priority |-> TopPriority, todo |-> {},
                  room |-> setting.claimCount, got |-> {},
                  before |-> {e \in Queues \X (1 .. MaxEntries) :
                                 e[1][1] = setting.claimFor /\ e[2] \in Waiting(e[1])}]]
    /\ UNCHANGED <<inbox, registry, meta, dlq, replies, sending, sweeping, held,
                   used, buried, history, faults>>

(* XREADGROUP COUNT room: the first entries that wait become pending.      *)
ReadOne(q, room) == {i \in Waiting(q) : \A j \in Waiting(q) : i <= j} \* mutant
Read(q, room) ==
    {i \in Waiting(q) : Cardinality({j \in Waiting(q) : j <= i}) <= room}

(* Where the group stands after it has delivered these entries.            *)
SkipAll(q, entries)  == Len(streams[q])                           \* mutant
Position(q, entries) ==
    IF entries = {} THEN delivered[q]
    ELSE CHOOSE i \in entries : \A j \in entries : j <= i

ClaimRead(c) ==
    LET x == consuming[c]
        q == <<setting.claimFor, x.priority>>
        entries == Read(q, x.room)
    IN  /\ x.at = "claim" /\ x.todo = {}
        /\ x.priority > 0 /\ x.room > 0
        /\ pending' = [pending EXCEPT ![q] = @ \cup entries]
        /\ delivered' = [delivered EXCEPT ![q] = Position(q, entries)]
        /\ consuming' = [consuming EXCEPT
              ![c] = IF entries = {} THEN [x EXCEPT !.priority = x.priority - 1]
                     ELSE [x EXCEPT !.todo = entries]]
        /\ UNCHANGED <<streams, trimmed, registry, meta, dlq, replies, sending,
                       sweeping, held, used, buried, history, faults>>

ClaimMeta(c) ==
    LET x == consuming[c]
        i == First(x.todo)
        m == streams[<<setting.claimFor, x.priority>>][i].message
    IN  /\ x.at = "claim" /\ x.todo # {}
        /\ WriteMeta(m, "claimed", i)
        /\ consuming' = [consuming EXCEPT
              ![c] = [x EXCEPT !.todo = x.todo \ {i}, !.got = x.got \cup {m},
                               !.room = x.room - 1,
                               !.priority = IF x.todo = {i} THEN x.priority - 1
                                            ELSE x.priority]]
        /\ UNCHANGED <<inbox, registry, dlq, replies, sending, sweeping, held, used,
                       buried, history, faults>>

ClaimReturn(c) ==
    LET x == consuming[c]
    IN  /\ x.at = "claim" /\ x.todo = {}
        /\ x.priority = 0 \/ x.room = 0
        /\ held' = [held EXCEPT ![c] = @ \cup x.got]
        /\ consuming' = [consuming EXCEPT ![c] = Idle]
        /\ UNCHANGED <<inbox, registry, meta, dlq, replies, sending, sweeping, used,
                       buried, history, faults>>

-----------------------------------------------------------------------------
(* ack: the metadata is read, the entry it names is acknowledged, and the  *)
(* metadata is written back.  Without metadata it returns false.           *)

AckStart(c, m) ==
    /\ consuming[c] = Idle
    /\ m \in held[c]
    /\ held' = [held EXCEPT ![c] = @ \ {m}]
    /\ done' = done \cup {m}
    /\ consuming' = [consuming EXCEPT
          ![c] = [at |-> "getmeta", message |-> m, sent |-> NoMessage, entry |-> 0]]
    /\ UNCHANGED <<inbox, registry, meta, dlq, replies, sending, sweeping, used,
                   buried, replayed, faults>>

(* reply: the message must have metadata and not be expired; then the      *)
(* reply r is enqueued, the message acknowledged and the reply recorded.   *)
ReplyStart(c, m, r) ==
    /\ consuming[c] = Idle
    /\ m \in held[c] /\ meta[m] # NoMeta
    /\ r \notin used /\ ReplyTo[r] = m
    /\ used' = used \cup {r}
    /\ held' = [held EXCEPT ![c] = @ \ {m}]
    /\ done' = done \cup {m}
    /\ consuming' = [consuming EXCEPT
          ![c] = [at |-> "register", message |-> m, sent |-> r, entry |-> 0]]
    /\ UNCHANGED <<inbox, registry, meta, dlq, replies, sending, sweeping, buried,
                   replayed, faults>>

ReplyEnqueue(c) ==
    LET x == consuming[c]
    IN  /\ x.at \in {"register", "xadd", "meta"}
        /\ Enqueue(x)
        /\ consuming' = [consuming EXCEPT
               ![c] = Enqueued(x, [x EXCEPT !.at = "getmeta"])]
        /\ UNCHANGED <<delivered, pending, dlq, replies, sending, sweeping, held,
                       used, buried, history, faults>>

(* What follows the ack.                                                   *)
Answered(x) == IF x.sent = NoMessage THEN Idle ELSE [x EXCEPT !.at = "record"]

AckGetMeta(c) ==
    LET x == consuming[c]
    IN  /\ x.at = "getmeta"
        /\ consuming' = [consuming EXCEPT
              ![c] = IF meta[x.message] = NoMeta THEN Answered(x)
                     ELSE [x EXCEPT !.at = "xack", !.entry = meta[x.message].entry]]
        /\ UNCHANGED <<inbox, registry, meta, dlq, replies, sending, sweeping, held,
                       used, buried, history, faults>>

AckXAck(c) ==
    LET x == consuming[c]
    IN  /\ x.at = "xack"
        /\ XAck(QueueOf(x.message), x.entry)
        /\ consuming' = [consuming EXCEPT ![c] = [x EXCEPT !.at = "ackmeta"]]
        /\ UNCHANGED <<streams, trimmed, delivered, registry, meta, dlq, replies,
                       sending, sweeping, held, used, buried, history, faults>>

AckMeta(c) ==
    LET x == consuming[c]
    IN  /\ x.at = "ackmeta"
        /\ WriteMeta(x.message, "acked", x.entry)
        /\ consuming' = [consuming EXCEPT ![c] = Answered(x)]
        /\ UNCHANGED <<inbox, registry, dlq, replies, sending, sweeping, held, used,
                       buried, history, faults>>

RecordReplySwapped(c) ==              \* mutant: filed under the reply's own id
    LET x == consuming[c]
    IN  /\ x.at = "record"
        /\ replies' = [replies EXCEPT ![x.sent] = x.message]
        /\ consuming' = [consuming EXCEPT ![c] = Idle]
        /\ UNCHANGED <<inbox, registry, meta, dlq, sending, sweeping, held, used,
                       buried, history, faults>>

RecordReply(c) ==
    LET x == consuming[c]
    IN  /\ x.at = "record"
        /\ replies' = [replies EXCEPT ![x.message] = x.sent]
        /\ consuming' = [consuming EXCEPT ![c] = Idle]
        /\ UNCHANGED <<inbox, registry, meta, dlq, sending, sweeping, held, used,
                       buried, history, faults>>

-----------------------------------------------------------------------------
(* reclaimStuck on one stream of a registered inbox: XAUTOCLAIM takes the  *)
(* entries that have been idle too long, dropping those MAXLEN removed.    *)

SweepStart(s, q) ==
    /\ s \in setting.sweepers
    /\ sweeping[s] = Idle
    /\ q[1] \in registry
    /\ \E idle \in SUBSET pending[q] :
          LET alive == {i \in idle : i > trimmed[q]}
          IN  /\ idle # {}
              /\ pending' = [pending EXCEPT ![q] = @ \ (idle \ alive)]
              /\ sweeping' = [sweeping EXCEPT
                    ![s] = IF alive = {} THEN Idle
                           ELSE [at |-> "entry", queue |-> q, todo |-> alive,
                                 entry |-> First(alive), copy |-> 0]]
    /\ UNCHANGED <<streams, trimmed, delivered, registry, meta, dlq, replies,
                   sending, consuming, held, used, buried, history, faults>>

(* The call once the entry at hand is dealt with.                          *)
Swept(x) ==
    LET rest == x.todo \ {x.entry}
    IN  IF rest = {} THEN Idle
        ELSE [x EXCEPT !.at = "entry", !.todo = rest, !.entry = First(rest), !.copy = 0]

AtHand(x)      == streams[x.queue][x.entry]
SameAttempt(x) == AtHand(x).retryCount                            \* mutant
NextAttempt(x) == AtHand(x).retryCount + 1

(* An entry with retries left is added again, then acknowledged.           *)
SweepRetry(s) ==
    LET x == sweeping[s]
    IN  /\ x.at = "entry"
        /\ NextAttempt(x) <= setting.maxRetries
        /\ XAdd(x.queue, AtHand(x).message, NextAttempt(x))
        /\ sweeping' = [sweeping EXCEPT
              ![s] = [x EXCEPT !.at = "xack", !.copy = Len(streams[x.queue]) + 1]]
        /\ UNCHANGED <<delivered, pending, registry, meta, dlq, replies, sending,
                       consuming, held, used, buried, history, faults>>

SweepXAck(s) ==
    LET x == sweeping[s]
    IN  /\ x.at = "xack"
        /\ XAck(x.queue, x.entry)
        /\ sweeping' = [sweeping EXCEPT ![s] = [x EXCEPT !.at = "meta"]]
        /\ UNCHANGED <<streams, trimmed, delivered, registry, meta, dlq, replies,
                       sending, consuming, held, used, buried, history, faults>>

SweepMeta(s) ==
    LET x == sweeping[s]
    IN  /\ x.at = "meta"
        /\ WriteMeta(AtHand(x).message, "queued", x.copy)
        /\ sweeping' = [sweeping EXCEPT ![s] = Swept(x)]
        /\ UNCHANGED <<inbox, registry, dlq, replies, sending, consuming, held, used,
                       buried, history, faults>>

(* One without is dead-lettered and acknowledged in one MULTI, then its    *)
(* metadata is read and written back.                                      *)
BuryNowhere(m) == dlq' = dlq                                      \* mutant
Bury(m) == dlq' = dlq \cup {[number |-> buried + 1, message |-> m]}

SweepBury(s) ==
    LET x == sweeping[s]
    IN  /\ x.at = "entry"
        /\ NextAttempt(x) > setting.maxRetries
        /\ buried' = buried + 1
        /\ Bury(AtHand(x).message)
        /\ XAck(x.queue, x.entry)
        /\ sweeping' = [sweeping EXCEPT ![s] = [x EXCEPT !.at = "getmeta"]]
        /\ UNCHANGED <<streams, trimmed, delivered, registry, meta, replies, sending,
                       consuming, held, used, history, faults>>

SweepGetMeta(s) ==
    LET x == sweeping[s]
        m == AtHand(x).message
    IN  /\ x.at = "getmeta"
        /\ sweeping' = [sweeping EXCEPT
              ![s] = IF meta[m] = NoMeta THEN Swept(x)
                     ELSE [x EXCEPT !.at = "deadmeta", !.copy = meta[m].entry]]
        /\ UNCHANGED <<inbox, registry, meta, dlq, replies, sending, consuming, held,
                       used, buried, history, faults>>

SweepDeadMeta(s) ==
    LET x == sweeping[s]
    IN  /\ x.at = "deadmeta"
        /\ WriteMeta(AtHand(x).message, "dead_letter", x.copy)
        /\ sweeping' = [sweeping EXCEPT ![s] = Swept(x)]
        /\ UNCHANGED <<inbox, registry, dlq, replies, sending, consuming, held, used,
                       buried, history, faults>>

-----------------------------------------------------------------------------
(* A caller, or the server running its call, dies; what it had been handed *)
(* dies with it.                                                           *)
CrashSender(s) ==
    /\ sending[s] # Idle
    /\ sending' = [sending EXCEPT ![s] = Idle]
    /\ UNCHANGED <<consuming, sweeping, held, meta>>

CrashConsumer(c) ==
    /\ consuming[c] # Idle \/ held[c] # {}
    /\ consuming' = [consuming EXCEPT ![c] = Idle]
    /\ held' = [held EXCEPT ![c] = {}]
    /\ UNCHANGED <<sending, sweeping, meta>>

CrashSweeper(s) ==
    /\ sweeping[s] # Idle
    /\ sweeping' = [sweeping EXCEPT ![s] = Idle]
    /\ UNCHANGED <<sending, consuming, held, meta>>

(* Metadata lives for SPANOAI_OPS_TTL_SECONDS after it was written.        *)
ExpireMeta(m) ==
    /\ meta[m] # NoMeta
    /\ meta' = [meta EXCEPT ![m] = NoMeta]
    /\ UNCHANGED calls

Fault ==
    /\ faults < setting.maxFaults
    /\ faults' = faults + 1
    /\ \/ \E s \in Senders : CrashSender(s)
       \/ \E c \in Consumers : CrashConsumer(c)
       \/ \E s \in Sweepers : CrashSweeper(s)
       \/ \E m \in Messages : ExpireMeta(m)
    /\ UNCHANGED <<inbox, registry, dlq, replies, used, buried, history>>

Init ==
    /\ setting \in Settings
    /\ streams = [q \in Queues |-> << >>]
    /\ trimmed = [q \in Queues |-> 0]
    /\ delivered = [q \in Queues |-> 0]
    /\ pending = [q \in Queues |-> {}]
    /\ registry = {}
    /\ meta = [m \in Messages |-> NoMeta]
    /\ dlq = {}
    /\ replies = [m \in Messages |-> NoMessage]
    /\ sending = [s \in Senders |-> Idle]
    /\ consuming = [c \in Consumers |-> Idle]
    /\ sweeping = [s \in Sweepers |-> Idle]
    /\ held = [c \in Consumers |-> {}]
    /\ used = Messages \ setting.messages
    /\ buried = 0
    /\ done = {} /\ replayed = {}
    /\ faults = 0

ConsumerStep(c) ==
    \/ ClaimStart(c) \/ ClaimRead(c) \/ ClaimMeta(c) \/ ClaimReturn(c)
    \/ ReplyEnqueue(c)
    \/ AckGetMeta(c) \/ AckXAck(c) \/ AckMeta(c) \/ RecordReply(c)

SweeperStep(s) ==
    \/ \E q \in Queues : SweepStart(s, q)
    \/ SweepRetry(s) \/ SweepXAck(s) \/ SweepMeta(s)
    \/ SweepBury(s) \/ SweepGetMeta(s) \/ SweepDeadMeta(s)

Step ==
    \/ \E s \in Senders, m \in Messages : Dispatch(s, m) \/ ReplayStart(s, m)
    \/ \E s \in Senders : Send(s) \/ ReplayEnd(s)
    \/ \E c \in Consumers : ConsumerStep(c)
    \/ \E c \in Consumers, m \in Messages : AckStart(c, m)
    \/ \E c \in Consumers, m, r \in Messages : ReplyStart(c, m, r)
    \/ \E s \in Sweepers : SweeperStep(s)
    \/ Fault

Next == Step /\ UNCHANGED setting

Spec == Init /\ [][Next]_vars

(* Agents poll, the sweeper runs on an interval, and a call, once made, is *)
(* carried through unless its process dies.                                *)
Fairness ==
    /\ \A s \in Senders : WF_vars((Send(s) \/ ReplayEnd(s)) /\ UNCHANGED setting)
    /\ \A c \in Consumers : WF_vars(ConsumerStep(c) /\ UNCHANGED setting)
    /\ \A s \in Sweepers : WF_vars(SweeperStep(s) /\ UNCHANGED setting)

FairSpec == Spec /\ Fairness

-----------------------------------------------------------------------------
(* Properties.                                                             *)

(* Every variable has its type.                                            *)
TypeOK ==
    /\ setting \in Settings
    /\ streams \in [Queues -> Seq(StreamEntry)]
    /\ trimmed \in [Queues -> Nat]
    /\ delivered \in [Queues -> Nat]
    /\ pending \in [Queues -> SUBSET Nat]
    /\ registry \in SUBSET Agents
    /\ meta \in [Messages -> Meta \cup {NoMeta}]
    /\ dlq \in SUBSET Letter
    /\ replies \in [Messages -> Messages \cup {NoMessage}]
    /\ sending \in [Senders -> Sending \cup {Idle}]
    /\ consuming \in [Consumers -> Claiming \cup Answering \cup {Idle}]
    /\ sweeping \in [Sweepers -> Sweeping \cup {Idle}]
    /\ held \in [Consumers -> SUBSET Messages]
    /\ used \in SUBSET Messages
    /\ buried \in Nat
    /\ done \in SUBSET Messages
    /\ replayed \in SUBSET Messages
    /\ faults \in Nat

IsOpen(m)   == \E q \in Queues : \E i \in Open(q) : streams[q][i].message = m
IsSettled(m) == m \in done \cup replayed \/ InDlq(m)

(* At-least-once: a message in the stream is delivered or deliverable      *)
(* until a consumer has finished its work or it is a dead letter, whoever  *)
(* crashes between whichever two commands and however acks, sweeps and     *)
(* replays interleave.                                                     *)
NothingIsLost == \A m \in Messages : Accepted(m) => IsOpen(m) \/ IsSettled(m)

(* The same as a refinement: the bus implements the abstract queue of      *)
(* AtLeastOnce, in which what is owed can only be settled.                 *)
Delivery == INSTANCE AtLeastOnce WITH
    custody <- [m \in Messages |-> IF IsSettled(m) THEN "settled"
                                   ELSE IF IsOpen(m) THEN "owed" ELSE "none"]
ImplementsDelivery == Delivery!Spec

(* And it settles everything: what is owed is finished or dead-lettered in *)
(* the end, even if no consumer ever acknowledges anything.                *)
EverythingSettles == Delivery!EverythingSettles

(* While sweeps do not overlap and nothing crashes, a message is delivered *)
(* at most maxRetries times more than once, and dead-lettered at most      *)
(* once, however late its consumers answer.                                *)
DeliveryBudget ==
    (Cardinality(setting.sweepers) <= 1 /\ faults = 0) => \A m \in Messages :
        /\ Cardinality({p \in Queues \X (1 .. MaxEntries) :
                           /\ p[2] \in DOMAIN streams[p[1]]
                           /\ streams[p[1]][p[2]].message = m}) <= setting.maxRetries + 1
        /\ Cardinality({d \in dlq : d.message = m}) <= 1

(* A claim never passes over an entry: whatever waited when it began and   *)
(* still waits is of no higher priority than anything it returns.          *)
ClaimTakesHighest ==
    \A c \in Consumers : consuming[c].at = "claim" =>
        \A e \in consuming[c].before, g \in consuming[c].got :
            e[2] \in Waiting(e[1]) => e[1][2] <= PriorityOf[g]

(* What awaitReply finds for a message is an answer to it, already in the  *)
(* asker's inbox, of a consumer that finished the work.                    *)
RecordedReplyAnswers ==
    \A m \in Messages : replies[m] # NoMessage =>
        ReplyTo[replies[m]] = m /\ Accepted(replies[m]) /\ m \in done
=============================================================================
