------------------------------ MODULE LiveEvents ------------------------------
(***************************************************************************)
(* Live events of one session: ws-broadcaster.ts, the stream route of      *)
(* api/app.ts and the reconnecting stream of the TypeScript SDK.           *)
(*                                                                         *)
(* broadcast numbers an event, appends it to the replay buffer and         *)
(* publishes it, in three round trips.  A server subscribes to the         *)
(* session's channel for all its listeners over one connection, on which   *)
(* answers and events arrive in order.  Listeners are calls of awaitKey    *)
(* and the stream's sockets; a listener is not used again once it is over. *)
(***************************************************************************)
EXTENDS Integers, Sequences, FiniteSets

CONSTANTS
    FullKeys,
    Waiters,        \* calls of awaitKey
    Sockets,        \* connections of the stream client, one after another
    BufferSize      \* SPANOAI_WS_BUFFER_SIZE

NoSocket  == "none"
Listeners == Waiters \cup Sockets

ASSUME LiveConstants ==
    BufferSize \in Nat \ {0} /\ Waiters \cap Sockets = {} /\ NoSocket \notin Listeners

VARIABLES
    counter,        \* the session's seq key
    buffer,         \* the replay buffer
    broadcasts,     \* broadcasts between their round trips
    handlers,       \* the channel's listeners on the server
    channelTaken,   \* whether subscribedChannels has the channel
    commands,       \* (UN)SUBSCRIBEs sent and not yet executed
    subscribed,     \* whether Redis sends the server the channel's events
    arriving,       \* events and answers on their way to the server
    listening,      \* how far each listener is
    client,         \* the stream client
    mishaps         \* history: what happened to the events

pubsub   == <<handlers, channelTaken, commands, subscribed, arriving, listening>>
liveVars == <<counter, buffer, broadcasts, pubsub, client, mishaps>>

Event     == [fullKey : FullKeys, seq : Nat \ {0}]
Broadcast == [at : {"buffer", "publish"}, event : Event]
Command   == [do : {"subscribe", "unsubscribe"}, of : Listeners]

-----------------------------------------------------------------------------
(* broadcast.  It is not awaited by its caller.                            *)

Emit(k) ==
    /\ counter' = counter + 1
    /\ broadcasts' = broadcasts \cup
          {[at |-> "buffer", event |-> [fullKey |-> k, seq |-> counter + 1]]}
    /\ mishaps' = mishaps \cup (IF broadcasts = {} THEN {} ELSE {"overlap"})
    /\ UNCHANGED <<buffer, pubsub, client>>

(* RPUSH and LTRIM.  The mutant does not trim.                             *)
Untrimmed(s, n) == s
Last(s, n) == SubSeq(s, IF Len(s) > n THEN Len(s) - n + 1 ELSE 1, Len(s))

Record(b) ==
    /\ b.at = "buffer"
    /\ buffer' = Last(Append(buffer, b.event), BufferSize)
    /\ broadcasts' = (broadcasts \ {b}) \cup {[b EXCEPT !.at = "publish"]}
    /\ UNCHANGED <<counter, pubsub, client, mishaps>>

Publish(b) ==
    /\ b.at = "publish"
    /\ broadcasts' = broadcasts \ {b}
    /\ arriving' = IF subscribed THEN Append(arriving, b.event) ELSE arriving
    /\ UNCHANGED <<counter, buffer, handlers, channelTaken, commands, subscribed,
                   listening, client, mishaps>>

(* Redis fails or the server dies between two of them; errors are          *)
(* swallowed.                                                              *)
Lose(b) ==
    /\ broadcasts' = broadcasts \ {b}
    /\ mishaps' = mishaps \cup {"loss"}
    /\ UNCHANGED <<counter, buffer, pubsub, client>>

(* The buffer expires when nothing was broadcast for a while.              *)
BufferLapse ==
    /\ buffer # << >>
    /\ buffer' = << >>
    /\ mishaps' = mishaps \cup {"lapse"}
    /\ UNCHANGED <<counter, broadcasts, pubsub, client>>

-----------------------------------------------------------------------------
(* subscribe and the function it returns.                                  *)

Subscribe(l) ==
    /\ listening[l] = "new"
    /\ handlers' = handlers \cup {l}
    /\ IF channelTaken
       THEN /\ listening' = [listening EXCEPT ![l] = "on"]
            /\ commands' = commands
       ELSE /\ listening' = [listening EXCEPT ![l] = "subscribing"]
            /\ commands' = Append(commands, [do |-> "subscribe", of |-> l])
    /\ UNCHANGED <<channelTaken, subscribed, arriving>>

(* The mutant leaves the channel in subscribedChannels.                    *)
UnsubscribeQuietly(l) ==
    /\ listening[l] = "on"
    /\ handlers' = handlers \ {l}
    /\ listening' = [listening EXCEPT ![l] = "off"]
    /\ commands' = IF handlers' = {}
                   THEN Append(commands, [do |-> "unsubscribe", of |-> l])
                   ELSE commands
    /\ UNCHANGED <<channelTaken, subscribed, arriving>>

Unsubscribe(l) ==
    /\ listening[l] = "on"
    /\ handlers' = handlers \ {l}
    /\ listening' = [listening EXCEPT ![l] = "off"]
    /\ IF handlers' = {}
       THEN /\ channelTaken' = FALSE
            /\ commands' = Append(commands, [do |-> "unsubscribe", of |-> l])
       ELSE UNCHANGED <<channelTaken, commands>>
    /\ UNCHANGED <<subscribed, arriving>>

(* Redis executes the connection's next command and answers it.            *)
Execute ==
    /\ commands # << >>
    /\ subscribed' = (Head(commands).do = "subscribe")
    /\ arriving' = Append(arriving, Head(commands))
    /\ commands' = Tail(commands)
    /\ UNCHANGED <<counter, buffer, broadcasts, handlers, channelTaken, listening,
                   client, mishaps>>
-----------------------------------------------------------------------------
(* What arrives at the server.                                             *)

IsAnswer(m) == m \in Command

(* subscribe goes on after its await.  The answer to an unsubscribe is     *)
(* waited for, and nothing else.                                           *)
TakeAnswer ==
    /\ arriving # << >> /\ IsAnswer(Head(arriving))
    /\ LET c == Head(arriving)
       IN  IF c.do = "subscribe"
           THEN /\ channelTaken' = TRUE
                /\ listening' = [listening EXCEPT ![c.of] =
                                    IF @ = "subscribing" THEN "on" ELSE @]
           ELSE UNCHANGED <<channelTaken, listening>>
    /\ arriving' = Tail(arriving)
    /\ UNCHANGED <<counter, buffer, broadcasts, handlers, commands, subscribed,
                   client, mishaps>>

(* The handler of a socket sends the event on; the client notes its seq.   *)
Noted(e) == [client EXCEPT !.seen = @ \cup {e.seq}, !.lastSeq = e.seq]

TakeEvent ==
    /\ arriving # << >> /\ ~IsAnswer(Head(arriving))
    /\ client' = IF client.socket \in handlers THEN Noted(Head(arriving)) ELSE client
    /\ arriving' = Tail(arriving)
    /\ UNCHANGED <<counter, buffer, broadcasts, handlers, channelTaken, commands,
                   subscribed, listening, mishaps>>

-----------------------------------------------------------------------------
(* The stream.  A client that has seen no event yet asks for none.         *)

Connect(x) ==
    /\ client.at = "down"
    /\ client' = [client EXCEPT !.at = "opening", !.socket = x, !.asked = client.lastSeq]
    /\ Subscribe(x)
    /\ UNCHANGED <<counter, buffer, broadcasts, mishaps>>

(* getMissed.                                                              *)
NeverReload(asked) == FALSE                                        \* mutant
NeedsReload(asked) == asked + 1 < buffer[1].seq

Missed(asked) ==
    IF buffer = << >> THEN {}
    ELSE IF NeedsReload(asked) THEN 1 .. counter       \* from the audit log
    ELSE {n \in 1 .. counter : n > asked /\ \E i \in DOMAIN buffer : buffer[i].seq = n}

(* A client is owed the events numbered after the one it first asks from,  *)
(* or from now on if it asks for nothing; first is the first of them.      *)
Resync ==
    /\ client.at = "opening" /\ listening[client.socket] = "on"
    /\ client' = IF client.asked = 0
                 THEN [client EXCEPT !.at = "up", !.first = counter + 1]
                 ELSE [client EXCEPT !.at = "up", !.seen = @ \cup Missed(client.asked),
                                     !.first = IF @ = 0 THEN client.asked + 1 ELSE @]
    /\ UNCHANGED <<counter, buffer, broadcasts, pubsub, mishaps>>

(* An event that was noted before the resync counts as the last one seen.  *)
Disconnect ==
    /\ client.at # "down"
    /\ client' = [client EXCEPT !.at = "down", !.socket = NoSocket]
    /\ mishaps' = IF client.at = "opening" /\ client.lastSeq # client.asked
                  THEN mishaps \cup {"skip"} ELSE mishaps
    /\ UNCHANGED <<counter, buffer, broadcasts, pubsub>>

(* onClose can unsubscribe only once subscribe has returned: the handler   *)
(* of a socket that closes earlier stays.                                  *)
OnClose(x) ==
    /\ client.socket # x
    /\ \/ Unsubscribe(x)
       \/ /\ listening[x] = "subscribing"
          /\ listening' = [listening EXCEPT ![x] = "left"]
          /\ UNCHANGED <<handlers, channelTaken, commands, subscribed, arriving>>
    /\ UNCHANGED <<counter, buffer, broadcasts, client, mishaps>>

LiveInit ==
    /\ counter = 0 /\ buffer = << >> /\ broadcasts = {} /\ mishaps = {}
    /\ handlers = {} /\ channelTaken = FALSE
    /\ commands = << >> /\ subscribed = FALSE /\ arriving = << >>
    /\ listening = [l \in Listeners |-> "new"]
    /\ client = [at |-> "down", socket |-> NoSocket, asked |-> 0, lastSeq |-> 0,
                 first |-> 0, seen |-> {}]

-----------------------------------------------------------------------------
(* Properties.                                                             *)

LiveTypeOK ==
    /\ counter \in Nat
    /\ buffer \in Seq(Event) /\ Len(buffer) <= BufferSize
    /\ broadcasts \subseteq Broadcast
    /\ handlers \subseteq Listeners
    /\ channelTaken \in BOOLEAN /\ subscribed \in BOOLEAN
    /\ commands \in Seq(Command)
    /\ arriving \in Seq(Event \cup Command)
    /\ listening \in [Listeners -> {"new", "subscribing", "on", "off", "left"}]
    /\ client \in [at : {"down", "opening", "up"}, socket : Sockets \cup {NoSocket},
                   asked : Nat, lastSeq : Nat, first : Nat, seen : SUBSET Nat]
    /\ mishaps \subseteq {"overlap", "loss", "lapse", "skip"}

(* A listener whose subscribe has returned is served until it              *)
(* unsubscribes: Redis sends the server its events, whichever other        *)
(* listeners of the session come and go meanwhile.                         *)
ListenersAreServed ==
    \A l \in Listeners : listening[l] = "on" => subscribed /\ l \in handlers

(* The stream recovers its gaps: once it is connected and nothing is on    *)
(* its way, a client has seen or reloaded every event it is owed, however  *)
(* often it reconnected, unless broadcasts overlapped, one was lost, the   *)
(* buffer expired, or a connection fell between an event and the resync.   *)
IsUpToDate ==
    (client.at = "up" /\ broadcasts = {} /\ arriving = << >>) =>
        client.first .. counter \subseteq client.seen
GapIsRecovered == mishaps = {} => IsUpToDate

(* A statement of the documentation that the code does not keep.           *)

(* "Transparently reconnects with gap recovery so you don't miss events"   *)
(* (sdk.mdx), whatever connections fall and writers overlap.               *)
NoEventIsMissed == mishaps \subseteq {"overlap", "skip"} => IsUpToDate
=============================================================================
