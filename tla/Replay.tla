------------------------------- MODULE Replay -------------------------------
(***************************************************************************)
(* One topic name, its list of recent messages in Redis, and the           *)
(* subscribers that ask for the last messages while others are being       *)
(* published: internal/storage/redis.go, Broker.PublishMessage,            *)
(* Topic.PublishMessage and handleSubscribe.  The topic is deleted and     *)
(* created anew and the server (cmd/server/main.go) restarts meanwhile;    *)
(* the list in Redis outlives both.                                        *)
(*                                                                         *)
(* A message m is <<p, n>>, the n-th of publisher p.  The n-th topic made  *)
(* under the name is the object n; as in Broker, a goroutine may hold one  *)
(* that is no longer in the map.  SendMessage is one step (its own steps   *)
(* are in Subscriber), and so is a deletion (its locks, and the panics     *)
(* that cut it, are in Broker).  The seven days after which Redis drops an *)
(* idle list are longer than any behaviour here.                           *)
(***************************************************************************)
EXTENDS Integers, Sequences, FiniteSets, SequencesExt

CONSTANTS
  Publishers,
  Subscribers,
  QueueSize,       \* SubscriberQueueSize
  ReplaySize,      \* replaySize of RedisStorage
  LastN,           \* lastNMessages of every subscribe
  MaxPublishes,    \* bound: messages of one publisher
  MaxTopics,       \* bound: topics ever created under the name
  MaxRestarts,     \* bound: restarts of the server
  Torn,            \* what a read sees of a variable that is being assigned
  NoMessage

Messages == Publishers \X (1..MaxPublishes)
Objects == 1..MaxTopics

ASSUME SizesAssumption ==
  /\ {QueueSize, ReplaySize, LastN} \subseteq Nat \ {0}
  /\ {MaxPublishes, MaxTopics, MaxRestarts} \subseteq Nat
  /\ Publishers \cap Subscribers = {}
  /\ {Torn, NoMessage} \cap Messages = {}

VARIABLES
  list,       \* the Redis list of the topic, newest first
  log,        \* history: every element ever pushed, oldest first
  at,         \* where the handler of each client is
  serial,     \* messages published so far, per publisher
  on,         \* the object each message is published on, 0 for none yet
  todo,       \* subscribers a fan-out has still to send to
  topic,      \* the object the name leads to, 0 for none
  created,    \* objects made so far
  restarts,   \* restarts of the server so far
  members,    \* the subscribers of each object
  joined,     \* the object a subscriber holds, 0 for none
  isClosed,
  queue,      \* messageQueue of each subscriber
  replay,     \* replayMessages not sent yet
  loopVar,    \* the variable message of the loop over replayMessages
  received,   \* what has been written to each subscriber, as a set
  reached,    \* history: messages a fan-out queued for each subscriber
  window,     \* history: what each subscriber's read of the list returned
  floor,      \* history: how much of log each subscriber was too late for
  published   \* history: messages whose publish was acknowledged

topicVars == <<topic, created, restarts>>
memberVars == <<members, joined>>
publishVars == <<serial, on, todo, published>>
readVars == <<replay, window, floor>>
vars == <<list, log, at, topicVars, memberVars, isClosed, queue, loopVar,
          received, reached, publishVars, readVars>>

Smaller(a, b) == IF a < b THEN a ELSE b
Goto(g, label) == at' = [at EXCEPT ![g] = label]
Current(p) == <<p, serial[p]>>

\* What a queue holds: a message, a pointer to the loop variable, an answer,
\* the notice of a deletion.
Live(m) == <<"live", m>>
Replayed == <<"replay", NoMessage>>
Ack == <<"ack", NoMessage>>
Notice == <<"deleted", NoMessage>>
Entries == {Live(m) : m \in Messages} \cup {Replayed, Ack, Notice}

\* Every goroutine at its beginning.
AtStart == [g \in Publishers \cup Subscribers |->
              IF g \in Publishers THEN "idle" ELSE "out"]

Init ==
  /\ list = <<>>
  /\ log = <<>>
  /\ at = AtStart
  /\ serial = [p \in Publishers |-> 0]
  /\ on = [m \in Messages |-> 0]
  /\ todo = [p \in Publishers |-> {}]
  /\ topic = 0
  /\ created = 0
  /\ restarts = 0
  /\ members = [o \in Objects |-> {}]
  /\ joined = [s \in Subscribers |-> 0]
  /\ isClosed = [s \in Subscribers |-> FALSE]
  /\ queue = [s \in Subscribers |-> <<>>]
  /\ replay = [s \in Subscribers |-> <<>>]
  /\ loopVar = [s \in Subscribers |-> NoMessage]
  /\ received = [s \in Subscribers |-> {}]
  /\ reached = [s \in Subscribers |-> {}]
  /\ window = [s \in Subscribers |-> {}]
  /\ floor = [s \in Subscribers |-> 0]
  /\ published = {}

-----------------------------------------------------------------------------
(* SendMessage                                                             *)

Shut(s) ==
  /\ isClosed' = [isClosed EXCEPT ![s] = TRUE]
  /\ queue' = [queue EXCEPT ![s] = <<>>]

\* Variation of Queued: a send that does not stop at the capacity.
QueuedUnbounded(s, entry) ==
  /\ ~isClosed[s]
  /\ queue' = [queue EXCEPT ![s] = Append(@, entry)]
  /\ UNCHANGED isClosed

Queued(s, entry) ==
  /\ ~isClosed[s]
  /\ Len(queue[s]) < QueueSize
  /\ queue' = [queue EXCEPT ![s] = Append(@, entry)]
  /\ UNCHANGED isClosed

\* SendMessage returns FALSE: closed already, or closed for being slow.
Rejected(s) ==
  \/ isClosed[s] /\ UNCHANGED <<isClosed, queue>>
  \/ ~isClosed[s] /\ Len(queue[s]) = QueueSize /\ Shut(s)

\* SendMessage may panic, if the subscriber is closed under it or its error
\* frame meets another write.
Panics(s) == isClosed[s] \/ Len(queue[s]) = QueueSize

-----------------------------------------------------------------------------
(* Publishing                                                              *)

\* GetTopic; a publish that finds no topic ends there.
Publish(p) ==
  /\ at[p] = "idle"
  /\ serial[p] < MaxPublishes
  /\ topic # 0
  /\ serial' = [serial EXCEPT ![p] = @ + 1]
  /\ on' = [on EXCEPT ![<<p, serial'[p]>>] = topic]
  /\ Goto(p, "push")
  /\ UNCHANGED <<list, log, topicVars, memberVars, isClosed, queue, loopVar,
                 received, reached, todo, published, readVars>>

\* LPUSH adds the message, or adds it once more, when the client library
\* repeats a command whose answer got lost.
Push(p) ==
  /\ at[p] = "push"
  /\ \E copies \in {1, 2} :
       /\ list' = [i \in 1..copies |-> Current(p)] \o list
       /\ log' = log \o [i \in 1..copies |-> Current(p)]
  /\ Goto(p, "trim")
  /\ UNCHANGED <<topicVars, memberVars, isClosed, queue, loopVar, received,
                 reached, publishVars, readVars>>

\* Variation of PushFails: the error of SaveMessage is passed over.
PushFailsUnnoticed(p) ==
  /\ at[p] = "push"
  /\ \/ UNCHANGED <<list, log>>
     \/ list' = <<Current(p)>> \o list /\ log' = Append(log, Current(p))
  /\ Goto(p, "snapshot")
  /\ UNCHANGED <<topicVars, memberVars, isClosed, queue, loopVar, received,
                 reached, publishVars, readVars>>

\* LPUSH reports an error, which does not tell whether it was executed.
PushFails(p) ==
  /\ at[p] = "push"
  /\ \/ UNCHANGED <<list, log>>
     \/ list' = <<Current(p)>> \o list /\ log' = Append(log, Current(p))
  /\ Goto(p, "idle")
  /\ UNCHANGED <<topicVars, memberVars, isClosed, queue, loopVar, received,
                 reached, serial, on, todo, published, readVars>>

\* Variation of Trim: the end of the range is taken as exclusive.
TrimShort(p) ==
  /\ at[p] = "trim"
  /\ list' = SubSeq(list, 1, Smaller(ReplaySize - 1, Len(list)))
  /\ Goto(p, "snapshot")
  /\ UNCHANGED <<log, topicVars, memberVars, isClosed, queue, loopVar,
                 received, reached, publishVars, readVars>>

Trim(p) ==
  /\ at[p] = "trim"
  /\ list' = SubSeq(list, 1, Smaller(ReplaySize, Len(list)))
  /\ Goto(p, "snapshot")
  /\ UNCHANGED <<log, topicVars, memberVars, isClosed, queue, loopVar,
                 received, reached, publishVars, readVars>>

\* LTRIM reports an error; the message stays in the list.
TrimFails(p) ==
  /\ at[p] = "trim"
  /\ \/ UNCHANGED list
     \/ list' = SubSeq(list, 1, Smaller(ReplaySize, Len(list)))
  /\ Goto(p, "idle")
  /\ UNCHANGED <<log, topicVars, memberVars, isClosed, queue, loopVar,
                 received, reached, serial, on, todo, published, readVars>>

\* Variation of Snapshot: only acknowledged subscribers are sent to.
SnapshotAcknowledged(p) ==
  /\ at[p] = "snapshot"
  /\ todo' = [todo EXCEPT ![p] = {s \in members[on[Current(p)]] :
                                       at[s] = "subscribed"}]
  /\ Goto(p, "fanout")
  /\ UNCHANGED <<list, log, topicVars, memberVars, isClosed, queue, loopVar,
                 received, reached, serial, on, published, readVars>>

\* Variation of Snapshot: the topic is looked up again, by its name.
SnapshotByName(p) ==
  /\ at[p] = "snapshot"
  /\ todo' = [todo EXCEPT ![p] = IF topic = 0 THEN {} ELSE members[topic]]
  /\ Goto(p, "fanout")
  /\ UNCHANGED <<list, log, topicVars, memberVars, isClosed, queue, loopVar,
                 received, reached, serial, on, published, readVars>>

\* The members of the object found at the beginning.
Snapshot(p) ==
  /\ at[p] = "snapshot"
  /\ todo' = [todo EXCEPT ![p] = members[on[Current(p)]]]
  /\ Goto(p, "fanout")
  /\ UNCHANGED <<list, log, topicVars, memberVars, isClosed, queue, loopVar,
                 received, reached, serial, on, published, readVars>>

Send(p, s) ==
  /\ at[p] = "fanout"
  /\ s \in todo[p]
  /\ todo' = [todo EXCEPT ![p] = @ \ {s}]
  /\ \/ /\ Queued(s, Live(Current(p)))
        /\ reached' = [reached EXCEPT ![s] = @ \cup {Current(p)}]
     \/ /\ Rejected(s)
        /\ UNCHANGED reached
  /\ UNCHANGED <<list, log, at, topicVars, memberVars, loopVar, received,
                 serial, on, published, readVars>>

\* The panic ends the publisher's own connection.
SendPanics(p, s) ==
  /\ at[p] = "fanout"
  /\ s \in todo[p]
  /\ Panics(s)
  /\ todo' = [todo EXCEPT ![p] = {}]
  /\ Goto(p, "gone")
  /\ UNCHANGED <<list, log, topicVars, memberVars, isClosed, queue, loopVar,
                 received, reached, serial, on, published, readVars>>

PublishDone(p) ==
  /\ at[p] = "fanout"
  /\ todo[p] = {}
  /\ published' = published \cup {Current(p)}
  /\ Goto(p, "idle")
  /\ UNCHANGED <<list, log, topicVars, memberVars, isClosed, queue, loopVar,
                 received, reached, serial, on, todo, readVars>>

-----------------------------------------------------------------------------
(* Subscribing                                                             *)

Lookup(s) ==
  /\ at[s] = "out"
  /\ topic # 0
  /\ joined' = [joined EXCEPT ![s] = topic]
  /\ Goto(s, "found")
  /\ UNCHANGED <<list, log, topicVars, members, isClosed, queue, loopVar,
                 received, reached, publishVars, readVars>>

Join(s) ==
  /\ at[s] = "found"
  /\ members' = [members EXCEPT ![joined[s]] = @ \cup {s}]
  /\ Goto(s, "joined")
  /\ UNCHANGED <<list, log, topicVars, joined, isClosed, queue, loopVar,
                 received, reached, publishVars, readVars>>

\* GetReplayMessages: LRANGE 0 LastN-1, turned around.
Read(s) ==
  LET got == SubSeq(list, 1, Smaller(LastN, Len(list))) IN
  /\ at[s] = "joined"
  /\ replay' = [replay EXCEPT ![s] = Reverse(got)]
  /\ window' = [window EXCEPT ![s] = ToSet(got)]
  /\ floor' = [floor EXCEPT ![s] = Len(log) - Smaller(LastN, ReplaySize)]
  /\ Goto(s, "replaying")
  /\ UNCHANGED <<list, log, topicVars, memberVars, isClosed, queue, loopVar,
                 received, reached, publishVars>>

\* An error of LRANGE is passed over: there is nothing to replay.
ReadFails(s) ==
  /\ at[s] = "joined"
  /\ floor' = [floor EXCEPT ![s] = Len(log)]
  /\ Goto(s, "replaying")
  /\ UNCHANGED <<list, log, topicVars, memberVars, isClosed, queue, loopVar,
                 received, reached, publishVars, replay, window>>

\* One variable serves all turns of the loop (Go 1.21), and its address is
\* what goes into the queue: the assignment races with writeLoop.
ReplayAssign(s) ==
  /\ at[s] = "replaying"
  /\ replay[s] # <<>>
  /\ loopVar' = [loopVar EXCEPT ![s] = Torn]
  /\ Goto(s, "assigning")
  /\ UNCHANGED <<list, log, topicVars, memberVars, isClosed, queue, received,
                 reached, publishVars, readVars>>

ReplaySend(s) ==
  /\ at[s] = "assigning"
  /\ loopVar' = [loopVar EXCEPT ![s] = Head(replay[s])]
  /\ replay' = [replay EXCEPT ![s] = Tail(@)]
  /\ Queued(s, Replayed) \/ Rejected(s)
  /\ Goto(s, "replaying")
  /\ UNCHANGED <<list, log, topicVars, memberVars, received, reached,
                 publishVars, window, floor>>

Acknowledge(s) ==
  /\ at[s] = "replaying"
  /\ replay[s] = <<>>
  /\ Queued(s, Ack) \/ Rejected(s)
  /\ Goto(s, "subscribed")
  /\ UNCHANGED <<list, log, topicVars, memberVars, loopVar, received, reached,
                 publishVars, readVars>>

\* cleanupSubscriber, after a failed read of the connection or a panic in
\* one of the sends above.  It looks the topic up by its name.
Leave(s) ==
  /\ \/ at[s] = "subscribed"
     \/ /\ \/ at[s] = "assigning"
           \/ at[s] = "replaying" /\ replay[s] = <<>>
        /\ Panics(s)
  /\ members' = [o \in Objects |-> IF o = topic THEN members[o] \ {s}
                                                ELSE members[o]]
  /\ Shut(s)
  /\ replay' = [replay EXCEPT ![s] = <<>>]
  /\ Goto(s, "gone")
  /\ UNCHANGED <<list, log, topicVars, joined, loopVar, received, reached,
                 publishVars, window, floor>>

-----------------------------------------------------------------------------
(* writeLoop                                                               *)

\* A pointer is followed when the entry is written.
Written(s, entry) ==
  CASE entry \in {Ack, Notice} -> {}
    [] entry = Replayed -> {loopVar[s]}
    [] OTHER -> {entry[2]}

Write(s) ==
  /\ queue[s] # <<>>
  /\ received' = [received EXCEPT ![s] = @ \cup Written(s, Head(queue[s]))]
  /\ queue' = [queue EXCEPT ![s] = Tail(@)]
  /\ UNCHANGED <<list, log, at, topicVars, memberVars, isClosed, loopVar,
                 reached, publishVars, readVars>>

WriteFails(s) ==
  /\ queue[s] # <<>>
  /\ Shut(s)
  /\ UNCHANGED <<list, log, at, topicVars, memberVars, loopVar, received,
                 reached, publishVars, readVars>>

-----------------------------------------------------------------------------
(* The topic and the server                                                *)

CreateTopic ==
  /\ topic = 0
  /\ created < MaxTopics
  /\ created' = created + 1
  /\ topic' = created'
  /\ UNCHANGED <<list, log, at, restarts, memberVars, isClosed, queue, loopVar,
                 received, reached, publishVars, readVars>>

\* CloseAllSubscribers sends a notice to every member; nothing in Redis is
\* touched, as DeleteTopicMetadata is never called.
DeleteTopic ==
  LET Full(s) == Len(queue[s]) = QueueSize IN
  /\ topic # 0
  /\ isClosed' = [s \in Subscribers |->
                    isClosed[s] \/ (s \in members[topic] /\ Full(s))]
  /\ queue' = [s \in Subscribers |->
                 IF s \notin members[topic] \/ isClosed[s] THEN queue[s]
                 ELSE IF Full(s) THEN <<>>
                 ELSE Append(queue[s], Notice)]
  /\ members' = [members EXCEPT ![topic] = {}]
  /\ topic' = 0
  /\ UNCHANGED <<list, log, at, created, restarts, joined, loopVar, received,
                 reached, publishVars, readVars>>

\* The process ends and is started again: main waits for REST requests only
\* and not for the connections it hijacked, so nothing but Redis survives.
\* What a client had begun is cut off; it may connect anew.
Restart ==
  /\ restarts < MaxRestarts
  /\ restarts' = restarts + 1
  /\ at' = AtStart
  /\ topic' = 0
  /\ members' = [o \in Objects |-> {}]
  /\ joined' = [s \in Subscribers |-> 0]
  /\ todo' = [p \in Publishers |-> {}]
  /\ isClosed' = [s \in Subscribers |-> FALSE]
  /\ queue' = [s \in Subscribers |-> <<>>]
  /\ replay' = [s \in Subscribers |-> <<>>]
  /\ loopVar' = [s \in Subscribers |-> NoMessage]
  /\ received' = [s \in Subscribers |-> {}]
  /\ reached' = [s \in Subscribers |-> {}]
  /\ window' = [s \in Subscribers |-> {}]
  /\ floor' = [s \in Subscribers |-> 0]
  /\ UNCHANGED <<list, log, created, serial, on, published>>

-----------------------------------------------------------------------------

Publishing(p) ==
  \/ Publish(p) \/ Push(p) \/ PushFails(p) \/ Trim(p) \/ TrimFails(p)
  \/ Snapshot(p) \/ PublishDone(p)
  \/ \E s \in Subscribers : Send(p, s) \/ SendPanics(p, s)

Subscribing(s) ==
  \/ Lookup(s) \/ Join(s) \/ Read(s) \/ ReadFails(s)
  \/ ReplayAssign(s) \/ ReplaySend(s) \/ Acknowledge(s)
  \/ Leave(s)

Next ==
  \/ CreateTopic \/ DeleteTopic \/ Restart
  \/ \E p \in Publishers : Publishing(p)
  \/ \E s \in Subscribers : Subscribing(s) \/ Write(s) \/ WriteFails(s)

Spec == Init /\ [][Next]_vars

-----------------------------------------------------------------------------
(* Properties                                                              *)

TypeOK ==
  /\ list \in Seq(Messages)
  /\ log \in Seq(Messages)
  /\ \A p \in Publishers :
       at[p] \in {"idle", "push", "trim", "snapshot", "fanout", "gone"}
  /\ \A s \in Subscribers :
       at[s] \in {"out", "found", "joined", "replaying", "assigning",
                  "subscribed", "gone"}
  /\ serial \in [Publishers -> 0..MaxPublishes]
  /\ on \in [Messages -> 0..MaxTopics]
  /\ todo \in [Publishers -> SUBSET Subscribers]
  /\ topic \in {0, created}
  /\ created \in 0..MaxTopics
  /\ restarts \in 0..MaxRestarts
  /\ members \in [Objects -> SUBSET Subscribers]
  /\ joined \in [Subscribers -> 0..MaxTopics]
  /\ isClosed \in [Subscribers -> BOOLEAN]
  /\ \A s \in Subscribers :
       /\ queue[s] \in Seq(Entries) /\ Len(queue[s]) <= QueueSize
       /\ replay[s] \in Seq(Messages)
  /\ received \in [Subscribers -> SUBSET (Messages \cup {Torn})]
  /\ loopVar \in [Subscribers -> Messages \cup {Torn, NoMessage}]
  /\ reached \in [Subscribers -> SUBSET Messages]
  /\ window \in [Subscribers -> SUBSET Messages]
  /\ floor \in [Subscribers -> Int]
  /\ published \subseteq Messages

\* The list is the newest part of what was ever pushed, without a hole, and
\* never shorter than the replay size allows, while the pushes and the trims
\* of different publishers interleave, some of them fail, the topic is
\* deleted and created anew, and the server restarts in the middle of it.
ListHoldsNewest ==
  /\ Reverse(list) = SubSeq(log, Len(log) - Len(list) + 1, Len(log))
  /\ Len(list) >= Smaller(Len(log), ReplaySize)

PushedBefore(m, position) == \E i \in 1..position : i <= Len(log) /\ log[i] = m

\* A publish is acknowledged only when it can be replayed: the message is in
\* the list until newer ones have pushed it out, across the deletion of its
\* topic and a restart that cuts the publishes of others anywhere.
AcknowledgedIsStored ==
  \A m \in published :
    m \in ToSet(list) \/ PushedBefore(m, Len(log) - ReplaySize)

\* A member that was acknowledged has no gap: a message published with
\* success on its topic reached it through a fan-out or was in what it read,
\* unless it is older than what it asked for.  The fan-out may begin before,
\* during or after the read of the list.
NoGap ==
  \A s \in Subscribers :
    /\ at[s] = "subscribed"
    /\ ~isClosed[s]
    /\ s \in members[joined[s]]
    => \A m \in published : on[m] = joined[s] =>
         m \in reached[s] \/ m \in window[s] \/ PushedBefore(m, floor[s])

\* A publish that outlives its topic does not reach the subscribers of the
\* topic created anew, nor they those of the old one, other than through the
\* list: fan-outs keep to the members of the object the publish had found.
FanoutKeepsToItsTopic ==
  \A s \in Subscribers : \A m \in reached[s] : on[m] = joined[s]

\* README "Message Replay": a client may request the last N messages.  What
\* the read of the list returned is received once the queue is written.
ReplayReceived ==
  \A s \in Subscribers :
    at[s] = "subscribed" /\ ~isClosed[s] /\ queue[s] = <<>>
      => window[s] \subseteq received[s]
=============================================================================
