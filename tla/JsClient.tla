------------------------------ MODULE JsClient ------------------------------
(***************************************************************************)
(* The JavaScript SDK (sdk/js/index.js; web/pubsub-sdk.js is a copy): one  *)
(* PubSubClient, the WebSocket objects it has made, its timers and its     *)
(* promises.                                                               *)
(*                                                                         *)
(* JavaScript runs one callback at a time, so a callback is a step, cut    *)
(* where it calls the handlers of the application: onopen and onclose emit *)
(* an event in the middle, and a handler may call the client then.  turn   *)
(* says which of the two is running.  The k-th WebSocket made is k.  As in *)
(* the browser a socket is connecting, open, closing or closed (aborting   *)
(* is closing before it was open), and send throws on a connecting one and *)
(* does nothing on a closing or closed one.                                *)
(*                                                                         *)
(* The r-th request made is r; request ids are unique, and all requests    *)
(* are about one topic, so subscriptions is empty or not.                  *)
(***************************************************************************)
EXTENDS Integers, Sequences, FiniteSetsExt, Functions

CONSTANTS
  MaxReconnectAttempts,
  MaxSockets,      \* bound: WebSockets ever made
  MaxCalls,        \* bound: requests of the application
  Kind             \* what each request is

Sockets == 1..MaxSockets
Requests == 1..MaxCalls

ASSUME BoundsAssumption ==
  /\ {MaxReconnectAttempts, MaxSockets, MaxCalls} \subseteq Nat
  /\ Kind \in [Requests -> {"subscribe", "unsubscribe", "publish", "ping"}]

VARIABLES
  ws,             \* this.ws, 0 for null
  connected,
  reconnectAttempts,
  autoReconnect,
  subscribed,     \* subscriptions has the topic
  messageQueue,
  timers,         \* pending calls of setTimeout
  sock,           \* the state of each WebSocket
  opens,          \* the promise of the connect that made it
  turn,           \* the callback that is running
  wire,           \* requests sent on a socket and not answered
  promise,        \* the promise of each request
  hears,          \* the handlers of each request that are registered
  hung,           \* _processQueue runs for ever
  lost,           \* history: requests that were not sent, or not answered
  overlapped,     \* history: connect was called although a socket was there
  retries,        \* history: sockets made by timers since one has opened
  owed            \* history: timers left that disconnect found pending

socketVars == <<ws, connected, sock, opens>>
retryVars == <<reconnectAttempts, autoReconnect, timers, overlapped, retries,
               owed>>
requestVars == <<messageQueue, wire, promise, hears, lost, subscribed>>
vars == <<socketVars, retryVars, requestVars, turn, hung>>

Idle == <<"idle", 0>>
Made == {k \in Sockets : sock[k] # "none"}
Alive == {k \in Made : sock[k] # "closed"}
Called == {r \in Requests : promise[r] # "none"}
CanSend == connected /\ ws # 0

Init ==
  /\ ws = 0
  /\ connected = FALSE
  /\ reconnectAttempts = 0
  /\ autoReconnect = TRUE
  /\ subscribed = FALSE
  /\ messageQueue = <<>>
  /\ timers = 0
  /\ sock = [k \in Sockets |-> "none"]
  /\ opens = [k \in Sockets |-> "none"]
  /\ turn = Idle
  /\ wire = [k \in Sockets |-> {}]
  /\ promise = [r \in Requests |-> "none"]
  /\ hears = [r \in Requests |-> {}]
  /\ hung = FALSE
  /\ lost = {}
  /\ overlapped = FALSE
  /\ retries = 0
  /\ owed = 0

-----------------------------------------------------------------------------
(* Calls of the application, from a task of its own or from a handler      *)

NewSocket ==
  \E k \in Sockets \ Made :
    /\ \A j \in Sockets \ Made : k <= j
    /\ ws' = k
    /\ sock' = [sock EXCEPT ![k] = "connecting"]
    /\ opens' = [opens EXCEPT ![k] = "pending"]
    /\ UNCHANGED connected

Connect ==
  /\ NewSocket
  /\ overlapped' = (overlapped \/ Alive # {} \/ timers > 0 \/ turn # Idle)
  /\ UNCHANGED <<reconnectAttempts, autoReconnect, timers, retries, owed,
                 requestVars, turn, hung>>

Closing(k) == IF sock[k] = "connecting" THEN "aborting"
              ELSE IF sock[k] = "open" THEN "closing" ELSE sock[k]

Disconnect ==
  /\ autoReconnect' = FALSE
  /\ ws' = 0
  /\ sock' = [k \in Sockets |-> IF k = ws THEN Closing(k) ELSE sock[k]]
  /\ connected' = FALSE
  /\ subscribed' = FALSE
  /\ owed' = IF autoReconnect THEN timers ELSE owed
  /\ UNCHANGED <<opens, reconnectAttempts, timers, overlapped, retries,
                 messageQueue, wire, promise, hears, lost, turn, hung>>

\* What becomes of a request that _send hands to the socket.
PutOnWire(rs) ==
  IF sock[ws] = "open"
    THEN wire' = [wire EXCEPT ![ws] = @ \cup rs] /\ UNCHANGED lost
    ELSE lost' = lost \cup rs /\ UNCHANGED wire

\* subscribe, unsubscribe, publish and ping: two handlers (ping: one) are
\* registered, then _send is called.  If send throws, the promise is
\* rejected, because the exception leaves its executor.
Call(r) ==
  /\ promise[r] = "none"
  /\ \A q \in 1..(r - 1) : q \in Called
  /\ hears' = [hears EXCEPT ![r] = IF Kind[r] = "ping" THEN {"ack"}
                                   ELSE {"ack", "error"}]
  /\ \/ /\ CanSend /\ sock[ws] # "connecting"
        /\ PutOnWire({r})
        /\ promise' = [promise EXCEPT ![r] = "pending"]
        /\ UNCHANGED messageQueue
     \/ /\ CanSend /\ sock[ws] = "connecting"
        /\ lost' = lost \cup {r}
        /\ promise' = [promise EXCEPT ![r] = "rejected"]
        /\ UNCHANGED <<messageQueue, wire>>
     \/ /\ ~CanSend
        /\ messageQueue' = Append(messageQueue, r)
        /\ promise' = [promise EXCEPT ![r] = "pending"]
        /\ UNCHANGED <<wire, lost>>
  /\ UNCHANGED <<socketVars, retryVars, subscribed, turn, hung>>

-----------------------------------------------------------------------------
(* Events                                                                  *)

Open(k) ==
  /\ turn = Idle
  /\ sock[k] = "connecting"
  /\ sock' = [sock EXCEPT ![k] = "open"]
  /\ reconnectAttempts' = 0
  /\ retries' = 0
  /\ turn' = <<"open", k>>
  /\ UNCHANGED <<ws, opens, autoReconnect, timers, overlapped, owed,
                 requestVars, hung>>

\* Variation of Opened: the flag is left to the end of onopen.
OpenedLate(k) == UNCHANGED connected /\ Open(k)

\* onopen up to the handlers of 'connected': whichever socket it is
Opened(k) == connected' = TRUE /\ Open(k)

Settle(p, k, how) == [p EXCEPT ![k] = IF @ = "pending" THEN how ELSE @]

QueueSentOf(k, rs, rest) ==
  /\ turn = <<"open", k>>
  /\ CanSend
  /\ messageQueue # <<>> => sock[ws] # "connecting"
  /\ PutOnWire(rs)
  /\ messageQueue' = rest
  /\ opens' = Settle(opens, k, "resolved")
  /\ turn' = Idle
  /\ UNCHANGED <<ws, connected, sock, retryVars, promise, hears, subscribed,
                 hung>>

\* Variation of QueueSent: only the first request is taken.
QueueSentOne(k) ==
  \/ messageQueue = <<>> /\ QueueSentOf(k, {}, <<>>)
  \/ /\ messageQueue # <<>>
     /\ QueueSentOf(k, {Head(messageQueue)}, Tail(messageQueue))

\* Variation of QueueSent: the requests are sent and stay in the queue.
QueueSentKeeps(k) == QueueSentOf(k, Range(messageQueue), messageQueue)

\* The rest of onopen: _processQueue, then the promise of connect.
QueueSent(k) == QueueSentOf(k, Range(messageQueue), <<>>)

\* send throws on a socket that replaced this one and is still connecting:
\* the request taken is lost, and resolve is not reached.
QueueThrows(k) ==
  /\ turn = <<"open", k>>
  /\ CanSend
  /\ messageQueue # <<>>
  /\ sock[ws] = "connecting"
  /\ lost' = lost \cup {Head(messageQueue)}
  /\ messageQueue' = Tail(messageQueue)
  /\ turn' = Idle
  /\ UNCHANGED <<socketVars, retryVars, wire, promise, hears, subscribed, hung>>

\* Without a socket _send queues again what _processQueue has taken.
QueueTurns(k) ==
  /\ turn = <<"open", k>>
  /\ ~CanSend
  /\ messageQueue # <<>>
  /\ hung' = TRUE
  /\ UNCHANGED <<socketVars, retryVars, requestVars, turn>>

QueueEmpty(k) ==
  /\ turn = <<"open", k>>
  /\ ~CanSend
  /\ messageQueue = <<>>
  /\ opens' = Settle(opens, k, "resolved")
  /\ turn' = Idle
  /\ UNCHANGED <<ws, connected, sock, retryVars, requestVars, hung>>

Process(k) == QueueSent(k) \/ QueueThrows(k) \/ QueueTurns(k) \/ QueueEmpty(k)

\* Variation of Answer: a pong is not passed on to the handlers.
AnswerNoPong(k, r, answer) ==
  /\ turn = Idle
  /\ sock[k] \in {"open", "closing"}
  /\ r \in wire[k]
  /\ Kind[r] = "ping"
  /\ wire' = [wire EXCEPT ![k] = @ \ {r}]
  /\ UNCHANGED <<socketVars, retryVars, messageQueue, promise, hears, lost,
                 subscribed, turn, hung>>

\* _handleMessage: the handler of the answer is removed, the other stays.
Answer(k, r, answer) ==
  /\ turn = Idle
  /\ sock[k] \in {"open", "closing"}
  /\ r \in wire[k]
  /\ wire' = [wire EXCEPT ![k] = @ \ {r}]
  /\ answer \in hears[r]
  /\ hears' = [hears EXCEPT ![r] = @ \ {answer}]
  /\ promise' = Settle(promise, r, IF answer = "ack" THEN "resolved"
                                   ELSE "rejected")
  /\ subscribed' = IF answer = "error" THEN subscribed
                   ELSE CASE Kind[r] = "subscribe" -> TRUE
                          [] Kind[r] = "unsubscribe" -> FALSE
                          [] OTHER -> subscribed
  /\ UNCHANGED <<socketVars, retryVars, messageQueue, lost, turn, hung>>

\* The other side, or the network, ends the connection; no event so far.
PeerCloses(k) ==
  /\ sock[k] = "open"
  /\ sock' = [sock EXCEPT ![k] = "closing"]
  /\ UNCHANGED <<ws, connected, opens, retryVars, requestVars, turn, hung>>

CloseEvent(k) ==
  /\ turn = Idle
  /\ sock[k] \in {"connecting", "aborting", "open", "closing"}
  /\ sock' = [sock EXCEPT ![k] = "closed"]
  /\ lost' = lost \cup wire[k]
  /\ wire' = [wire EXCEPT ![k] = {}]
  /\ turn' = <<"closed", k>>
  /\ UNCHANGED <<ws, retryVars, messageQueue, promise, hears, subscribed, hung>>

\* Variation of Closed: connected is left to the next connect.
ClosedStaysConnected(k) ==
  /\ CloseEvent(k)
  /\ opens' = Settle(opens, k, "rejected")
  /\ UNCHANGED connected

\* Variation of Closed: onerror does not reject.
ClosedSilently(k) ==
  /\ CloseEvent(k)
  /\ connected' = FALSE
  /\ UNCHANGED opens

\* onerror, if the socket did not open or the connection failed, and onclose
\* up to the handlers of 'disconnected': whichever socket it is
Closed(k) ==
  /\ CloseEvent(k)
  /\ connected' = FALSE
  /\ \/ opens' = Settle(opens, k, "rejected")
     \/ sock[k] \in {"open", "closing"} /\ UNCHANGED opens

CloseDone(k, again) ==
  /\ turn = <<"closed", k>>
  /\ reconnectAttempts' = reconnectAttempts + IF again THEN 1 ELSE 0
  /\ timers' = timers + IF again THEN 1 ELSE 0
  /\ turn' = Idle
  /\ UNCHANGED <<socketVars, autoReconnect, overlapped, retries, owed,
                 requestVars, hung>>

\* Variation of AfterClose: one attempt too many.
AfterCloseOneMore(k) ==
  CloseDone(k, autoReconnect /\ reconnectAttempts <= MaxReconnectAttempts)

\* Variation of AfterClose: a disconnect is not asked about.
AfterCloseAlways(k) ==
  CloseDone(k, reconnectAttempts < MaxReconnectAttempts)

\* Variation of AfterClose: only the current socket is connected again.
AfterCloseCurrent(k) ==
  CloseDone(k, /\ autoReconnect /\ k = ws
               /\ reconnectAttempts < MaxReconnectAttempts)

\* The rest of onclose.
AfterClose(k) ==
  CloseDone(k, autoReconnect /\ reconnectAttempts < MaxReconnectAttempts)

TimerFires ==
  /\ turn = Idle
  /\ timers > 0
  /\ NewSocket
  /\ timers' = timers - 1
  /\ retries' = retries + 1
  /\ owed' = IF autoReconnect THEN owed ELSE owed - 1
  /\ UNCHANGED <<autoReconnect, overlapped, requestVars, turn, hung>>

\* Variation of Timer: connect starts to count anew.
TimerForgets == TimerFires /\ reconnectAttempts' = 0

\* The timer calls connect, and nothing has cancelled it.
Timer == TimerFires /\ UNCHANGED reconnectAttempts

-----------------------------------------------------------------------------

App == Connect \/ Disconnect \/ \E r \in Requests : Call(r)

Happens(k) ==
  \/ Opened(k) \/ Process(k) \/ PeerCloses(k) \/ Closed(k) \/ AfterClose(k)
  \/ \E r \in Requests, answer \in {"ack", "error"} : Answer(k, r, answer)

Next == ~hung /\ (App \/ Timer \/ \E k \in Sockets : Happens(k))

(***************************************************************************)
(* Fairness: a callback that runs goes on, timers fire, an attempt to open *)
(* or to close a connection ends (both have time-outs), and the server     *)
(* answers on a connection that lasts.  The application need not call      *)
(* anything, and no attempt has to succeed.                                *)
(***************************************************************************)
Fairness ==
  /\ WF_vars(~hung /\ Timer)
  /\ \A k \in Sockets :
       /\ WF_vars(~hung /\ (Process(k) \/ AfterClose(k)))
       /\ WF_vars(~hung /\ sock[k] # "open" /\ (Opened(k) \/ Closed(k)))
       /\ \A r \in Requests : WF_vars(~hung /\ \E answer \in {"ack", "error"} :
                                                 Answer(k, r, answer))

Spec == Init /\ [][Next]_vars /\ Fairness

-----------------------------------------------------------------------------
(* Properties                                                              *)

TypeOK ==
  /\ ws \in 0..MaxSockets
  /\ connected \in BOOLEAN /\ autoReconnect \in BOOLEAN
  /\ reconnectAttempts \in 0..MaxReconnectAttempts
  /\ subscribed \in BOOLEAN /\ hung \in BOOLEAN /\ overlapped \in BOOLEAN
  /\ messageQueue \in Seq(Requests)
  /\ {timers, retries} \subseteq 0..MaxSockets /\ owed \in Int
  /\ sock \in [Sockets -> {"none", "connecting", "aborting", "open",
                           "closing", "closed"}]
  /\ opens \in [Sockets -> {"none", "pending", "resolved", "rejected"}]
  /\ turn \in {Idle} \cup ({"open", "closed"} \X Sockets)
  /\ wire \in [Sockets -> SUBSET Requests]
  /\ promise \in [Requests -> {"none", "pending", "resolved", "rejected"}]
  /\ hears \in [Requests -> SUBSET {"ack", "error"}]
  /\ lost \subseteq Requests

\* An application that calls connect only when no socket is left and no
\* timer is running has one socket at a time, and connected tells the truth
\* about it: a lost connection, a reconnection and a disconnect in any order
\* leave no second socket behind and no stale flag.
OneSocket ==
  ~overlapped =>
    /\ Cardinality(Alive) + timers <= 1
    /\ connected => ws # 0 /\ sock[ws] \in {"open", "closing"}
    /\ ws # 0 /\ sock[ws] = "open" => connected

\* Nothing waits in messageQueue while _send would use an open socket: what
\* was queued goes out before anything that is sent later.
NothingWaits ==
  turn = Idle /\ CanSend /\ sock[ws] = "open" => messageQueue = <<>>

\* A request whose promise is pending is in exactly one place: queued, or
\* sent on a socket that has not closed, or lost.  None is sent twice or
\* forgotten, although sockets replace each other and send may throw.
RequestsAccounted ==
  /\ Cardinality(Range(messageQueue)) = Len(messageQueue)
  /\ \A r \in Called :
       LET places == {k \in Alive : r \in wire[k]} IN
       CASE r \in Range(messageQueue) ->
              promise[r] = "pending" /\ places = {} /\ r \notin lost
         [] r \in lost -> places = {} /\ promise[r] # "resolved"
         [] OTHER -> (promise[r] = "pending") <=> (Cardinality(places) = 1)

Ledger == INSTANCE RequestLedger WITH
            held <- Range(messageQueue),
            out <- UNION {wire[k] : k \in Sockets},
            answered <- {r \in Requests \ lost :
                           promise[r] \in {"resolved", "rejected"}},
            refused <- {r \in lost : promise[r] = "rejected"},
            lost <- {r \in lost : promise[r] = "pending"}

\* The client implements the ledger: a request that was refused, answered or
\* lost with its socket is never sent afterwards, nor is one that was sent put
\* back in the queue, although sockets replace each other and events are late.
RefinesLedger == Ledger!Safety

\* The endless loop of _processQueue takes a disconnect: in a handler of
\* 'connected', or while another socket was opening.
HangsOnlyDisconnected == hung => ~autoReconnect

\* A client that may reconnect is not stranded: when its last socket has
\* closed a timer is running or the attempts are used up.
NotStranded ==
  turn = Idle /\ autoReconnect /\ Made # {} /\ Alive = {} =>
    timers > 0 \/ reconnectAttempts = MaxReconnectAttempts

\* Retries without success stay within maxReconnectAttempts, if the
\* application does not call connect meanwhile.
RetriesLimited == ~overlapped => retries <= MaxReconnectAttempts

\* After disconnect only the timers that were running then still connect.
OnlyOwedTimersConnect == owed >= 0

\* The promise of connect settles, unless sockets replace each other or
\* _processQueue hangs.
ConnectSettles ==
  \A k \in Sockets :
    opens[k] = "pending" ~> opens[k] # "pending" \/ overlapped \/ hung

\* A request that has left the queue is answered or lost with its socket.
RequestSettles ==
  \A r \in Requests :
    promise[r] = "pending" /\ r \notin Range(messageQueue)
      ~> promise[r] # "pending" \/ r \in lost \/ hung
=============================================================================
