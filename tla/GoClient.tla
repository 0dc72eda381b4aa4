------------------------------ MODULE GoClient ------------------------------
(***************************************************************************)
(* The Go SDK (sdk/go/client/client.go): one Client, the goroutines of the *)
(* application that call it, and a readLoop goroutine for every connection *)
(* made, which also reconnects.                                            *)
(*                                                                         *)
(* The k-th connection dialled is k, and readLoop k is the one its Connect *)
(* starts; a readLoop reads whatever c.conn is when it comes round.  The   *)
(* fields connected, conn and messageQueue are guarded by mu; readLoop     *)
(* reads conn and options, and counts its attempts, without it.            *)
(*                                                                         *)
(* Requests are told apart, not looked into: Subscribe, Unsubscribe,       *)
(* Publish and Ping all come down to send.  The map of subscriptions,      *)
(* which the client keeps for GetStatus only, the events and their         *)
(* handlers are left out.                                                  *)
(***************************************************************************)
EXTENDS Integers, Sequences

CONSTANTS
  Apps,                  \* application goroutines
  MaxReconnectAttempts,
  MaxConns,              \* bound: connections ever dialled
  MaxSends               \* bound: requests of the application

Conns == 1..MaxConns
Requests == 1..MaxSends
Goroutines == Apps \cup Conns

ASSUME BoundsAssumption ==
  /\ {MaxReconnectAttempts, MaxConns, MaxSends} \subseteq Nat
  /\ Apps \cap Conns = {}

VARIABLES
  conn,          \* c.conn, 0 for nil
  connected,
  attempts,      \* c.reconnectAttempts
  autoReconnect, \* c.options.AutoReconnect
  closeChanDone, \* close(c.closeChan) has run
  messageQueue,
  dialled,       \* connections made so far
  up,            \* the connections that are open
  pc,            \* where each goroutine is
  mine,          \* the connection a Connect is about, or a readLoop reads
  seen,          \* the value a readLoop is about to increment
  batch,         \* what processQueue has taken and not sent yet
  sent,          \* requests made so far
  written,       \* history: requests written to a connection, in order
  failed,        \* history: requests whose caller got the error of the write
  lost,          \* history: requests lost by processQueue
  refused,       \* history: readLoops whose reconnection did not succeed
  crashed        \* a goroutine has panicked

linkVars == <<conn, connected, dialled, up>>
tryVars == <<attempts, autoReconnect, closeChanDone>>
sendVars == <<messageQueue, batch, sent, written, failed, lost>>
vars == <<linkVars, tryVars, sendVars, pc, mine, seen, refused, crashed>>

Goto(g, label) == pc' = [pc EXCEPT ![g] = label]

Init ==
  /\ conn = 0
  /\ connected = FALSE
  /\ attempts = 0
  /\ autoReconnect = TRUE
  /\ closeChanDone = FALSE
  /\ messageQueue = <<>>
  /\ dialled = 0
  /\ up = {}
  /\ pc = [g \in Goroutines |-> IF g \in Apps THEN "idle" ELSE "unborn"]
  /\ mine = [g \in Goroutines |-> 0]
  /\ seen = [r \in Conns |-> 0]
  /\ batch = [g \in Goroutines |-> <<>>]
  /\ sent = 0
  /\ written = <<>>
  /\ failed = {}
  /\ lost = {}
  /\ refused = {}
  /\ crashed = FALSE

-----------------------------------------------------------------------------
(* Connect, called by the application or by a readLoop whose wait is over  *)

MayConnect(g) == pc[g] \in {"idle", "waiting"}
Finished(g) == IF g \in Apps THEN "idle" ELSE "exited"

Dial(g) ==
  /\ MayConnect(g)
  /\ dialled < MaxConns
  /\ dialled' = dialled + 1
  /\ up' = up \cup {dialled + 1}
  /\ mine' = [mine EXCEPT ![g] = dialled + 1]
  /\ Goto(g, "install")
  /\ UNCHANGED <<conn, connected, tryVars, sendVars, seen, refused, crashed>>

\* The application gets the error; a readLoop does not look at it.
DialFails(g) ==
  /\ MayConnect(g)
  /\ Goto(g, Finished(g))
  /\ refused' = refused \cup ({g} \cap Conns)
  /\ UNCHANGED <<linkVars, tryVars, sendVars, mine, seen, crashed>>

\* Variation of Install: one attempt is given back, not all.
InstallGivesBack(g) ==
  /\ pc[g] = "install"
  /\ conn' = mine[g]
  /\ connected' = TRUE
  /\ attempts' = attempts - 1
  /\ Goto(g, "process")
  /\ UNCHANGED <<dialled, up, autoReconnect, closeChanDone, sendVars, mine,
                 seen, refused, crashed>>

\* Variation of Install: the queue is left to the next connection.
InstallSkipsQueue(g) ==
  /\ pc[g] = "install"
  /\ conn' = mine[g]
  /\ connected' = TRUE
  /\ attempts' = 0
  /\ Goto(g, "flush")
  /\ UNCHANGED <<dialled, up, autoReconnect, closeChanDone, sendVars, mine,
                 seen, refused, crashed>>

\* Variation of Install: the attempts made before are not forgotten.
InstallCountsOn(g) ==
  /\ pc[g] = "install"
  /\ conn' = mine[g]
  /\ connected' = TRUE
  /\ Goto(g, "process")
  /\ UNCHANGED <<dialled, up, tryVars, sendVars, mine, seen, refused, crashed>>

\* A connection that was there before is neither closed nor forgotten by
\* its readLoop.
Install(g) ==
  /\ pc[g] = "install"
  /\ conn' = mine[g]
  /\ connected' = TRUE
  /\ attempts' = 0
  /\ Goto(g, "process")
  /\ UNCHANGED <<dialled, up, autoReconnect, closeChanDone, sendVars, mine,
                 seen, refused, crashed>>

\* Variation of TakeQueue: what is taken stays in the queue.
TakeQueueKeeps(g) ==
  /\ pc[g] = "process"
  /\ batch' = [batch EXCEPT ![g] = messageQueue]
  /\ Goto(g, "flush")
  /\ UNCHANGED <<linkVars, tryVars, messageQueue, sent, written, failed, lost,
                 mine, seen, refused, crashed>>

\* processQueue
TakeQueue(g) ==
  /\ pc[g] = "process"
  /\ batch' = [batch EXCEPT ![g] = messageQueue]
  /\ messageQueue' = <<>>
  /\ Goto(g, "flush")
  /\ UNCHANGED <<linkVars, tryVars, sent, written, failed, lost, mine, seen,
                 refused, crashed>>

Enqueue(r) ==
  /\ ~connected
  /\ messageQueue' = Append(messageQueue, r)
  /\ UNCHANGED written

\* WriteJSON; that the peer is gone need not show at once.
WriteOut(r) ==
  /\ connected
  /\ written' = Append(written, r)
  /\ UNCHANGED messageQueue

\* The error of send is not looked at.
Flush(g) ==
  /\ pc[g] = "flush"
  /\ batch[g] # <<>>
  /\ batch' = [batch EXCEPT ![g] = Tail(@)]
  /\ \/ /\ Enqueue(Head(batch[g])) \/ WriteOut(Head(batch[g]))
        /\ UNCHANGED lost
     \/ /\ connected
        /\ conn \notin up
        /\ lost' = lost \cup {Head(batch[g])}
        /\ UNCHANGED <<messageQueue, written>>
  /\ UNCHANGED <<linkVars, tryVars, sent, failed, pc, mine, seen, refused,
                 crashed>>

\* Variation of StartReading: no readLoop for a reconnection.
StartReadingOnce(g) ==
  /\ pc[g] = "flush"
  /\ batch[g] = <<>>
  /\ pc' = IF g \in Apps
           THEN [pc EXCEPT ![g] = "idle", ![mine[g]] = "top"]
           ELSE [pc EXCEPT ![g] = "exited"]
  /\ UNCHANGED <<linkVars, tryVars, sendVars, mine, seen, refused, crashed>>

\* go c.readLoop()
StartReading(g) ==
  /\ pc[g] = "flush"
  /\ batch[g] = <<>>
  /\ pc' = [pc EXCEPT ![g] = Finished(g), ![mine[g]] = "top"]
  /\ UNCHANGED <<linkVars, tryVars, sendVars, mine, seen, refused, crashed>>

-----------------------------------------------------------------------------
(* The application                                                         *)

Send(a) ==
  /\ pc[a] = "idle"
  /\ sent < MaxSends
  /\ sent' = sent + 1
  /\ \/ /\ Enqueue(sent') \/ WriteOut(sent')
        /\ UNCHANGED failed
     \/ /\ connected
        /\ conn \notin up
        /\ failed' = failed \cup {sent'}
        /\ UNCHANGED <<messageQueue, written>>
  /\ UNCHANGED <<linkVars, tryVars, batch, lost, pc, mine, seen, refused,
                 crashed>>

\* A second close of closeChan panics, the rest is done by then.
Disconnect(a) ==
  /\ pc[a] = "idle"
  /\ autoReconnect' = FALSE
  /\ up' = up \ {conn}
  /\ conn' = 0
  /\ connected' = FALSE
  /\ closeChanDone' = TRUE
  /\ crashed' = closeChanDone
  /\ UNCHANGED <<attempts, dialled, sendVars, pc, mine, seen, refused>>

-----------------------------------------------------------------------------
(* readLoop                                                                *)

\* c.conn is read again on every turn, and is nil after a Disconnect.
ReadNext(r) ==
  /\ pc[r] = "top"
  /\ IF conn = 0
     THEN /\ crashed' = TRUE
          /\ UNCHANGED <<pc, mine>>
     ELSE /\ mine' = [mine EXCEPT ![r] = conn]
          /\ Goto(r, "reading")
          /\ UNCHANGED crashed
  /\ UNCHANGED <<linkVars, tryVars, sendVars, seen, refused>>

ReadMessage(r) ==
  /\ pc[r] = "reading"
  /\ mine[r] \in up
  /\ Goto(r, "top")
  /\ UNCHANGED <<linkVars, tryVars, sendVars, mine, seen, refused, crashed>>

ReadFails(r) ==
  /\ pc[r] = "reading"
  /\ mine[r] \notin up
  /\ Goto(r, "down")
  /\ UNCHANGED <<linkVars, tryVars, sendVars, mine, seen, refused, crashed>>

\* Variation of Down: the state is left to Disconnect and Connect.
DownSilent(r) ==
  /\ pc[r] = "down"
  /\ Goto(r, "decide")
  /\ UNCHANGED <<linkVars, tryVars, sendVars, mine, seen, refused, crashed>>

\* Variation of Down: the connection that was lost is forgotten.
DownForgets(r) ==
  /\ pc[r] = "down"
  /\ connected' = FALSE
  /\ conn' = 0
  /\ Goto(r, "decide")
  /\ UNCHANGED <<dialled, up, tryVars, sendVars, mine, seen, refused, crashed>>

\* Whatever connection was lost, the client counts as not connected.
Down(r) ==
  /\ pc[r] = "down"
  /\ connected' = FALSE
  /\ Goto(r, "decide")
  /\ UNCHANGED <<conn, dialled, up, tryVars, sendVars, mine, seen, refused,
                 crashed>>

Decide(r) ==
  /\ pc[r] = "decide"
  /\ Goto(r, IF autoReconnect /\ attempts < MaxReconnectAttempts
             THEN "load" ELSE "exited")
  /\ UNCHANGED <<linkVars, tryVars, sendVars, mine, seen, refused, crashed>>

\* c.reconnectAttempts++, in two steps as no lock is held
LoadAttempts(r) ==
  /\ pc[r] = "load"
  /\ seen' = [seen EXCEPT ![r] = attempts]
  /\ Goto(r, "store")
  /\ UNCHANGED <<linkVars, tryVars, sendVars, mine, refused, crashed>>

StoreAttempts(r) ==
  /\ pc[r] = "store"
  /\ attempts' = seen[r] + 1
  /\ Goto(r, "waiting")
  /\ UNCHANGED <<linkVars, autoReconnect, closeChanDone, sendVars, mine, seen,
                 refused, crashed>>

\* The server or the network ends a connection.
Break(k) ==
  /\ k \in up
  /\ up' = up \ {k}
  /\ UNCHANGED <<conn, connected, dialled, tryVars, sendVars, pc, mine,
                 seen, refused, crashed>>

-----------------------------------------------------------------------------

Connecting(g) ==
  Install(g) \/ TakeQueue(g) \/ Flush(g) \/ StartReading(g)

Reading(r) ==
  \/ ReadNext(r) \/ ReadMessage(r) \/ ReadFails(r)
  \/ Down(r) \/ Decide(r) \/ LoadAttempts(r) \/ StoreAttempts(r)

Next ==
  \/ /\ ~crashed
     /\ \/ \E g \in Goroutines : Dial(g) \/ DialFails(g) \/ Connecting(g)
        \/ \E a \in Apps : Send(a) \/ Disconnect(a)
        \/ \E r \in Conns : Reading(r)
        \/ \E k \in Conns : Break(k)
  \/ crashed /\ UNCHANGED vars

(***************************************************************************)
(* Fairness: a goroutine that can go on does, and a read on a connection   *)
(* that has ended fails.  Every wait ends with a call of Connect, but the  *)
(* application need not call anything and no dial has to succeed.          *)
(***************************************************************************)
Fairness ==
  /\ \A g \in Goroutines : WF_vars(~crashed /\ Connecting(g))
  /\ \A r \in Conns :
       /\ WF_vars(~crashed /\ Reading(r))
       /\ WF_vars(~crashed /\ pc[r] = "waiting" /\ (Dial(r) \/ DialFails(r)))

Safety == Init /\ [][Next]_vars

Spec == Safety /\ Fairness

-----------------------------------------------------------------------------
(* Properties                                                              *)

Labels == {"idle", "unborn", "install", "process", "flush", "top", "reading",
           "down", "decide", "load", "store", "waiting", "exited"}

TypeOK ==
  /\ conn \in 0..MaxConns
  /\ connected \in BOOLEAN
  /\ attempts \in 0..MaxConns  \* a readLoop counts once
  /\ autoReconnect \in BOOLEAN
  /\ closeChanDone \in BOOLEAN
  /\ messageQueue \in Seq(Requests)
  /\ dialled \in 0..MaxConns
  /\ up \subseteq Conns
  /\ pc \in [Goroutines -> Labels]
  /\ mine \in [Goroutines -> 0..MaxConns]
  /\ seen \in [Conns -> 0..MaxConns]
  /\ batch \in [Goroutines -> Seq(Requests)]
  /\ sent \in 0..MaxSends
  /\ written \in Seq(Requests)
  /\ failed \subseteq Requests
  /\ lost \subseteq Requests
  /\ refused \subseteq Conns
  /\ crashed \in BOOLEAN

Elements(q) == {q[i] : i \in DOMAIN q}

Distinct(q) == \A i, j \in DOMAIN q : q[i] = q[j] => i = j

\* Every request is in exactly one place: queued, in the hands of one
\* processQueue, written, reported as failed, or lost by processQueue.  None
\* is written twice or dropped otherwise, however Connect, send, the loss of
\* a connection and Disconnect interleave.
RequestsAccounted ==
  LET queued == Elements(messageQueue)
      taken == UNION {Elements(batch[g]) : g \in Goroutines}
      out == Elements(written) IN
  /\ queued \cup taken \cup out \cup failed \cup lost = 1..sent
  /\ queued \cap (taken \cup out \cup failed \cup lost) = {}
  /\ taken \cap (out \cup failed \cup lost) = {}
  /\ out \cap (failed \cup lost) = {} /\ failed \cap lost = {}
  /\ Distinct(messageQueue) /\ Distinct(written)
  /\ \A g, h \in Goroutines :
       /\ Distinct(batch[g])
       /\ g # h => Elements(batch[g]) \cap Elements(batch[h]) = {}

Ledger == INSTANCE RequestLedger WITH
            held <- Elements(messageQueue)
                      \cup UNION {Elements(batch[g]) : g \in Goroutines},
            out <- Elements(written), answered <- {}, refused <- failed

\* The client implements the ledger: no request is sent again after it was
\* written, reported as failed or lost, and none leaves the queue but to be
\* written or lost, whatever Connects and senders run at the same time.
RefinesLedger == Ledger!Safety

\* Nothing waits in the queue of a connected client, unless a Connect is
\* just about to take it: send and processQueue cannot miss each other.
QueueHasSender ==
  connected /\ messageQueue # <<>> => \E g \in Goroutines : pc[g] = "process"

\* The open connection of a connected client is being read, or its Connect
\* is on the way to do so; a readLoop that outlived its own connection is
\* no obstacle.
ConnectedIsRead ==
  connected /\ conn \in up =>
    \/ \E g \in Goroutines : pc[g] \in {"process", "flush"}
    \/ \E r \in Conns : pc[r] = "top" \/ (pc[r] = "reading" /\ mine[r] = conn)

\* The loss of a connection is noticed: the client does not go on counting
\* as connected over it.
LossNoticed ==
  (connected /\ conn \notin up) ~> (~connected \/ conn \in up \/ crashed)

\* A loss is followed up: a client that was not disconnected by its
\* application connects again, unless a reconnection fails (which is not
\* tried again).  A readLoop that finds the attempts used up may leave it to
\* the other one that used them.
LossFollowedUp ==
  (~connected /\ conn # 0)
    ~> (connected \/ ~autoReconnect \/ refused # {} \/ crashed)

\* The panics of the client (a nil connection is read, closeChan is closed
\* again) take a Disconnect: the loss of connections, however many readLoops
\* share c.conn, does not crash the process.
CrashTakesDisconnect == crashed => closeChanDone
=============================================================================
