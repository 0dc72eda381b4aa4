--------------------------- MODULE GoClientProofs ---------------------------
(***************************************************************************)
(* Theorems about module GoClient, for any number of application           *)
(* goroutines, connections and requests.                                   *)
(*                                                                         *)
(* All of them rest on ShapeInv: which goroutines are there.  Only         *)
(* BoundsAssumption of GoClient is assumed.                                *)
(***************************************************************************)
EXTENDS GoClient, FiniteSetTheorems, SequenceTheorems, TLAPS

\* A Connect between its dial and its go c.readLoop().
Underway == {"install", "process", "flush"}

\* Connections are dialled in order, and the readLoop of a connection is not
\* there until the one Connect that dialled it starts it.
ShapeInv ==
  /\ dialled \in 0..MaxConns
  /\ conn \in 0..dialled
  /\ pc \in [Goroutines -> Labels]
  /\ mine \in [Goroutines -> 0..MaxConns]
  /\ \A r \in Conns : r > dialled => pc[r] = "unborn"
  /\ \A g \in Goroutines : pc[g] \in Underway =>
       mine[g] \in 1..dialled /\ pc[mine[g]] = "unborn"
  /\ \A g, h \in Goroutines :
       pc[g] \in Underway /\ pc[h] \in Underway /\ mine[g] = mine[h] => g = h

\* A step that takes one goroutine, which is there already, elsewhere.
LEMMA MoveShape ==
  ASSUME ShapeInv, NEW g \in Goroutines, NEW label \in Labels \ {"unborn"},
         Goto(g, label), pc[g] # "unborn",
         label \in Underway => pc[g] \in Underway,
         dialled' = dialled, conn' \in 0..dialled,
         mine' \in [Goroutines -> 0..MaxConns],
         \A h \in Goroutines : h # g \/ label \in Underway => mine'[h] = mine[h]
  PROVE  ShapeInv'
  <1>1. /\ pc' \in [Goroutines -> Labels]
        /\ pc'[g] = label
        /\ \A h \in Goroutines \ {g} : pc'[h] = pc[h]
    BY DEF ShapeInv, Goto
  <1>2. ASSUME NEW h \in Goroutines, pc'[h] \in Underway
        PROVE  pc[h] \in Underway /\ mine'[h] = mine[h]
    BY <1>1, <1>2
  <1>3. \A r \in Conns : r \in Goroutines
    BY DEF Goroutines
  <1>4. \A r \in Conns : r > dialled => pc'[r] = "unborn"
    BY <1>1, <1>3 DEF ShapeInv
  <1>5. ASSUME NEW h \in Goroutines, pc'[h] \in Underway
        PROVE  mine'[h] \in 1..dialled /\ pc'[mine'[h]] = "unborn"
    <2>1. mine[h] \in 1..dialled /\ pc[mine[h]] = "unborn"
      BY <1>2, <1>5 DEF ShapeInv
    <2>2. mine[h] \in Conns
      BY <2>1, BoundsAssumption DEF ShapeInv, Conns
    <2> QED
      BY <1>1, <1>2, <1>3, <1>5, <2>1, <2>2
  <1>6. \A h, k \in Goroutines :
          pc'[h] \in Underway /\ pc'[k] \in Underway /\ mine'[h] = mine'[k]
            => h = k
    BY <1>2 DEF ShapeInv
  <1> QED
    BY <1>1, <1>4, <1>5, <1>6 DEF ShapeInv

\* A step that leaves every goroutine where it is.
LEMMA StayShape ==
  ASSUME ShapeInv, UNCHANGED <<pc, mine, dialled>>, conn' \in 0..dialled
  PROVE  ShapeInv'
  BY DEF ShapeInv

\* A dial numbers a connection that no goroutine knows yet.
LEMMA DialShape ==
  ASSUME ShapeInv, NEW g \in Goroutines, Dial(g)
  PROVE  ShapeInv'
  <1> DEFINE new == dialled + 1
  <1>1. /\ new \in Conns /\ new \in Goroutines /\ dialled \in Nat
        /\ dialled' = new /\ new \in 0..MaxConns /\ pc[new] = "unborn"
    BY BoundsAssumption DEF Dial, ShapeInv, Conns, Goroutines
  <1>2. /\ pc[g] \in {"idle", "waiting"} /\ conn' = conn
        /\ pc' = [pc EXCEPT ![g] = "install"]
        /\ mine' = [mine EXCEPT ![g] = new]
    BY DEF Dial, MayConnect, Goto
  <1>3. g # new
    BY <1>1, <1>2
  <1> HIDE DEF new
  <1>4. /\ pc' \in [Goroutines -> Labels] /\ mine' \in [Goroutines -> 0..MaxConns]
        /\ conn' \in 0..dialled'
    BY <1>1, <1>2 DEF ShapeInv, Labels, new
  <1>5. \A r \in Conns : r > dialled' => pc'[r] = "unborn"
    <2> SUFFICES ASSUME NEW r \in Conns, r > new PROVE pc'[r] = "unborn"
      BY <1>1
    <2>1. r > dialled /\ r \in Goroutines
      BY <1>1 DEF Conns, Goroutines, new
    <2>2. pc[r] = "unborn"
      BY <2>1 DEF ShapeInv
    <2> QED
      BY <1>2, <2>1, <2>2 DEF ShapeInv
  <1>6. ASSUME NEW h \in Goroutines, pc'[h] \in Underway
        PROVE  mine'[h] \in 1..dialled' /\ pc'[mine'[h]] = "unborn"
    <2>1. CASE h = g
      <3>1. mine'[h] = new
        BY <1>2, <2>1 DEF ShapeInv
      <3>2. new \in 1..dialled'
        BY <1>1 DEF new
      <3>3. pc'[new] = "unborn"
        BY <1>1, <1>2, <1>3 DEF ShapeInv
      <3> QED
        BY <3>1, <3>2, <3>3
    <2>2. CASE h # g
      <3>1. mine'[h] = mine[h] /\ pc'[h] = pc[h]
        BY <1>2, <2>2 DEF ShapeInv
      <3>2. mine[h] \in 1..dialled /\ pc[mine[h]] = "unborn"
        BY <1>6, <3>1 DEF ShapeInv
      <3>3. mine[h] # g /\ mine[h] \in Goroutines
        BY <1>2, <3>2, BoundsAssumption DEF ShapeInv, Goroutines, Conns
      <3>4. mine[h] \in 1..dialled'
        BY <1>1, <3>2 DEF new
      <3> QED
        BY <1>2, <3>1, <3>2, <3>3, <3>4 DEF ShapeInv
    <2> QED
      BY <2>1, <2>2
  <1>7. ASSUME NEW h \in Goroutines, NEW k \in Goroutines, pc'[h] \in Underway,
               pc'[k] \in Underway, mine'[h] = mine'[k]
        PROVE  h = k
    <2>1. \A i \in Goroutines \ {g} : pc'[i] = pc[i] /\ mine'[i] = mine[i]
      BY <1>2 DEF ShapeInv
    <2>2. \A i \in Goroutines \ {g} : pc'[i] \in Underway => mine'[i] # new
      BY <1>1, <2>1 DEF ShapeInv, new
    <2>3. mine'[g] = new
      BY <1>2 DEF ShapeInv
    <2> QED
      BY <1>7, <2>1, <2>2, <2>3 DEF ShapeInv
  <1> QED
    BY <1>1, <1>4, <1>5, <1>6, <1>7 DEF ShapeInv

\* go c.readLoop() brings the readLoop of the caller's own connection to life.
LEMMA StartShape ==
  ASSUME ShapeInv, NEW g \in Goroutines, StartReading(g)
  PROVE  ShapeInv'
  <1> DEFINE r == mine[g]
  <1>1. /\ pc[g] = "flush" /\ dialled' = dialled /\ conn' = conn /\ mine' = mine
        /\ pc' = [pc EXCEPT ![g] = Finished(g), ![r] = "top"]
    BY DEF StartReading, linkVars
  <1>2. r \in 1..dialled /\ r \in Goroutines /\ pc[r] = "unborn"
    BY <1>1, BoundsAssumption DEF ShapeInv, Underway, Goroutines, Conns
  <1> HIDE DEF r
  <1>3. /\ Finished(g) \in {"idle", "exited"}
        /\ g # r
    BY <1>1, <1>2 DEF Finished
  <1>4. /\ pc' \in [Goroutines -> Labels]
        /\ pc'[g] \in {"idle", "exited"} /\ pc'[r] = "top"
        /\ \A h \in Goroutines \ {g, r} : pc'[h] = pc[h]
    BY <1>1, <1>2, <1>3 DEF ShapeInv, Labels
  <1>5. \A k \in Conns : k > dialled => pc'[k] = "unborn"
    <2> SUFFICES ASSUME NEW k \in Conns, k > dialled PROVE pc'[k] = "unborn"
      OBVIOUS
    <2>1. pc[k] = "unborn" /\ k \in Goroutines /\ k # g
      BY <1>1 DEF ShapeInv, Goroutines
    <2>2. k # r
      BY <1>2 DEF ShapeInv, Conns
    <2> QED
      BY <1>4, <2>1, <2>2
  <1>6. ASSUME NEW h \in Goroutines, pc'[h] \in Underway
        PROVE  /\ pc[h] \in Underway
               /\ mine[h] \in 1..dialled /\ pc'[mine[h]] = "unborn"
    <2>1. h # g /\ h # r /\ pc[h] \in Underway
      BY <1>4, <1>6 DEF Underway
    <2>2. mine[h] \in 1..dialled /\ pc[mine[h]] = "unborn"
      BY <2>1 DEF ShapeInv
    <2>3. mine[h] # r
      BY <1>1, <2>1 DEF ShapeInv, Underway, r
    <2>4. mine[h] # g /\ mine[h] \in Goroutines
      BY <1>1, <2>2, BoundsAssumption DEF ShapeInv, Goroutines, Conns
    <2> QED
      BY <1>4, <2>1, <2>2, <2>3, <2>4
  <1> QED
    BY <1>1, <1>4, <1>5, <1>6 DEF ShapeInv

\* Every step keeps the shape.
LEMMA NextShape == ShapeInv /\ [Next]_vars => ShapeInv'
  <1> SUFFICES ASSUME ShapeInv, [Next]_vars PROVE ShapeInv'
    OBVIOUS
  <1> USE DEF linkVars
  <1>l. /\ Labels \ {"unborn"} = {"idle", "install", "process", "flush", "top",
             "reading", "down", "decide", "load", "store", "waiting", "exited"}
        /\ conn \in 0..dialled /\ mine \in [Goroutines -> 0..MaxConns]
        /\ 0 \in 0..dialled
    BY DEF Labels, ShapeInv
  <1>1. ASSUME NEW g \in Goroutines, DialFails(g) PROVE ShapeInv'
    BY <1>1, <1>l, MoveShape DEF DialFails, MayConnect, Finished, Underway
  <1>2. ASSUME NEW g \in Goroutines, Connecting(g) PROVE ShapeInv'
    <2>1. CASE Install(g)
      <3>1. mine[g] \in 0..dialled /\ pc[g] \in Underway /\ pc[g] # "unborn"
        BY <2>1 DEF Install, ShapeInv, Underway
      <3>2. /\ conn' = mine[g] /\ Goto(g, "process")
            /\ dialled' = dialled /\ mine' = mine
        BY <2>1 DEF Install
      <3> QED
        BY <1>l, <3>1, <3>2, MoveShape
    <2>2. CASE TakeQueue(g)
      BY <2>2, <1>l, MoveShape DEF TakeQueue, Underway
    <2>3. CASE Flush(g)
      BY <2>3, <1>l, StayShape DEF Flush
    <2>4. CASE StartReading(g)
      BY <2>4, StartShape
    <2> QED
      BY <1>2, <2>1, <2>2, <2>3, <2>4 DEF Connecting
  <1>3. ASSUME NEW a \in Apps, Send(a) \/ Disconnect(a) PROVE ShapeInv'
    BY <1>3, <1>l, StayShape DEF Send, Disconnect
  <1>4. ASSUME NEW r \in Conns, Reading(r) PROVE ShapeInv'
    <2>0. r \in Goroutines
      BY DEF Goroutines
    <2>1. CASE ReadNext(r) /\ conn = 0
      BY <2>1, <1>l, StayShape DEF ReadNext
    <2>2. CASE ReadNext(r) /\ conn # 0
      <3>1. mine' = [mine EXCEPT ![r] = conn] /\ conn \in 0..MaxConns
        BY <2>2, BoundsAssumption DEF ReadNext, ShapeInv
      <3>2. /\ mine' \in [Goroutines -> 0..MaxConns]
            /\ \A h \in Goroutines : h # r => mine'[h] = mine[h]
        BY <1>l, <2>0, <3>1
      <3> QED
        BY <2>0, <2>2, <3>2, <1>l, MoveShape DEF ReadNext, Underway
    <2>3. CASE ReadMessage(r) \/ ReadFails(r)
      BY <2>0, <2>3, <1>l, MoveShape DEF ReadMessage, ReadFails, Underway
    <2>4. CASE Down(r)
      BY <2>0, <2>4, <1>l, MoveShape DEF Down, Underway
    <2>5. CASE Decide(r)
      BY <2>0, <2>5, <1>l, MoveShape DEF Decide, Underway
    <2>6. CASE LoadAttempts(r) \/ StoreAttempts(r)
      BY <2>0, <2>6, <1>l, MoveShape DEF LoadAttempts, StoreAttempts, Underway
    <2> QED
      BY <1>4, <2>1, <2>2, <2>3, <2>4, <2>5, <2>6 DEF Reading
  <1>5. ASSUME NEW k \in Conns, Break(k) PROVE ShapeInv'
    BY <1>5, <1>l, StayShape DEF Break
  <1>6. CASE UNCHANGED vars
    BY <1>6, <1>l, StayShape DEF vars
  <1> QED
    BY <1>1, <1>2, <1>3, <1>4, <1>5, <1>6, DialShape DEF Next

\* Nothing is dialled at first.
LEMMA InitShape == Init => ShapeInv
  <1> SUFFICES ASSUME Init PROVE ShapeInv
    OBVIOUS
  <1>1. dialled = 0 /\ dialled \in 0..MaxConns /\ conn \in 0..dialled
    BY BoundsAssumption DEF Init
  <1>2. \A g \in Goroutines : pc[g] = IF g \in Apps THEN "idle" ELSE "unborn"
    BY DEF Init
  <1>3. pc \in [Goroutines -> Labels]
    BY DEF Init, Labels
  <1>4. mine \in [Goroutines -> 0..MaxConns]
    BY BoundsAssumption DEF Init
  <1>5. \A r \in Conns : pc[r] = "unborn"
    BY <1>2, BoundsAssumption DEF Goroutines
  <1>6. \A g \in Goroutines : pc[g] \notin Underway
    BY <1>2 DEF Underway
  <1> QED
    BY <1>1, <1>3, <1>4, <1>5, <1>6 DEF ShapeInv

-----------------------------------------------------------------------------
(* The queue                                                               *)

\* Only processQueue takes from the queue, and who adds to it has seen, under
\* the same lock, that the client is not connected.
LEMMA NextQueue ==
  ASSUME ShapeInv, QueueHasSender, [Next]_vars
  PROVE  QueueHasSender'
  <1> USE DEF linkVars, sendVars, QueueHasSender
  <1>t. pc \in [Goroutines -> Labels] /\ Conns \subseteq Goroutines
    BY DEF ShapeInv, Goroutines
  <1>1. ASSUME NEW g \in Goroutines, Dial(g) \/ DialFails(g)
        PROVE  QueueHasSender'
    <2>1. /\ UNCHANGED <<connected, messageQueue>> /\ pc[g] # "process"
          /\ \A h \in Goroutines \ {g} : pc'[h] = pc[h]
      BY <1>1, <1>t DEF Dial, DialFails, MayConnect, Goto
    <2> QED
      BY <2>1
  <1>2. ASSUME NEW g \in Goroutines, Connecting(g) PROVE QueueHasSender'
    <2>1. CASE Install(g)
      BY <2>1, <1>t DEF Install, Goto
    <2>2. CASE TakeQueue(g)
      BY <2>2 DEF TakeQueue
    <2>3. CASE Flush(g)
      BY <2>3 DEF Flush, Enqueue, WriteOut
    <2>4. CASE StartReading(g)
      <3>1. /\ UNCHANGED <<connected, messageQueue>> /\ pc[g] = "flush"
            /\ pc' = [pc EXCEPT ![g] = Finished(g), ![mine[g]] = "top"]
        BY <2>4 DEF StartReading
      <3>2. pc[mine[g]] = "unborn"
        BY <3>1 DEF ShapeInv, Underway
      <3>3. \A h \in Goroutines : pc[h] = "process" => pc'[h] = "process"
        BY <1>t, <3>1, <3>2
      <3> QED
        BY <3>1, <3>3
    <2> QED
      BY <1>2, <2>1, <2>2, <2>3, <2>4 DEF Connecting
  <1>3. ASSUME NEW a \in Apps, Send(a) \/ Disconnect(a) PROVE QueueHasSender'
    BY <1>3 DEF Send, Disconnect, Enqueue, WriteOut
  <1>4. ASSUME NEW r \in Conns, Reading(r) PROVE QueueHasSender'
    <2>1. /\ messageQueue' = messageQueue /\ (connected' => connected)
          /\ pc[r] # "process"
          /\ \A h \in Goroutines \ {r} : pc'[h] = pc[h]
      BY <1>4, <1>t DEF Reading, ReadNext, ReadMessage, ReadFails, Down, Decide,
         LoadAttempts, StoreAttempts, Goto
    <2>2. \A h \in Goroutines : pc[h] = "process" => pc'[h] = "process"
      BY <2>1
    <2> QED
      BY <2>1, <2>2
  <1>5. ASSUME NEW k \in Conns, Break(k) PROVE QueueHasSender'
    BY <1>5 DEF Break
  <1>6. CASE UNCHANGED vars
    BY <1>6 DEF vars
  <1> QED
    BY <1>1, <1>2, <1>3, <1>4, <1>5, <1>6 DEF Next

\* send and processQueue cannot miss each other: what a client that is
\* connected finds in its queue is about to be taken.
THEOREM QueueServed == Safety => []QueueHasSender
  <1>1. Init => QueueHasSender
    BY DEF Init, QueueHasSender
  <1> QED
    BY <1>1, InitShape, NextShape, NextQueue, PTL DEF Safety

-----------------------------------------------------------------------------
(* The reader                                                              *)

\* A Connect that installed its connection stays under way until it has a
\* readLoop; a readLoop that gives up leaves the client not connected.
LEMMA NextRead ==
  ASSUME ShapeInv, ConnectedIsRead, [Next]_vars
  PROVE  ConnectedIsRead'
  <1> USE DEF linkVars, ConnectedIsRead
  <1>t. /\ pc \in [Goroutines -> Labels] /\ Conns \subseteq Goroutines
        /\ mine \in [Goroutines -> 0..MaxConns]
    BY DEF ShapeInv, Goroutines
  <1>1. ASSUME NEW g \in Goroutines, Dial(g) \/ DialFails(g)
        PROVE  ConnectedIsRead'
    <2>1. /\ UNCHANGED <<conn, connected>>
          /\ pc[g] \in {"idle", "waiting"}
          /\ up' \subseteq up \cup {dialled + 1}
          /\ \A h \in Goroutines \ {g} : pc'[h] = pc[h] /\ mine'[h] = mine[h]
      BY <1>1, <1>t DEF Dial, DialFails, MayConnect, Goto
    <2>2. conn # dialled + 1
      BY BoundsAssumption DEF ShapeInv
    <2> QED
      BY <1>t, <2>1, <2>2
  <1>2. ASSUME NEW g \in Goroutines, Connecting(g) PROVE ConnectedIsRead'
    <2>1. CASE Install(g)
      BY <2>1, <1>t DEF Install, Goto
    <2>2. CASE TakeQueue(g)
      BY <2>2, <1>t DEF TakeQueue, Goto
    <2>3. CASE Flush(g)
      BY <2>3 DEF Flush
    <2>4. CASE StartReading(g)
      <3>1. /\ pc[g] = "flush"
            /\ pc' = [pc EXCEPT ![g] = Finished(g), ![mine[g]] = "top"]
        BY <2>4 DEF StartReading
      <3>2. mine[g] \in Conns
        BY <3>1, BoundsAssumption DEF ShapeInv, Underway, Conns
      <3>3. pc'[mine[g]] = "top"
        BY <1>t, <3>1, <3>2
      <3> QED
        BY <3>2, <3>3
    <2> QED
      BY <1>2, <2>1, <2>2, <2>3, <2>4 DEF Connecting
  <1>3. ASSUME NEW a \in Apps, Send(a) \/ Disconnect(a) PROVE ConnectedIsRead'
    BY <1>3 DEF Send, Disconnect
  <1>4. ASSUME NEW r \in Conns, Reading(r) PROVE ConnectedIsRead'
    <2>0. /\ UNCHANGED <<conn, up>> /\ (connected' => connected)
          /\ \A h \in Goroutines \ {r} : pc'[h] = pc[h] /\ mine'[h] = mine[h]
          /\ pc[r] \notin {"process", "flush"}
      BY <1>4, <1>t DEF Reading, ReadNext, ReadMessage, ReadFails, Down, Decide,
         LoadAttempts, StoreAttempts, Goto
    <2>a. ASSUME NEW g \in Goroutines, pc[g] \in {"process", "flush"}
          PROVE  ConnectedIsRead'
      BY <2>0, <2>a
    <2>b. ASSUME NEW k \in Conns, k # r,
                 pc[k] = "top" \/ (pc[k] = "reading" /\ mine[k] = conn)
          PROVE  ConnectedIsRead'
      <3>1. pc'[k] = pc[k] /\ mine'[k] = mine[k] /\ conn' = conn
        BY <1>t, <2>0, <2>b
      <3> QED
        BY <2>b, <3>1
    <2>c. SUFFICES ASSUME connected, conn \in up,
                          pc[r] = "top" \/ (pc[r] = "reading" /\ mine[r] = conn)
                   PROVE  ConnectedIsRead'
      BY <2>0, <2>a, <2>b
    <2>1. CASE ReadNext(r)
      <3>1. \/ pc'[r] = pc[r] /\ pc[r] = "top"
            \/ pc'[r] = "reading" /\ mine'[r] = conn
        BY <2>1, <1>t DEF ReadNext, Goto
      <3> QED
        BY <2>0, <3>1
    <2>2. CASE ReadMessage(r)
      <3>1. pc'[r] = "top"
        BY <2>2, <1>t DEF ReadMessage, Goto
      <3> QED
        BY <3>1
    <2>3. CASE ReadFails(r) \/ Decide(r) \/ LoadAttempts(r) \/ StoreAttempts(r)
      BY <2>3, <2>c DEF ReadFails, Decide, LoadAttempts, StoreAttempts
    <2>4. CASE Down(r)
      BY <2>4 DEF Down
    <2> QED
      BY <1>4, <2>1, <2>2, <2>3, <2>4 DEF Reading
  <1>5. ASSUME NEW k \in Conns, Break(k) PROVE ConnectedIsRead'
    BY <1>5 DEF Break
  <1>6. CASE UNCHANGED vars
    BY <1>6 DEF vars
  <1> QED
    BY <1>1, <1>2, <1>3, <1>4, <1>5, <1>6 DEF Next

\* An open connection of a connected client has a readLoop, or gets one when
\* its Connect is through, however many readLoops outlived their own.
THEOREM ReaderThere == Safety => []ConnectedIsRead
  <1>1. Init => ConnectedIsRead
    BY DEF Init, ConnectedIsRead
  <1> QED
    BY <1>1, InitShape, NextShape, NextRead, PTL DEF Safety

-----------------------------------------------------------------------------
(* Panics                                                                  *)

\* c.conn is nil only before the first Connect and after a Disconnect.
EverConnected == conn # 0 \/ closeChanDone

\* Who reads c.conn comes after a Connect that set it.
CrashInv ==
  /\ CrashTakesDisconnect
  /\ \A g \in Goroutines :
       pc[g] \in {"process", "flush"} => EverConnected
  /\ \A r \in Conns : pc[r] # "unborn" => EverConnected

\* Install alone sets c.conn, Disconnect alone clears it, and sets closeChanDone.
LEMMA NextCrash ==
  ASSUME ShapeInv, CrashInv, [Next]_vars
  PROVE  CrashInv'
  <1> USE DEF linkVars, tryVars, CrashInv, CrashTakesDisconnect, EverConnected
  <1>t. /\ pc \in [Goroutines -> Labels] /\ Conns \subseteq Goroutines
    BY DEF ShapeInv, Goroutines
  <1>1. ASSUME NEW g \in Goroutines, Dial(g) \/ DialFails(g)
        PROVE  CrashInv'
    <2>1. /\ UNCHANGED <<conn, closeChanDone, crashed>>
          /\ pc[g] # "unborn" /\ pc'[g] \notin {"process", "flush"}
          /\ \A h \in Goroutines \ {g} : pc'[h] = pc[h]
      BY <1>1, <1>t DEF Dial, DialFails, MayConnect, Goto, Finished
    <2> QED
      BY <1>t, <2>1
  <1>2. ASSUME NEW g \in Goroutines, Connecting(g) PROVE CrashInv'
    <2>1. CASE Install(g)
      <3>1. conn' # 0
        BY <2>1, BoundsAssumption DEF Install, ShapeInv, Underway
      <3> QED
        BY <2>1, <3>1 DEF Install
    <2>2. CASE TakeQueue(g) \/ Flush(g) \/ StartReading(g)
      <3>1. EverConnected /\ UNCHANGED <<conn, closeChanDone, crashed>>
        BY <2>2 DEF TakeQueue, Flush, StartReading
      <3> QED
        BY <3>1
    <2> QED
      BY <1>2, <2>1, <2>2 DEF Connecting
  <1>3. ASSUME NEW a \in Apps, Send(a) \/ Disconnect(a) PROVE CrashInv'
    BY <1>3 DEF Send, Disconnect
  <1>4. ASSUME NEW r \in Conns, Reading(r) PROVE CrashInv'
    <2>1. pc[r] # "unborn" /\ UNCHANGED <<conn, closeChanDone>>
      BY <1>4 DEF Reading, ReadNext, ReadMessage, ReadFails, Down, Decide,
         LoadAttempts, StoreAttempts
    <2>2. EverConnected
      BY <2>1
    <2>3. crashed' => crashed \/ conn = 0
      BY <1>4 DEF Reading, ReadNext, ReadMessage, ReadFails, Down, Decide,
         LoadAttempts, StoreAttempts
    <2> QED
      BY <2>1, <2>2, <2>3
  <1>5. ASSUME NEW k \in Conns, Break(k) PROVE CrashInv'
    BY <1>5 DEF Break
  <1>6. CASE UNCHANGED vars
    BY <1>6 DEF vars
  <1> QED
    BY <1>1, <1>2, <1>3, <1>4, <1>5, <1>6 DEF Next

\* readLoop reads c.conn without the lock, and finds nil there only when the
\* application has disconnected: losses and reconnections alone, whatever
\* readLoops share the field, do not crash the process.
THEOREM CrashNeedsDisconnect == Safety => []CrashTakesDisconnect
  <1>1. Init => CrashInv
    BY BoundsAssumption DEF Init, CrashInv, CrashTakesDisconnect, EverConnected,
       Conns, Goroutines
  <1>2. CrashInv => CrashTakesDisconnect
    BY DEF CrashInv
  <1> QED
    BY <1>1, <1>2, InitShape, NextShape, NextCrash, PTL DEF Safety

-----------------------------------------------------------------------------
(* Types                                                                   *)

\* The readLoops that have counted their attempt, or will not count one.
Counted == {r \in Conns :
              pc[r] \in {"waiting", "install", "process", "flush", "exited"}}

\* The fields of the client, and what became of its connections.
LinkType ==
  /\ connected \in BOOLEAN
  /\ autoReconnect \in BOOLEAN
  /\ closeChanDone \in BOOLEAN
  /\ crashed \in BOOLEAN
  /\ up \subseteq Conns
  /\ refused \subseteq Conns

\* Where requests are.
SendType ==
  /\ messageQueue \in Seq(Requests)
  /\ batch \in [Goroutines -> Seq(Requests)]
  /\ sent \in 0..MaxSends
  /\ written \in Seq(Requests)
  /\ failed \subseteq Requests
  /\ lost \subseteq Requests

\* An attempt is counted by a readLoop that has not counted one yet.
CountType ==
  /\ attempts \in 0..Cardinality(Counted)
  /\ seen \in [Conns -> 0..MaxConns]
  /\ \A r \in Conns : seen[r] <= Cardinality(Counted)

\* A set of connections is finite, and counts more with another one.
LEMMA CountConns ==
  ASSUME NEW S \in SUBSET Conns, NEW T \in SUBSET S
  PROVE  /\ Cardinality(S) \in 0..MaxConns /\ Cardinality(T) \in 0..Cardinality(S)
         /\ \A r \in S \ T : Cardinality(T) + 1 <= Cardinality(S)
  <1>1. IsFiniteSet(Conns) /\ Cardinality(Conns) = MaxConns
    BY BoundsAssumption, FS_Interval DEF Conns
  <1>2. /\ IsFiniteSet(S) /\ Cardinality(S) \in Nat
        /\ Cardinality(S) <= Cardinality(Conns)
    BY <1>1, FS_Subset, FS_CardinalityType
  <1>3. /\ IsFiniteSet(T) /\ Cardinality(T) \in Nat
        /\ Cardinality(T) <= Cardinality(S)
    BY <1>2, FS_Subset, FS_CardinalityType
  <1>4. ASSUME NEW r \in S \ T PROVE Cardinality(T) + 1 <= Cardinality(S)
    <2>1. Cardinality(T \cup {r}) = Cardinality(T) + 1
      BY <1>3, FS_AddElement
    <2>2. T \cup {r} \in SUBSET S
      OBVIOUS
    <2> QED
      BY <1>2, <2>1, <2>2, FS_Subset
  <1> QED
    BY <1>1, <1>2, <1>3, <1>4, BoundsAssumption

\* The head and the tail of a queue, and what is appended to it.
LEMMA Queue ==
  ASSUME NEW q \in Seq(Requests)
  PROVE  /\ \A r \in Requests : Append(q, r) \in Seq(Requests)
         /\ q # <<>> => Head(q) \in Requests /\ Tail(q) \in Seq(Requests)
  BY AppendProperties, HeadTailProperties, LenProperties, ElementOfSeq

\* A request is taken from the head of a queue, and appended to another.
LEMMA NextSend == ShapeInv /\ SendType /\ [Next]_vars => SendType'
  <1> SUFFICES ASSUME ShapeInv, SendType, [Next]_vars PROVE SendType'
    OBVIOUS
  <1> USE DEF sendVars
  <1>1. ASSUME UNCHANGED sendVars PROVE SendType'
    BY <1>1 DEF SendType
  <1>2. ASSUME NEW g \in Goroutines, TakeQueue(g) PROVE SendType'
    <2>1. /\ batch' = [batch EXCEPT ![g] = messageQueue] /\ messageQueue' = <<>>
          /\ UNCHANGED <<sent, written, failed, lost>>
      BY <1>2 DEF TakeQueue
    <2>2. batch' \in [Goroutines -> Seq(Requests)] /\ messageQueue' \in Seq(Requests)
      BY <2>1, EmptySeq DEF SendType
    <2> QED
      BY <2>1, <2>2 DEF SendType
  <1>3. ASSUME NEW g \in Goroutines, Flush(g) PROVE SendType'
    <2>1. /\ batch[g] # <<>> /\ batch[g] \in Seq(Requests)
          /\ UNCHANGED <<sent, failed>>
      BY <1>3 DEF Flush, SendType
    <2>2. Head(batch[g]) \in Requests /\ Tail(batch[g]) \in Seq(Requests)
      BY <2>1, Queue
    <2>3. batch' \in [Goroutines -> Seq(Requests)]
      BY <1>3, <2>2 DEF Flush, SendType
    <2>4. /\ messageQueue' \in {messageQueue, Append(messageQueue, Head(batch[g]))}
          /\ written' \in {written, Append(written, Head(batch[g]))}
          /\ lost' \in {lost, lost \cup {Head(batch[g])}}
      BY <1>3 DEF Flush, Enqueue, WriteOut
    <2>5. messageQueue' \in Seq(Requests) /\ written' \in Seq(Requests)
      BY <2>2, <2>4, Queue DEF SendType
    <2> QED
      BY <2>1, <2>2, <2>3, <2>4, <2>5 DEF SendType
  <1>4. ASSUME NEW a \in Apps, Send(a) PROVE SendType'
    <2>1. /\ sent < MaxSends /\ sent' = sent + 1 /\ UNCHANGED <<batch, lost>>
          /\ messageQueue' \in {messageQueue, Append(messageQueue, sent')}
          /\ written' \in {written, Append(written, sent')}
          /\ failed' \in {failed, failed \cup {sent'}}
      BY <1>4 DEF Send, Enqueue, WriteOut
    <2>2. sent' \in Requests /\ sent' \in 0..MaxSends
      BY <2>1, BoundsAssumption DEF SendType, Requests
    <2>3. messageQueue' \in Seq(Requests) /\ written' \in Seq(Requests)
      BY <2>1, <2>2, Queue DEF SendType
    <2> QED
      BY <2>1, <2>2, <2>3 DEF SendType
  <1>5. ASSUME NEW g \in Goroutines,
               Dial(g) \/ DialFails(g) \/ Install(g) \/ StartReading(g)
        PROVE  SendType'
    BY <1>1, <1>5 DEF Dial, DialFails, Install, StartReading
  <1>6. ASSUME NEW a \in Apps, Disconnect(a) PROVE SendType'
    BY <1>1, <1>6 DEF Disconnect
  <1>7. ASSUME NEW r \in Conns, Reading(r) \/ Break(r) PROVE SendType'
    BY <1>1, <1>7 DEF Reading, ReadNext, ReadMessage, ReadFails, Down, Decide,
       LoadAttempts, StoreAttempts, Break
  <1>8. CASE UNCHANGED vars
    BY <1>1, <1>8 DEF vars
  <1> QED
    BY <1>2, <1>3, <1>4, <1>5, <1>6, <1>7, <1>8 DEF Next, Connecting

\* A connection opens where it is dialled; only the readLoop of a connection
\* is refused.
LEMMA NextLink == ShapeInv /\ LinkType /\ [Next]_vars => LinkType'
  <1> SUFFICES ASSUME ShapeInv, LinkType, [Next]_vars PROVE LinkType'
    OBVIOUS
  <1> USE DEF linkVars, tryVars, LinkType
  <1>1. ASSUME NEW g \in Goroutines, Dial(g) PROVE LinkType'
    <2>1. dialled + 1 \in Conns
      BY <1>1, BoundsAssumption DEF Dial, ShapeInv, Conns
    <2> QED
      BY <1>1, <2>1 DEF Dial
  <1>2. ASSUME NEW g \in Goroutines, DialFails(g) \/ Connecting(g)
        PROVE  LinkType'
    BY <1>2 DEF DialFails, Connecting, Install, TakeQueue, Flush, StartReading
  <1>3. ASSUME NEW a \in Apps, Send(a) \/ Disconnect(a) PROVE LinkType'
    BY <1>3 DEF Send, Disconnect
  <1>4. ASSUME NEW r \in Conns, Reading(r) \/ Break(r) PROVE LinkType'
    BY <1>4 DEF Reading, ReadNext, ReadMessage, ReadFails, Down, Decide,
       LoadAttempts, StoreAttempts, Break
  <1>5. CASE UNCHANGED vars
    BY <1>5 DEF vars
  <1> QED
    BY <1>1, <1>2, <1>3, <1>4, <1>5 DEF Next

\* Who has counted goes on to connect, or is through: it does not come back.
LEMMA CountedStay ==
  ASSUME ShapeInv, [Next]_vars
  PROVE  Counted \subseteq Counted'
  <1>t. pc \in [Goroutines -> Labels] /\ Conns \subseteq Goroutines
    BY DEF ShapeInv, Goroutines
  <1>a. \A r \in Conns : r \notin Apps
    BY BoundsAssumption
  <1> SUFFICES ASSUME NEW r \in Counted
               PROVE  r \in Counted'
    OBVIOUS
  <1>r. r \in Conns /\ r \in Goroutines
        /\ pc[r] \in {"waiting", "install", "process", "flush", "exited"}
    BY <1>t DEF Counted
  <1>s. ASSUME pc'[r] \in {pc[r], "waiting", "install", "process", "flush", "exited"}
        PROVE  r \in Counted'
    BY <1>r, <1>s DEF Counted
  <1>1. ASSUME NEW g \in Goroutines, Dial(g) \/ DialFails(g)
        PROVE  r \in Counted'
    BY <1>1, <1>t, <1>a, <1>r, <1>s DEF Dial, DialFails, Goto, Finished
  <1>2. ASSUME NEW g \in Goroutines, Connecting(g) PROVE r \in Counted'
    <2>1. CASE Install(g) \/ TakeQueue(g) \/ Flush(g)
      BY <2>1, <1>t, <1>r, <1>s DEF Install, TakeQueue, Flush, Goto
    <2>2. CASE StartReading(g)
      <3>1. /\ pc[g] = "flush"
            /\ pc' = [pc EXCEPT ![g] = Finished(g), ![mine[g]] = "top"]
        BY <2>2 DEF StartReading
      <3>2. r # mine[g]
        BY <1>r, <3>1 DEF ShapeInv, Underway
      <3> QED
        BY <1>t, <1>a, <1>r, <1>s, <3>1, <3>2 DEF Finished
    <2> QED
      BY <1>2, <2>1, <2>2 DEF Connecting
  <1>3. ASSUME NEW a \in Apps, Send(a) \/ Disconnect(a) PROVE r \in Counted'
    BY <1>3, <1>s DEF Send, Disconnect
  <1>4. ASSUME NEW k \in Conns, Reading(k) PROVE r \in Counted'
    <2>1. pc[k] \notin {"waiting", "install", "process", "flush", "exited"}
      BY <1>4 DEF Reading, ReadNext, ReadMessage, ReadFails, Down, Decide,
         LoadAttempts, StoreAttempts
    <2>2. \A h \in Goroutines \ {k} : pc'[h] = pc[h]
      BY <1>4, <1>t DEF Reading, ReadNext, ReadMessage, ReadFails, Down, Decide,
         LoadAttempts, StoreAttempts, Goto
    <2> QED
      BY <1>r, <1>s, <2>1, <2>2
  <1>5. ASSUME NEW k \in Conns, Break(k) PROVE r \in Counted'
    BY <1>5, <1>s DEF Break
  <1>6. CASE UNCHANGED vars
    BY <1>6, <1>s DEF vars
  <1> QED
    BY <1>1, <1>2, <1>3, <1>4, <1>5, <1>6 DEF Next

\* reconnectAttempts is loaded and stored without a lock, but every store is
\* by a readLoop that has not counted before.
LEMMA NextCount == ShapeInv /\ CountType /\ [Next]_vars => CountType'
  <1> SUFFICES ASSUME ShapeInv, CountType, [Next]_vars PROVE CountType'
    OBVIOUS
  <1> USE DEF tryVars
  <1> DEFINE n == Cardinality(Counted)
             m == Cardinality(Counted')
  <1>1. Counted \in SUBSET Counted' /\ Counted' \in SUBSET Conns
    <2>1. Counted \subseteq Counted'
      BY CountedStay
    <2>2. Counted' \subseteq Conns
      BY DEF Counted
    <2> QED
      BY <2>1, <2>2
  <1>2. /\ m \in 0..MaxConns /\ n \in 0..m
        /\ \A r \in Counted' \ Counted : n + 1 <= m
    BY <1>1, CountConns
  <1>3. /\ attempts \in 0..n /\ seen \in [Conns -> 0..MaxConns]
        /\ \A r \in Conns : seen[r] <= n
    BY DEF CountType
  <1>4. Cardinality(Counted)' = m
    OBVIOUS
  <1> HIDE DEF n, m
  <1>5. ASSUME attempts' \in 0..m, seen' \in [Conns -> 0..MaxConns],
               \A r \in Conns : seen'[r] <= m
        PROVE  CountType'
    BY <1>4, <1>5 DEF CountType
  <1>6. ASSUME attempts' \in {0, attempts}, seen' = seen PROVE CountType'
    <2>1. attempts' \in 0..m
      BY <1>2, <1>3, <1>6
    <2>2. \A r \in Conns : seen'[r] <= m
      BY <1>2, <1>3, <1>6, BoundsAssumption
    <2> QED
      BY <1>3, <1>5, <1>6, <2>1, <2>2
  <1>7. ASSUME NEW g \in Goroutines, Dial(g) \/ DialFails(g) \/ Connecting(g)
        PROVE  CountType'
    BY <1>6, <1>7 DEF Dial, DialFails, Connecting, Install, TakeQueue, Flush,
       StartReading
  <1>8. ASSUME NEW a \in Apps, Send(a) \/ Disconnect(a) PROVE CountType'
    BY <1>6, <1>8 DEF Send, Disconnect
  <1>9. ASSUME NEW r \in Conns, Reading(r) PROVE CountType'
    <2>1. CASE LoadAttempts(r)
      <3>1. attempts' = attempts /\ seen' = [seen EXCEPT ![r] = attempts]
        BY <2>1 DEF LoadAttempts
      <3>2. attempts \in 0..m /\ attempts \in 0..MaxConns
        BY <1>2, <1>3, BoundsAssumption
      <3>3. seen' \in [Conns -> 0..MaxConns]
        BY <1>3, <3>1, <3>2
      <3>4. \A k \in Conns : seen'[k] <= m
        BY <1>2, <1>3, <3>1, <3>2, BoundsAssumption
      <3> QED
        BY <1>5, <3>1, <3>2, <3>3, <3>4
    <2>2. CASE StoreAttempts(r)
      <3>1. /\ pc[r] = "store" /\ pc' = [pc EXCEPT ![r] = "waiting"]
            /\ attempts' = seen[r] + 1 /\ seen' = seen
        BY <2>2 DEF StoreAttempts, Goto
      <3>2. r \in Goroutines /\ pc \in [Goroutines -> Labels]
        BY DEF Goroutines, ShapeInv
      <3>3. r \in Counted' \ Counted
        <4>1. pc'[r] = "waiting"
          BY <3>1, <3>2
        <4> QED
          BY <3>1, <4>1 DEF Counted
      <3>4. n + 1 <= m
        BY <1>2, <3>3
      <3>5. seen[r] \in 0..n
        BY <1>3, <1>2, BoundsAssumption
      <3>6. attempts' \in 0..m
        BY <1>2, <3>1, <3>4, <3>5
      <3>7. \A k \in Conns : seen'[k] <= m
        BY <1>2, <1>3, <3>1, BoundsAssumption
      <3> QED
        BY <1>3, <1>5, <3>1, <3>6, <3>7
    <2>3. CASE ReadNext(r) \/ ReadMessage(r) \/ ReadFails(r) \/ Down(r) \/ Decide(r)
      BY <1>6, <2>3 DEF ReadNext, ReadMessage, ReadFails, Down, Decide
    <2> QED
      BY <1>9, <2>1, <2>2, <2>3 DEF Reading
  <1>10. ASSUME NEW k \in Conns, Break(k) PROVE CountType'
    BY <1>6, <1>10 DEF Break
  <1>11. CASE UNCHANGED vars
    BY <1>6, <1>11 DEF vars
  <1> QED
    BY <1>7, <1>8, <1>9, <1>10, <1>11 DEF Next

\* Nothing is sent and nothing counted at first.
LEMMA InitType == Init => LinkType /\ SendType /\ CountType
  <1> SUFFICES ASSUME Init PROVE LinkType /\ SendType /\ CountType
    OBVIOUS
  <1>1. LinkType
    BY DEF Init, LinkType
  <1>2. SendType
    <2>1. <<>> \in Seq(Requests)
      BY EmptySeq
    <2> QED
      BY <2>1, BoundsAssumption DEF Init, SendType
  <1>3. CountType
    <2>1. Cardinality(Counted) \in Nat
      <3>1. Counted \in SUBSET Conns
        BY DEF Counted
      <3> QED
        BY <3>1, CountConns
    <2> QED
      BY <2>1, BoundsAssumption DEF Init, CountType
  <1> QED
    BY <1>1, <1>2, <1>3

\* Every variable keeps its type; the attempts, which two readLoops may
\* count at the same time, never exceed the connections made.
THEOREM TypeCorrect == Safety => []TypeOK
  <1>1. ShapeInv /\ LinkType /\ SendType /\ CountType => TypeOK
    <2> SUFFICES ASSUME ShapeInv, LinkType, SendType, CountType PROVE TypeOK
      OBVIOUS
    <2>1. Counted \in SUBSET Conns
      BY DEF Counted
    <2>2. attempts \in 0..MaxConns
      <3>1. Cardinality(Counted) \in 0..MaxConns
        BY <2>1, CountConns
      <3> QED
        BY <3>1, BoundsAssumption DEF CountType
    <2>3. conn \in 0..MaxConns
      BY BoundsAssumption DEF ShapeInv
    <2>4. pc \in [Goroutines -> Labels] /\ mine \in [Goroutines -> 0..MaxConns]
          /\ dialled \in 0..MaxConns
      BY DEF ShapeInv
    <2>5. seen \in [Conns -> 0..MaxConns]
      BY DEF CountType
    <2> QED
      BY <2>2, <2>3, <2>4, <2>5 DEF TypeOK, LinkType, SendType
  <1> QED
    BY <1>1, InitType, InitShape, NextShape, NextLink, NextSend, NextCount, PTL
       DEF Safety

-----------------------------------------------------------------------------
(* The requests                                                            *)

\* What a queue with no repeats holds, when it is empty, grows and shrinks.
LEMMA Places ==
  ASSUME NEW q \in Seq(Requests)
  PROVE  /\ Elements(q) \subseteq Requests
         /\ q = <<>> => Elements(q) = {} /\ Distinct(q)
         /\ \A r \in Requests :
              /\ Elements(Append(q, r)) = Elements(q) \cup {r}
              /\ Distinct(q) /\ r \notin Elements(q) => Distinct(Append(q, r))
         /\ q # <<>> =>
              /\ Elements(q) = Elements(Tail(q)) \cup {Head(q)}
              /\ Distinct(q) =>
                   Distinct(Tail(q)) /\ Head(q) \notin Elements(Tail(q))
  <1>1. /\ Len(q) \in Nat /\ DOMAIN q = 1..Len(q)
        /\ \A i \in 1..Len(q) : q[i] \in Requests
    BY LenProperties, ElementOfSeq
  <1>2. Elements(q) \subseteq Requests
    BY <1>1 DEF Elements
  <1>3. ASSUME q = <<>> PROVE Elements(q) = {} /\ Distinct(q)
    <2>1. DOMAIN q = {}
      BY <1>1, <1>3, EmptySeq
    <2> QED
      BY <2>1 DEF Elements, Distinct
  <1>4. ASSUME NEW r \in Requests
        PROVE  /\ Elements(Append(q, r)) = Elements(q) \cup {r}
               /\ Distinct(q) /\ r \notin Elements(q) => Distinct(Append(q, r))
    <2> DEFINE p == Append(q, r)
               n == Len(q)
    <2>1. /\ DOMAIN p = 1..n + 1 /\ p[n + 1] = r
          /\ \A i \in 1..n : p[i] = q[i]
      BY <1>1, AppendProperties, LenProperties
    <2>2. /\ 1..n + 1 = 1..n \cup {n + 1} /\ n + 1 \notin 1..n
      BY <1>1
    <2> HIDE DEF p, n
    <2>3. DOMAIN q = 1..n
      BY <1>1 DEF n
    <2>4. Elements(p) = Elements(q) \cup {r}
      BY <2>1, <2>2, <2>3 DEF Elements
    <2>5. ASSUME Distinct(q), r \notin Elements(q) PROVE Distinct(p)
      BY <2>1, <2>2, <2>3, <2>5 DEF Elements, Distinct
    <2> QED
      BY <2>4, <2>5 DEF p
  <1>5. ASSUME q # <<>>
        PROVE  /\ Elements(q) = Elements(Tail(q)) \cup {Head(q)}
               /\ Distinct(q) =>
                    Distinct(Tail(q)) /\ Head(q) \notin Elements(Tail(q))
    <2> DEFINE t == Tail(q)
               n == Len(q)
    <2>1. /\ n \in Nat /\ n >= 1 /\ Head(q) = q[1]
          /\ DOMAIN t = 1..n - 1 /\ \A i \in 1..n - 1 : t[i] = q[i + 1]
      BY <1>1, <1>5, HeadTailProperties, LenProperties, EmptySeq
    <2> HIDE DEF t, n
    <2>2. DOMAIN q = 1..n
      BY <1>1 DEF n
    <2>3. \A i \in 1..n - 1 : i + 1 \in 1..n /\ i + 1 # 1
      BY <2>1
    <2>4. \A i \in 1..n : i = 1 \/ (i - 1 \in 1..n - 1 /\ (i - 1) + 1 = i)
      BY <2>1
    <2>5. 1 \in 1..n
      BY <2>1
    <2>6. Elements(q) \subseteq Elements(t) \cup {Head(q)}
      <3> SUFFICES ASSUME NEW i \in 1..n, i # 1 PROVE q[i] \in Elements(t)
        BY <2>1, <2>2 DEF Elements
      <3>1. i - 1 \in 1..n - 1 /\ (i - 1) + 1 = i
        BY <2>4
      <3>2. t[i - 1] = q[i]
        BY <2>1, <3>1
      <3> QED
        BY <2>1, <3>1, <3>2 DEF Elements
    <2>7. Elements(t) \subseteq Elements(q) /\ Head(q) \in Elements(q)
      BY <2>1, <2>2, <2>3, <2>5 DEF Elements
    <2>8. ASSUME Distinct(q) PROVE Head(q) \notin Elements(t)
      BY <2>1, <2>2, <2>3, <2>5, <2>8 DEF Elements, Distinct
    <2>9. ASSUME Distinct(q) PROVE Distinct(t)
      <3> SUFFICES ASSUME NEW i \in 1..n - 1, NEW j \in 1..n - 1, t[i] = t[j]
                   PROVE  i = j
        BY <2>1 DEF Distinct
      <3>1. i + 1 = j + 1
        BY <2>1, <2>2, <2>3, <2>9 DEF Distinct
      <3> QED
        BY <3>1
    <2> QED
      BY <2>6, <2>7, <2>8, <2>9 DEF t
  <1> QED
    BY <1>2, <1>3, <1>4, <1>5

\* Only a processQueue in its loop has a batch.
BatchInv ==
  \A g \in Goroutines : pc[g] # "flush" => batch[g] = <<>>

\* The requests in the hands of some processQueue, and those in the queue or
\* through.
Taken == UNION {Elements(batch[g]) : g \in Goroutines}
Rest == Elements(messageQueue) \cup Elements(written) \cup failed \cup lost

\* Outside the batches no request is in two places.
Apart ==
  /\ Elements(messageQueue) \cap Elements(written) = {}
  /\ (Elements(messageQueue) \cup Elements(written)) \cap (failed \cup lost) = {}
  /\ failed \cap lost = {}
  /\ Distinct(messageQueue) /\ Distinct(written)

\* No request is in two batches, or twice in one.
BatchesApart ==
  \A g, h \in Goroutines :
    /\ Distinct(batch[g])
    /\ g # h => Elements(batch[g]) \cap Elements(batch[h]) = {}

\* RequestsAccounted, part by part.
PlaceInv ==
  /\ BatchInv /\ Apart /\ BatchesApart
  /\ Rest \cap Taken = {} /\ Rest \cup Taken = 1..sent

\* A request new to the queue, to what was written or to what failed or was
\* lost is in one of them.
LEMMA Deliver ==
  ASSUME SendType, Apart, NEW r \in Requests, r \notin Rest,
         \/ /\ messageQueue' = Append(messageQueue, r)
            /\ UNCHANGED <<written, failed, lost>>
         \/ /\ written' = Append(written, r)
            /\ UNCHANGED <<messageQueue, failed, lost>>
         \/ /\ failed' = failed \cup {r}
            /\ UNCHANGED <<messageQueue, written, lost>>
         \/ /\ lost' = lost \cup {r}
            /\ UNCHANGED <<messageQueue, written, failed>>
  PROVE  Apart' /\ Rest' = Rest \cup {r}
  <1> DEFINE Q == Elements(messageQueue)
             W == Elements(written)
             Q1 == Elements(messageQueue')
             W1 == Elements(written')
  <1>q. /\ messageQueue \in Seq(Requests) /\ written \in Seq(Requests)
        /\ Distinct(messageQueue) /\ Distinct(written)
        /\ r \notin Q /\ r \notin W /\ r \notin failed /\ r \notin lost
        /\ Q \cap W = {} /\ (Q \cup W) \cap (failed \cup lost) = {}
        /\ failed \cap lost = {} /\ Rest = Q \cup W \cup failed \cup lost
    BY DEF SendType, Apart, Rest
  <1>g. /\ Rest' = Q1 \cup W1 \cup failed' \cup lost'
        /\ Apart' <=> /\ Q1 \cap W1 = {}
                      /\ (Q1 \cup W1) \cap (failed' \cup lost') = {}
                      /\ failed' \cap lost' = {}
                      /\ Distinct(messageQueue') /\ Distinct(written')
    BY DEF Rest, Apart, Elements, Distinct
  <1>1. CASE /\ messageQueue' = Append(messageQueue, r)
             /\ UNCHANGED <<written, failed, lost>>
    <2>1. Q1 = Q \cup {r} /\ Distinct(messageQueue') /\ W1 = W
      BY <1>1, <1>q, Places
    <2> HIDE DEF Q, W, Q1, W1
    <2> QED
      BY <1>1, <1>q, <1>g, <2>1
  <1>2. CASE /\ written' = Append(written, r)
             /\ UNCHANGED <<messageQueue, failed, lost>>
    <2>1. W1 = W \cup {r} /\ Distinct(written') /\ Q1 = Q
      BY <1>2, <1>q, Places
    <2> HIDE DEF Q, W, Q1, W1
    <2> QED
      BY <1>2, <1>q, <1>g, <2>1
  <1>3. CASE /\ UNCHANGED <<messageQueue, written>>
             /\ \/ failed' = failed \cup {r} /\ lost' = lost
                \/ lost' = lost \cup {r} /\ failed' = failed
    <2>1. Q1 = Q /\ W1 = W
      BY <1>3
    <2> HIDE DEF Q, W, Q1, W1
    <2> QED
      BY <1>3, <1>q, <1>g, <2>1
  <1> QED
    BY <1>1, <1>2, <1>3

\* What a processQueue takes out of the queue is in its hands alone.
LEMMA TakeMoves ==
  ASSUME SendType, BatchInv, NEW g \in Goroutines, TakeQueue(g)
  PROVE  /\ batch'[g] = messageQueue /\ Elements(batch[g]) = {}
         /\ \A h \in Goroutines \ {g} : batch'[h] = batch[h]
         /\ Elements(messageQueue') = {} /\ Distinct(messageQueue')
         /\ Taken' = Taken \cup Elements(messageQueue)
  <1>1. /\ pc[g] = "process" /\ messageQueue' = <<>>
        /\ batch' = [batch EXCEPT ![g] = messageQueue]
    BY DEF TakeQueue
  <1>2. /\ batch[g] = <<>> /\ messageQueue \in Seq(Requests)
        /\ batch \in [Goroutines -> Seq(Requests)]
    BY <1>1 DEF BatchInv, SendType
  <1>3. /\ batch'[g] = messageQueue
        /\ \A h \in Goroutines \ {g} : batch'[h] = batch[h]
    BY <1>1, <1>2
  <1>4. /\ Elements(batch[g]) = {} /\ Elements(messageQueue') = {}
        /\ Distinct(messageQueue')
    BY <1>1, <1>2, EmptySeq, Places
  <1>5. Taken' = Taken \cup Elements(messageQueue)
    BY <1>3, <1>4 DEF Taken
  <1> QED
    BY <1>3, <1>4, <1>5

\* The queue as a whole becomes one batch.
LEMMA TakePlaces ==
  ASSUME SendType, PlaceInv, ShapeInv, NEW g \in Goroutines, TakeQueue(g)
  PROVE  PlaceInv'
  <1> DEFINE Q == Elements(messageQueue)
  <1>1. /\ pc[g] = "process" /\ pc' = [pc EXCEPT ![g] = "flush"]
        /\ pc \in [Goroutines -> Labels]
        /\ UNCHANGED <<sent, written, failed, lost>>
    BY DEF TakeQueue, Goto, ShapeInv
  <1>2. /\ batch'[g] = messageQueue /\ Elements(batch[g]) = {}
        /\ \A h \in Goroutines \ {g} : batch'[h] = batch[h]
        /\ Elements(messageQueue') = {} /\ Distinct(messageQueue')
        /\ Taken' = Taken \cup Q
    BY TakeMoves DEF PlaceInv
  <1>3. pc'[g] = "flush" /\ \A h \in Goroutines \ {g} : pc'[h] = pc[h]
    BY <1>1
  <1>4. BatchInv'
    BY <1>2, <1>3 DEF PlaceInv, BatchInv
  <1>5. Apart'
    BY <1>1, <1>2 DEF PlaceInv, Apart
  <1>6. Rest' = Rest \ Q /\ Q \subseteq Rest
    BY <1>1, <1>2 DEF PlaceInv, Apart, Rest
  <1>7. \A h \in Goroutines : Elements(batch[h]) \cap Q = {}
    BY <1>6 DEF PlaceInv, Taken
  <1>8. ASSUME NEW h \in Goroutines, NEW k \in Goroutines
        PROVE  /\ Distinct(batch'[h])
               /\ h # k => Elements(batch'[h]) \cap Elements(batch'[k]) = {}
    <2>1. Distinct(batch'[h])
      BY <1>2 DEF PlaceInv, Apart, BatchesApart
    <2>2. ASSUME h # k PROVE Elements(batch'[h]) \cap Elements(batch'[k]) = {}
      <3>1. CASE h = g
        BY <1>2, <1>7, <2>2, <3>1
      <3>2. CASE k = g
        BY <1>2, <1>7, <2>2, <3>2
      <3>3. CASE h # g /\ k # g
        BY <1>2, <2>2, <3>3 DEF PlaceInv, BatchesApart
      <3> QED
        BY <3>1, <3>2, <3>3
    <2> QED
      BY <2>1, <2>2
  <1> HIDE DEF Q
  <1>9. BatchesApart'
    BY <1>8 DEF BatchesApart
  <1>10. Rest' \cap Taken' = {} /\ Rest' \cup Taken' = 1..sent'
    BY <1>1, <1>2, <1>6 DEF PlaceInv
  <1> QED
    BY <1>4, <1>5, <1>9, <1>10 DEF PlaceInv

\* The head of a batch is in no other place, and in no batch afterwards.
LEMMA FlushMoves ==
  ASSUME SendType, PlaceInv, NEW g \in Goroutines, Flush(g),
         NEW r, r = Head(batch[g])
  PROVE  /\ r \in Requests /\ r \in Taken /\ r \notin Rest
         /\ Taken' = Taken \ {r}
         /\ \A h \in Goroutines \ {g} : batch'[h] = batch[h]
         /\ Elements(batch'[g]) \subseteq Elements(batch[g])
         /\ Distinct(batch'[g])
         /\ \/ /\ messageQueue' = Append(messageQueue, r)
               /\ UNCHANGED <<written, failed, lost>>
            \/ /\ written' = Append(written, r)
               /\ UNCHANGED <<messageQueue, failed, lost>>
            \/ /\ lost' = lost \cup {r}
               /\ UNCHANGED <<messageQueue, written, failed>>
  <1> DEFINE T == Elements(Tail(batch[g]))
  <1>1. /\ batch[g] # <<>> /\ batch' = [batch EXCEPT ![g] = Tail(batch[g])]
        /\ failed' = failed
    BY DEF Flush
  <1>2. batch[g] \in Seq(Requests) /\ batch \in [Goroutines -> Seq(Requests)]
    BY DEF SendType
  <1>3. /\ batch'[g] = Tail(batch[g])
        /\ \A h \in Goroutines \ {g} : batch'[h] = batch[h]
    BY <1>1, <1>2
  <1>4. Distinct(batch[g])
    BY DEF PlaceInv, BatchesApart
  <1>5. r \in Requests
    BY <1>1, <1>2, Queue
  <1>6. /\ Elements(batch[g]) = T \cup {r} /\ r \notin T
        /\ Distinct(Tail(batch[g]))
    BY <1>1, <1>2, <1>4, Places
  <1>7. \/ messageQueue' = Append(messageQueue, r) /\ UNCHANGED <<written, lost>>
        \/ written' = Append(written, r) /\ UNCHANGED <<messageQueue, lost>>
        \/ lost' = lost \cup {r} /\ UNCHANGED <<messageQueue, written>>
    BY DEF Flush, Enqueue, WriteOut
  <1>8. Elements(batch'[g]) = T
    BY <1>3
  <1> HIDE DEF T
  <1>9. r \in Taken /\ r \notin Rest
    BY <1>6 DEF PlaceInv, Taken
  <1>10. \A h \in Goroutines \ {g} : r \notin Elements(batch[h])
    BY <1>6 DEF PlaceInv, BatchesApart
  <1>11. Taken' = Taken \ {r}
    <2>1. ASSUME NEW q, q \in Taken' PROVE q \in Taken \ {r}
      <3>1. PICK h \in Goroutines : q \in Elements(batch'[h])
        BY <2>1 DEF Taken
      <3> QED
        BY <1>3, <1>6, <1>8, <1>10, <3>1 DEF Taken
    <2>2. ASSUME NEW q, q \in Taken, q # r PROVE q \in Taken'
      <3>1. PICK h \in Goroutines : q \in Elements(batch[h])
        BY <2>2 DEF Taken
      <3>2. q \in Elements(batch'[h])
        BY <1>3, <1>6, <1>8, <2>2, <3>1
      <3> QED
        BY <3>2 DEF Taken
    <2> QED
      BY <2>1, <2>2
  <1>12. Elements(batch'[g]) \subseteq Elements(batch[g]) /\ Distinct(batch'[g])
    BY <1>3, <1>6, <1>8
  <1> QED
    BY <1>1, <1>3, <1>5, <1>7, <1>9, <1>11, <1>12

\* The head of a batch goes to one place.
LEMMA FlushPlaces ==
  ASSUME SendType, PlaceInv, ShapeInv, NEW g \in Goroutines, Flush(g)
  PROVE  PlaceInv'
  <1> DEFINE r == Head(batch[g])
  <1>1. /\ r \in Requests /\ r \in Taken /\ r \notin Rest
        /\ Taken' = Taken \ {r}
        /\ \A h \in Goroutines \ {g} : batch'[h] = batch[h]
        /\ Elements(batch'[g]) \subseteq Elements(batch[g])
        /\ Distinct(batch'[g])
        /\ \/ /\ messageQueue' = Append(messageQueue, r)
              /\ UNCHANGED <<written, failed, lost>>
           \/ /\ written' = Append(written, r)
              /\ UNCHANGED <<messageQueue, failed, lost>>
           \/ /\ lost' = lost \cup {r}
              /\ UNCHANGED <<messageQueue, written, failed>>
    BY FlushMoves
  <1>2. pc[g] = "flush" /\ UNCHANGED <<sent, pc>>
    BY DEF Flush
  <1> HIDE DEF r
  <1>3. Apart' /\ Rest' = Rest \cup {r}
    <2>1. Apart
      BY DEF PlaceInv
    <2> QED
      BY <1>1, <2>1, Deliver
  <1>4. BatchInv'
    BY <1>1, <1>2 DEF PlaceInv, BatchInv
  <1>5. \A h \in Goroutines : Elements(batch'[h]) \subseteq Elements(batch[h])
    BY <1>1
  <1>6. BatchesApart'
    <2>1. \A h \in Goroutines : Distinct(batch'[h])
      BY <1>1 DEF PlaceInv, BatchesApart
    <2>2. \A h, k \in Goroutines : h # k =>
            Elements(batch'[h]) \cap Elements(batch'[k]) = {}
      BY <1>5 DEF PlaceInv, BatchesApart
    <2> QED
      BY <2>1, <2>2 DEF BatchesApart
  <1>7. Rest' \cap Taken' = {} /\ Rest' \cup Taken' = 1..sent'
    BY <1>1, <1>2, <1>3 DEF PlaceInv
  <1> QED
    BY <1>3, <1>4, <1>6, <1>7 DEF PlaceInv

\* A new request goes to one place.
LEMMA SendPlaces ==
  ASSUME SendType, PlaceInv, NEW a \in Apps, Send(a)
  PROVE  PlaceInv'
  <1> DEFINE r == sent + 1
  <1>1. /\ sent < MaxSends /\ sent' = r /\ UNCHANGED <<batch, pc, lost>>
    BY DEF Send
  <1>2. /\ r \in Requests /\ r \notin 1..sent /\ 1..sent' = 1..sent \cup {r}
    BY <1>1, BoundsAssumption DEF SendType, Requests
  <1>3. \/ /\ messageQueue' = Append(messageQueue, r)
           /\ UNCHANGED <<written, failed>>
        \/ written' = Append(written, r) /\ UNCHANGED <<messageQueue, failed>>
        \/ failed' = failed \cup {r} /\ UNCHANGED <<messageQueue, written>>
    BY DEF Send, Enqueue, WriteOut
  <1> HIDE DEF r
  <1>4. r \notin Rest /\ r \notin Taken
    BY <1>2 DEF PlaceInv
  <1>5. Apart' /\ Rest' = Rest \cup {r}
    <2>1. Apart
      BY DEF PlaceInv
    <2> QED
      BY <1>1, <1>2, <1>3, <1>4, <2>1, Deliver
  <1>6. Taken' = Taken /\ BatchesApart' /\ BatchInv'
    BY <1>1 DEF PlaceInv, Taken, BatchesApart, BatchInv
  <1>7. Rest' \cap Taken' = {} /\ Rest' \cup Taken' = 1..sent'
    BY <1>2, <1>4, <1>5, <1>6 DEF PlaceInv
  <1> QED
    BY <1>5, <1>6, <1>7 DEF PlaceInv

\* Every step leaves the requests where they are, or moves one, or moves the
\* queue as a whole into the hands of a processQueue.
LEMMA NextPlace ==
  ASSUME ShapeInv, SendType, PlaceInv, [Next]_vars
  PROVE  PlaceInv'
  <1> USE DEF sendVars
  <1>t. pc \in [Goroutines -> Labels] /\ Conns \subseteq Goroutines
    BY DEF ShapeInv, Goroutines
  <1>1. ASSUME UNCHANGED sendVars,
               \A h \in Goroutines : pc[h] = "flush" =>
                 pc'[h] = "flush" \/ batch[h] = <<>>
        PROVE  PlaceInv'
    <2>1. BatchInv'
      BY <1>1 DEF PlaceInv, BatchInv
    <2> QED
      BY <1>1, <2>1 DEF PlaceInv, Apart, BatchesApart, Rest, Taken
  <1>2. ASSUME NEW g \in Goroutines, Dial(g) \/ DialFails(g) \/ Install(g)
        PROVE  PlaceInv'
    <2>1. /\ pc[g] # "flush" /\ UNCHANGED sendVars
          /\ \A h \in Goroutines \ {g} : pc'[h] = pc[h]
      BY <1>2, <1>t DEF Dial, DialFails, MayConnect, Install, Goto
    <2> QED
      BY <1>1, <2>1
  <1>3. ASSUME NEW g \in Goroutines, StartReading(g) PROVE PlaceInv'
    <2>1. /\ pc[g] = "flush" /\ batch[g] = <<>> /\ UNCHANGED sendVars
          /\ pc' = [pc EXCEPT ![g] = Finished(g), ![mine[g]] = "top"]
      BY <1>3 DEF StartReading
    <2>2. pc[mine[g]] = "unborn"
      BY <2>1 DEF ShapeInv, Underway
    <2>3. \A h \in Goroutines \ {g} : pc[h] = "flush" => pc'[h] = "flush"
      BY <1>t, <2>1, <2>2
    <2> QED
      BY <1>1, <2>1, <2>3
  <1>4. ASSUME NEW a \in Apps, Disconnect(a) PROVE PlaceInv'
    BY <1>1, <1>4 DEF Disconnect
  <1>5. ASSUME NEW r \in Conns, Reading(r) PROVE PlaceInv'
    <2>1. /\ pc[r] # "flush" /\ UNCHANGED sendVars
      BY <1>5 DEF Reading, ReadNext, ReadMessage, ReadFails, Down, Decide,
         LoadAttempts, StoreAttempts
    <2>2. \A h \in Goroutines \ {r} : pc'[h] = pc[h]
      BY <1>5, <1>t DEF Reading, ReadNext, ReadMessage, ReadFails, Down, Decide,
         LoadAttempts, StoreAttempts, Goto
    <2> QED
      BY <1>1, <2>1, <2>2
  <1>6. ASSUME NEW k \in Conns, Break(k) PROVE PlaceInv'
    BY <1>1, <1>6 DEF Break
  <1>7. CASE UNCHANGED vars
    BY <1>1, <1>7 DEF vars
  <1> QED
    BY <1>2, <1>3, <1>4, <1>5, <1>6, <1>7, TakePlaces, FlushPlaces, SendPlaces
       DEF Next, Connecting

\* No request is anywhere at first.
LEMMA InitPlace == Init => PlaceInv
  <1> SUFFICES ASSUME Init PROVE PlaceInv
    OBVIOUS
  <1>1. <<>> \in Seq(Requests)
    BY EmptySeq
  <1>2. Elements(<<>>) = {} /\ Distinct(<<>>)
    BY <1>1, Places
  <1>3. /\ messageQueue = <<>> /\ written = <<>> /\ failed = {} /\ lost = {}
        /\ sent = 0 /\ \A g \in Goroutines : batch[g] = <<>>
    BY DEF Init
  <1>4. BatchInv /\ Apart /\ BatchesApart
    BY <1>2, <1>3 DEF BatchInv, Apart, BatchesApart
  <1>5. Rest = {} /\ Taken = {}
    BY <1>2, <1>3 DEF Rest, Taken
  <1>6. 1..sent = {}
    BY <1>3
  <1> QED
    BY <1>4, <1>5, <1>6 DEF PlaceInv

\* No request is dropped silently, sent twice or in two hands, whatever
\* Connects, readers and senders run at the same time.
THEOREM AllAccounted == Safety => []RequestsAccounted
  <1>1. ASSUME PlaceInv PROVE RequestsAccounted
    <2>1. /\ Apart /\ BatchesApart /\ Rest \cap Taken = {}
          /\ Rest \cup Taken = 1..sent
      BY <1>1 DEF PlaceInv
    <2> DEFINE Q == Elements(messageQueue)
               W == Elements(written)
    <2>2. /\ Q \cap W = {} /\ (Q \cup W) \cap (failed \cup lost) = {}
          /\ failed \cap lost = {} /\ Rest = Q \cup W \cup failed \cup lost
      BY <2>1 DEF Apart, Rest
    <2> HIDE DEF Q, W
    <2>3. /\ Q \cup Taken \cup W \cup failed \cup lost = 1..sent
          /\ Q \cap (Taken \cup W \cup failed \cup lost) = {}
          /\ Taken \cap (W \cup failed \cup lost) = {}
          /\ W \cap (failed \cup lost) = {} /\ failed \cap lost = {}
      BY <2>1, <2>2
    <2>4. Distinct(messageQueue) /\ Distinct(written)
      BY <2>1 DEF Apart
    <2> QED
      BY <2>1, <2>3, <2>4 DEF RequestsAccounted, Taken, BatchesApart, Q, W
  <1> QED
    BY <1>1, InitPlace, InitType, InitShape, NextShape, NextSend, NextPlace, PTL
       DEF Safety

-----------------------------------------------------------------------------
(* The ledger                                                              *)

\* What RefinesLedger takes for held.
Held ==
  Elements(messageQueue) \cup UNION {Elements(batch[g]) : g \in Goroutines}

\* A request that is handed on: to the queue, where it stays held, to the
\* connection, or nowhere.
LEMMA FlushLedger ==
  ASSUME SendType, PlaceInv, NEW g \in Goroutines, Flush(g)
  PROVE  [Ledger!Next]_(Ledger!ledgerVars)
  <1> DEFINE r == Head(batch[g])
  <1>1. /\ r \in Requests /\ r \in Taken /\ r \notin Rest
        /\ Taken' = Taken \ {r}
        /\ \/ /\ messageQueue' = Append(messageQueue, r)
              /\ UNCHANGED <<written, failed, lost>>
           \/ /\ written' = Append(written, r)
              /\ UNCHANGED <<messageQueue, failed, lost>>
           \/ /\ lost' = lost \cup {r}
              /\ UNCHANGED <<messageQueue, written, failed>>
    BY FlushMoves
  <1> HIDE DEF r
  <1>2. messageQueue \in Seq(Requests) /\ written \in Seq(Requests)
    BY DEF SendType
  <1>3. /\ Held = Elements(messageQueue) \cup Taken
        /\ Held' = Elements(messageQueue') \cup Taken'
        /\ r \notin Elements(messageQueue) /\ {r} \in SUBSET Held
    BY <1>1 DEF Held, Taken, Rest
  <1>4. CASE /\ messageQueue' = Append(messageQueue, r)
             /\ UNCHANGED <<written, failed, lost>>
    <2>1. Elements(messageQueue') = Elements(messageQueue) \cup {r}
      BY <1>1, <1>2, <1>4, Places
    <2>2. Held' = Held
      BY <1>1, <1>3, <2>1
    <2> QED
      BY <1>4, <2>2 DEF Ledger!ledgerVars, Held
  <1>5. CASE /\ written' = Append(written, r)
             /\ UNCHANGED <<messageQueue, failed, lost>>
    <2>1. Elements(written') = Elements(written) \cup {r}
      BY <1>1, <1>2, <1>5, Places
    <2>2. Held' = Held \ {r}
      BY <1>1, <1>3, <1>5
    <2>3. Ledger!PassOn({r})
      BY <1>5, <2>1, <2>2 DEF Ledger!PassOn, Held
    <2> QED
      BY <1>3, <2>3 DEF Ledger!Next, Held
  <1>6. CASE /\ lost' = lost \cup {r}
             /\ UNCHANGED <<messageQueue, written, failed>>
    <2>1. Held' = Held \ {r}
      BY <1>1, <1>3, <1>6
    <2>2. Ledger!PassOn({r})
      BY <1>6, <2>1 DEF Ledger!PassOn, Held
    <2> QED
      BY <1>3, <2>2 DEF Ledger!Next, Held
  <1> QED
    BY <1>1, <1>4, <1>5, <1>6

\* A new request is one the ledger does not know.
LEMMA SendLedger ==
  ASSUME SendType, PlaceInv, NEW a \in Apps, Send(a)
  PROVE  [Ledger!Next]_(Ledger!ledgerVars)
  <1> DEFINE r == sent + 1
  <1>1. sent < MaxSends /\ UNCHANGED <<batch, lost>>
    BY DEF Send
  <1>2. r \in Requests /\ r \notin 1..sent
    BY <1>1, BoundsAssumption DEF SendType, Requests
  <1>3. \/ /\ messageQueue' = Append(messageQueue, r)
           /\ UNCHANGED <<written, failed>>
        \/ written' = Append(written, r) /\ UNCHANGED <<messageQueue, failed>>
        \/ failed' = failed \cup {r} /\ UNCHANGED <<messageQueue, written>>
    BY DEF Send, Enqueue, WriteOut
  <1> HIDE DEF r
  <1>4. messageQueue \in Seq(Requests) /\ written \in Seq(Requests)
    BY DEF SendType
  <1>5. Taken' = Taken
    BY <1>1 DEF Taken
  <1>6. /\ Held = Elements(messageQueue) \cup Taken
        /\ Held' = Elements(messageQueue') \cup Taken
    BY <1>5 DEF Held, Taken
  <1>7. r \notin Held \cup Elements(written) \cup {} \cup failed \cup lost
    BY <1>2, <1>6 DEF PlaceInv, Rest
  <1>8. r \notin Ledger!Known
    BY <1>7 DEF Ledger!Known, Held
  <1>9. CASE /\ messageQueue' = Append(messageQueue, r)
             /\ UNCHANGED <<written, failed>>
    <2>1. Elements(messageQueue') = Elements(messageQueue) \cup {r}
      BY <1>2, <1>4, <1>9, Places
    <2>2. Held' = Held \cup {r}
      BY <1>6, <2>1
    <2> QED
      BY <1>1, <1>2, <1>8, <1>9, <2>2 DEF Ledger!Next, Ledger!Make, Held
  <1>10. CASE written' = Append(written, r) /\ UNCHANGED <<messageQueue, failed>>
    <2>1. Elements(written') = Elements(written) \cup {r}
      BY <1>2, <1>4, <1>10, Places
    <2>2. Held' = Held
      BY <1>6, <1>10
    <2> QED
      BY <1>1, <1>2, <1>8, <2>1, <2>2, <1>10 DEF Ledger!Next, Ledger!Make, Held
  <1>11. CASE failed' = failed \cup {r} /\ UNCHANGED <<messageQueue, written>>
    <2>1. Held' = Held
      BY <1>6, <1>11
    <2> QED
      BY <1>1, <1>2, <1>8, <2>1, <1>11 DEF Ledger!Next, Ledger!Make, Held
  <1> QED
    BY <1>3, <1>9, <1>10, <1>11

\* Every step of the client is one of the ledger, or leaves it alone.
LEMMA LedgerStep ==
  ASSUME ShapeInv, SendType, PlaceInv, [Next]_vars
  PROVE  [Ledger!Next]_(Ledger!ledgerVars)
  <1> USE DEF sendVars
  <1>1. ASSUME UNCHANGED sendVars PROVE [Ledger!Next]_(Ledger!ledgerVars)
    BY <1>1 DEF Ledger!ledgerVars
  <1>2. ASSUME NEW g \in Goroutines, TakeQueue(g)
        PROVE  [Ledger!Next]_(Ledger!ledgerVars)
    <2>1. /\ Elements(messageQueue') = {}
          /\ Taken' = Taken \cup Elements(messageQueue)
      BY <1>2, TakeMoves DEF PlaceInv
    <2>2. Held' = Held
      BY <2>1 DEF Held, Taken
    <2>3. UNCHANGED <<written, failed, lost>>
      BY <1>2 DEF TakeQueue
    <2> QED
      BY <2>2, <2>3 DEF Ledger!ledgerVars, Held
  <1>3. ASSUME NEW g \in Goroutines,
               Dial(g) \/ DialFails(g) \/ Install(g) \/ StartReading(g)
        PROVE  UNCHANGED sendVars
    BY <1>3 DEF Dial, DialFails, Install, StartReading
  <1>4. ASSUME NEW a \in Apps, Disconnect(a) PROVE UNCHANGED sendVars
    BY <1>4 DEF Disconnect
  <1>5. ASSUME NEW r \in Conns, Reading(r) \/ Break(r) PROVE UNCHANGED sendVars
    BY <1>5 DEF Reading, ReadNext, ReadMessage, ReadFails, Down, Decide,
       LoadAttempts, StoreAttempts, Break
  <1>6. UNCHANGED vars => UNCHANGED sendVars
    BY DEF vars
  <1> QED
    BY <1>1, <1>2, <1>3, <1>4, <1>5, <1>6, FlushLedger, SendLedger
       DEF Next, Connecting

\* The client implements RequestLedger: requests go forward only, and none is
\* sent twice.
THEOREM ImplementsLedger == Safety => RefinesLedger
  <1>1. ASSUME Init PROVE PlaceInv /\ Ledger!Init
    <2>1. PlaceInv
      BY <1>1, InitPlace
    <2>2. 1..sent = {}
      BY <1>1 DEF Init
    <2>3. Held = {} /\ Elements(written) = {} /\ failed = {} /\ lost = {}
      BY <2>1, <2>2 DEF PlaceInv, Rest, Taken, Held
    <2> QED
      BY <2>1, <2>3 DEF Ledger!Init, Held
  <1>2. ShapeInv /\ SendType /\ PlaceInv /\ [Next]_vars
          => [Ledger!Next]_(Ledger!ledgerVars)
    BY LedgerStep
  <1> QED
    BY <1>1, <1>2, InitType, InitShape, NextShape, NextSend, NextPlace, PTL
       DEF Safety, RefinesLedger, Ledger!Safety
=============================================================================
