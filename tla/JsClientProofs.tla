--------------------------- MODULE JsClientProofs ---------------------------
(***************************************************************************)
(* Theorems about module JsClient, for any limit of attempts and any       *)
(* number of sockets and requests.  BoundsAssumption of JsClient is all    *)
(* that is assumed.                                                        *)
(***************************************************************************)
EXTENDS JsClient, FiniteSetTheorems, SequenceTheorems, TLAPS

-----------------------------------------------------------------------------
(* Types                                                                   *)

\* The sockets that have closed.
Gone == {k \in Sockets : sock[k] = "closed"}

\* A callback is cut where it calls the application: onopen of a socket that
\* has opened, onclose of one that has closed.
TurnType ==
  /\ turn \in {Idle} \cup ({"open", "closed"} \X Sockets)
  /\ turn[1] = "open" => sock[turn[2]] \in {"open", "closing"}
  /\ turn[1] = "closed" => sock[turn[2]] = "closed" /\ ~connected

\* The current socket was made, and until disconnect there is one, if any.
SocketType ==
  /\ ws \in 0..MaxSockets
  /\ connected \in BOOLEAN
  /\ sock \in [Sockets -> {"none", "connecting", "aborting", "open",
                           "closing", "closed"}]
  /\ opens \in [Sockets -> {"none", "pending", "resolved", "rejected"}]
  /\ ws # 0 => ws \in Made

\* The fields that are about requests.
RequestType ==
  /\ subscribed \in BOOLEAN
  /\ messageQueue \in Seq(Requests)
  /\ wire \in [Sockets -> SUBSET Requests]
  /\ promise \in [Requests -> {"none", "pending", "resolved", "rejected"}]
  /\ hears \in [Requests -> SUBSET {"ack", "error"}]
  /\ lost \subseteq Requests

\* Every timer comes from a socket that has closed, and every retry has made
\* one.
RetryType ==
  /\ autoReconnect \in BOOLEAN /\ overlapped \in BOOLEAN /\ hung \in BOOLEAN
  /\ reconnectAttempts \in 0..MaxReconnectAttempts
  /\ timers \in Nat /\ retries \in Nat /\ owed \in Int
  /\ timers + (IF turn[1] = "closed" THEN 1 ELSE 0) <= Cardinality(Gone)
  /\ retries <= Cardinality(Made)

\* TypeOK, and what an induction needs besides it.
TypeInv == TurnType /\ SocketType /\ RequestType /\ RetryType

\* A set of sockets is finite, and counts one more with another one.
LEMMA CountSockets ==
  ASSUME NEW S \in SUBSET Sockets
  PROVE  /\ IsFiniteSet(S) /\ Cardinality(S) \in Nat /\ Cardinality(S) <= MaxSockets
         /\ \A k \in Sockets \ S : Cardinality(S \cup {k}) = Cardinality(S) + 1
  <1>1. IsFiniteSet(Sockets) /\ Cardinality(Sockets) = MaxSockets
    BY BoundsAssumption, FS_Interval DEF Sockets
  <1>2. /\ IsFiniteSet(S) /\ Cardinality(S) \in Nat
        /\ Cardinality(S) <= Cardinality(Sockets)
    BY <1>1, FS_Subset, FS_CardinalityType
  <1>3. ASSUME NEW k \in Sockets \ S
        PROVE  Cardinality(S \cup {k}) = Cardinality(S) + 1
    BY <1>2, FS_AddElement
  <1> QED
    BY <1>1, <1>2, <1>3

\* A new socket is the current one, and the others stay as they are.
LEMMA NewOne ==
  ASSUME SocketType, NewSocket
  PROVE  /\ connected' = connected /\ SocketType' /\ Gone' = Gone
         /\ Cardinality(Made') = Cardinality(Made) + 1
         /\ \E k \in Sockets \ Made :
              /\ ws' = k /\ sock'[k] = "connecting" /\ sock[k] = "none"
              /\ opens' = [opens EXCEPT ![k] = "pending"]
              /\ Made' = Made \cup {k} /\ Alive' = Alive \cup {k}
              /\ \A j \in Sockets \ {k} : sock'[j] = sock[j]
  <1>1. PICK k \in Sockets \ Made :
          /\ ws' = k /\ sock' = [sock EXCEPT ![k] = "connecting"]
          /\ opens' = [opens EXCEPT ![k] = "pending"] /\ connected' = connected
    BY DEF NewSocket
  <1>2. /\ sock'[k] = "connecting" /\ sock[k] = "none"
        /\ \A j \in Sockets \ {k} : sock'[j] = sock[j]
    BY <1>1 DEF SocketType, Made
  <1>3. Made' = Made \cup {k} /\ Gone' = Gone
    BY <1>2 DEF Made, Gone
  <1>4. Alive' = Alive \cup {k}
    BY <1>2 DEF Made, Alive
  <1>5. SocketType'
    BY <1>1, <1>3, BoundsAssumption DEF SocketType, Sockets
  <1>6. Made \in SUBSET Sockets
    BY DEF Made
  <1>7. Cardinality(Made') = Cardinality(Made) + 1
    BY <1>3, <1>6, CountSockets
  <1> QED
    BY <1>1, <1>2, <1>3, <1>4, <1>5, <1>7

\* Where _send puts a request.
LEMMA OnWire ==
  ASSUME TypeInv, CanSend, NEW rs \in SUBSET Requests, PutOnWire(rs)
  PROVE  /\ ws \in Sockets
         /\ wire' \in [Sockets -> SUBSET Requests] /\ lost' \subseteq Requests
         /\ sock[ws] = "open" =>
              /\ lost' = lost /\ wire'[ws] = wire[ws] \cup rs
              /\ \A k \in Sockets \ {ws} : wire'[k] = wire[k]
         /\ sock[ws] # "open" => wire' = wire /\ lost' = lost \cup rs
  <1>1. ws \in Sockets
    BY BoundsAssumption DEF CanSend, TypeInv, SocketType, Sockets
  <1>2. wire \in [Sockets -> SUBSET Requests] /\ lost \subseteq Requests
    BY DEF TypeInv, RequestType
  <1>3. CASE sock[ws] = "open"
    BY <1>1, <1>2, <1>3 DEF PutOnWire
  <1>4. CASE sock[ws] # "open"
    BY <1>1, <1>2, <1>4 DEF PutOnWire
  <1> QED
    BY <1>1, <1>3, <1>4

\* The queue, its elements and what is left of it.
LEMMA Queue ==
  ASSUME NEW q \in Seq(Requests)
  PROVE  /\ Len(q) \in Nat
         /\ Range(q) \subseteq Requests
         /\ \A r : r \in Range(q) <=>
              \E i \in 1..Len(q) : q[i] = r
         /\ \A i \in 1..Len(q) : q[i] \in Requests
         /\ \A r \in Requests :
              LET a == Append(q, r) IN
              /\ a \in Seq(Requests) /\ Len(a) = Len(q) + 1
              /\ \A i \in 1..Len(q) : a[i] = q[i]
              /\ a[Len(q) + 1] = r
         /\ q # <<>> =>
              LET t == Tail(q) IN
              /\ Len(q) >= 1 /\ Head(q) = q[1]
              /\ t \in Seq(Requests) /\ Len(t) = Len(q) - 1
              /\ \A i \in 1..Len(t) : t[i] = q[i + 1]
  <1>1. /\ Len(q) \in Nat
        /\ DOMAIN q = 1..Len(q)
        /\ \A i \in 1..Len(q) : q[i] \in Requests
    BY LenProperties, ElementOfSeq
  <1>2. /\ Range(q) \subseteq Requests
        /\ \A r : r \in Range(q) <=>
             \E i \in 1..Len(q) : q[i] = r
    BY <1>1 DEF Range
  <1>3. ASSUME NEW r \in Requests
        PROVE  LET a == Append(q, r) IN
               /\ a \in Seq(Requests) /\ Len(a) = Len(q) + 1
               /\ \A i \in 1..Len(q) : a[i] = q[i]
               /\ a[Len(q) + 1] = r
    BY AppendProperties
  <1>4. ASSUME q # <<>>
        PROVE  LET t == Tail(q) IN
               /\ Len(q) >= 1 /\ Head(q) = q[1]
               /\ t \in Seq(Requests) /\ Len(t) = Len(q) - 1
               /\ \A i \in 1..Len(t) : t[i] = q[i + 1]
    BY <1>1, <1>4, EmptySeq, HeadTailProperties
  <1> QED
    BY <1>1, <1>2, <1>3, <1>4

\* Every step keeps the types.
LEMMA NextType == TypeInv /\ [Next]_vars => TypeInv'
  <1> SUFFICES ASSUME TypeInv, [Next]_vars PROVE TypeInv'
    OBVIOUS
  <1> USE DEF socketVars, retryVars, requestVars
  <1>a. /\ turn \in {Idle} \cup ({"open", "closed"} \X Sockets)
        /\ turn = Idle => turn[1] = "idle"
        /\ \A k : (turn = <<"open", k>> => turn[1] = "open" /\ turn[2] = k)
              /\ (turn = <<"closed", k>> => turn[1] = "closed" /\ turn[2] = k)
        /\ turn[1] \in {"idle", "open", "closed"}
        /\ turn[1] # "idle" => turn[2] \in Sockets
    BY DEF TypeInv, TurnType, Idle
  <1>c. Cardinality(Gone) \in Nat /\ Cardinality(Made) \in Nat
    BY CountSockets DEF Gone, Made
  <1>b. ASSUME UNCHANGED <<timers, retries>>, Gone' = Gone, Made' = Made,
               turn'[1] = "closed" => turn[1] = "closed"
        PROVE  /\ timers' \in Nat /\ retries' \in Nat
               /\ timers' + (IF turn'[1] = "closed" THEN 1 ELSE 0)
                    <= Cardinality(Gone')
               /\ retries' <= Cardinality(Made')
    BY <1>a, <1>b, <1>c DEF TypeInv, RetryType
  <1>1. CASE Connect
    <2>1. NewSocket /\ UNCHANGED <<turn, reconnectAttempts, autoReconnect, timers,
                                    retries, owed, requestVars, hung>>
          /\ overlapped' \in BOOLEAN
      BY <1>1 DEF Connect
    <2>2. SocketType' /\ TurnType'
      BY <2>1, NewOne DEF TypeInv, TurnType, Idle
    <2>3. Gone' = Gone /\ Cardinality(Made') = Cardinality(Made) + 1
      BY <2>1, NewOne DEF TypeInv
    <2>4. RetryType'
      BY <2>1, <2>3, <1>c DEF TypeInv, RetryType
    <2> QED
      BY <2>1, <2>2, <2>4 DEF TypeInv, RequestType
  <1>2. CASE Disconnect
    <2>1. /\ autoReconnect' = FALSE /\ ws' = 0 /\ connected' = FALSE
          /\ subscribed' = FALSE /\ owed' \in Int
          /\ UNCHANGED <<opens, reconnectAttempts, timers, overlapped, retries,
                         messageQueue, wire, promise, hears, lost, turn, hung>>
      BY <1>2 DEF Disconnect, TypeInv, RetryType
    <2>6. sock' = [k \in Sockets |-> sock'[k]]
      BY <1>2 DEF Disconnect
    <2>2. \A k \in Sockets :
            /\ sock'[k] \in {"none", "connecting", "aborting", "open", "closing",
                              "closed"}
            /\ sock'[k] = "none" <=> sock[k] = "none"
            /\ sock'[k] = "closed" <=> sock[k] = "closed"
            /\ sock[k] \in {"open", "closing"} => sock'[k] \in {"open", "closing"}
      BY <1>2 DEF Disconnect, Closing, TypeInv, SocketType
    <2>3. TurnType'
      <3>1. \A k : turn[1] = "closed" /\ k = turn[2] => sock'[k] = "closed"
        BY <1>a, <2>2 DEF TypeInv, TurnType
      <3>2. \A k : turn[1] = "open" /\ k = turn[2] => sock'[k] \in {"open", "closing"}
        BY <1>a, <2>2 DEF TypeInv, TurnType
      <3> QED
        BY <2>1, <3>1, <3>2 DEF TypeInv, TurnType
    <2>4. Gone' = Gone /\ Made' = Made
      BY <2>2 DEF Gone, Made
    <2>5. SocketType'
      <3>1. sock' \in [Sockets -> {"none", "connecting", "aborting", "open",
                                    "closing", "closed"}]
        BY <2>2, <2>6
      <3>2. ws' \in 0..MaxSockets
        BY <2>1, BoundsAssumption
      <3>3. connected' \in BOOLEAN
        BY <2>1
      <3> QED
        BY <2>1, <3>1, <3>2, <3>3 DEF TypeInv, SocketType
    <2> QED
      BY <1>b, <2>1, <2>3, <2>4, <2>5 DEF TypeInv, RetryType, RequestType
  <1>3. ASSUME NEW r \in Requests, Call(r) PROVE TypeInv'
    <2>1. hears' \in [Requests -> SUBSET {"ack", "error"}]
      BY <1>3 DEF Call, TypeInv, RequestType
    <2>2. promise' \in [Requests -> {"none", "pending", "resolved", "rejected"}]
      BY <1>3 DEF Call, TypeInv, RequestType
    <2>3. messageQueue' \in Seq(Requests)
      <3>1. messageQueue \in Seq(Requests) /\ Append(messageQueue, r) \in Seq(Requests)
        BY AppendProperties DEF TypeInv, RequestType
      <3>2. messageQueue' \in {messageQueue, Append(messageQueue, r)}
        BY <1>3 DEF Call
      <3> QED
        BY <3>1, <3>2
    <2>4. lost' \subseteq Requests /\ wire' \in [Sockets -> SUBSET Requests]
      BY <1>3, OnWire DEF Call, TypeInv, RequestType
    <2>5. UNCHANGED <<socketVars, retryVars, subscribed, turn, hung>>
      BY <1>3 DEF Call
    <2> QED
      BY <2>1, <2>2, <2>3, <2>4, <2>5
         DEF TypeInv, TurnType, SocketType, RequestType, RetryType, Made, Gone
  <1>4. CASE Timer
    <2>1. /\ NewSocket /\ timers > 0 /\ timers' = timers - 1 /\ retries' = retries + 1
          /\ owed' = IF autoReconnect THEN owed ELSE owed - 1
          /\ turn = Idle
          /\ UNCHANGED <<turn, reconnectAttempts, autoReconnect, overlapped,
                         requestVars, hung>>
      BY <1>4 DEF Timer, TimerFires
    <2>2. SocketType' /\ TurnType'
      BY <2>1, NewOne DEF TypeInv, TurnType, Idle
    <2>3. Gone' = Gone /\ Cardinality(Made') = Cardinality(Made) + 1
      BY <2>1, NewOne DEF TypeInv
    <2>4. RetryType'
      BY <2>1, <2>3, <1>a, <1>c DEF TypeInv, RetryType
    <2> QED
      BY <2>1, <2>2, <2>4 DEF TypeInv, RequestType
  <1>5. ASSUME NEW k \in Sockets, Opened(k) PROVE TypeInv'
    <2>1. /\ turn' = <<"open", k>> /\ connected' = TRUE /\ sock[k] = "connecting"
          /\ sock' = [sock EXCEPT ![k] = "open"]
          /\ reconnectAttempts' = 0 /\ retries' = 0
          /\ UNCHANGED <<ws, opens, autoReconnect, timers, overlapped, owed,
                         requestVars, hung>>
      BY <1>5 DEF Opened, Open
    <2>2. Gone' = Gone /\ Made' = Made
      BY <2>1 DEF TypeInv, SocketType, Gone, Made
    <2>3. turn'[1] = "open" /\ turn'[2] = k /\ turn' \in {"open", "closed"} \X Sockets
      BY <2>1
    <2>4. SocketType' /\ TurnType'
      BY <2>1, <2>2, <2>3 DEF TypeInv, SocketType, TurnType
    <2>5. RetryType'
      BY <2>1, <2>2, <2>3, <1>a, <1>c, BoundsAssumption DEF TypeInv, RetryType
    <2> QED
      BY <2>1, <2>4, <2>5 DEF TypeInv, RequestType
  <1>q. ASSUME UNCHANGED <<ws, connected, sock, retryVars, hung>>, RequestType',
               opens' \in [Sockets -> {"none", "pending", "resolved", "rejected"}],
               turn' \in {turn, Idle}
        PROVE  TypeInv'
    <2>1. turn' = turn \/ turn'[1] = "idle"
      BY <1>q DEF Idle
    <2>2. Gone' = Gone /\ Made' = Made
      BY <1>q DEF Gone, Made
    <2>3. SocketType' /\ TurnType'
      BY <1>q, <2>1, <2>2 DEF TypeInv, SocketType, TurnType
    <2> QED
      BY <1>b, <1>q, <2>1, <2>2, <2>3 DEF TypeInv, RetryType
  <1>s. ASSUME NEW k, NEW how \in {"resolved", "rejected"}
        PROVE  /\ Settle(opens, k, how)
                    \in [Sockets -> {"none", "pending", "resolved", "rejected"}]
               /\ Settle(promise, k, how)
                    \in [Requests -> {"none", "pending", "resolved", "rejected"}]
    BY DEF Settle, TypeInv, SocketType, RequestType
  <1>6. ASSUME NEW k \in Sockets, QueueSent(k) PROVE TypeInv'
    <2>1. Range(messageQueue) \subseteq Requests /\ <<>> \in Seq(Requests)
      BY Queue, EmptySeq DEF TypeInv, RequestType
    <2>2. wire' \in [Sockets -> SUBSET Requests] /\ lost' \subseteq Requests
      BY <1>6, <2>1, OnWire DEF QueueSent, QueueSentOf
    <2> QED
      BY <1>6, <1>q, <1>s, <2>1, <2>2 DEF QueueSent, QueueSentOf, TypeInv, RequestType
  <1>7. ASSUME NEW k \in Sockets, QueueThrows(k) PROVE TypeInv'
    <2>1. Head(messageQueue) \in Requests /\ messageQueue' \in Seq(Requests)
      BY <1>7, Queue DEF QueueThrows, TypeInv, RequestType
    <2> QED
      BY <1>7, <1>q, <2>1 DEF QueueThrows, TypeInv, RequestType, SocketType
  <1>8. ASSUME NEW k \in Sockets, QueueTurns(k) PROVE TypeInv'
    BY <1>8 DEF QueueTurns, TypeInv, TurnType, SocketType, RequestType, RetryType,
       Gone, Made
  <1>9. ASSUME NEW k \in Sockets, QueueEmpty(k) PROVE TypeInv'
    BY <1>9, <1>q, <1>s DEF QueueEmpty, TypeInv, RequestType
  <1>10. ASSUME NEW k \in Sockets, PeerCloses(k) PROVE TypeInv'
    <2>1. /\ sock[k] = "open" /\ sock' = [sock EXCEPT ![k] = "closing"]
          /\ UNCHANGED <<ws, connected, opens, retryVars, requestVars, turn, hung>>
      BY <1>10 DEF PeerCloses
    <2>2. Gone' = Gone /\ Made' = Made
      BY <2>1 DEF TypeInv, SocketType, Gone, Made
    <2>3. SocketType' /\ TurnType'
      BY <1>a, <2>1, <2>2 DEF TypeInv, SocketType, TurnType
    <2> QED
      BY <1>b, <2>1, <2>2, <2>3 DEF TypeInv, RetryType, RequestType
  <1>11. ASSUME NEW k \in Sockets, Closed(k) PROVE TypeInv'
    <2>1. /\ turn = Idle /\ turn' = <<"closed", k>> /\ connected' = FALSE
          /\ sock[k] \in {"connecting", "aborting", "open", "closing"}
          /\ sock' = [sock EXCEPT ![k] = "closed"]
          /\ lost' = lost \cup wire[k] /\ wire' = [wire EXCEPT ![k] = {}]
          /\ UNCHANGED <<ws, retryVars, messageQueue, promise, hears, subscribed, hung>>
          /\ opens' \in {opens, Settle(opens, k, "rejected")}
      BY <1>11 DEF Closed, CloseEvent
    <2>2. k \notin Gone /\ Gone' = Gone \cup {k} /\ Made' = Made
      BY <2>1 DEF TypeInv, SocketType, Gone, Made
    <2>3. Cardinality(Gone') = Cardinality(Gone) + 1
      BY <2>2, CountSockets DEF Gone
    <2>4. turn'[1] = "closed" /\ turn'[2] = k /\ turn' \in {"open", "closed"} \X Sockets
      BY <2>1
    <2>5. SocketType' /\ TurnType'
      <3>1. sock' \in [Sockets -> {"none", "connecting", "aborting", "open",
                                    "closing", "closed"}]
            /\ sock'[k] = "closed"
        BY <2>1 DEF TypeInv, SocketType
      <3>2. opens' \in [Sockets -> {"none", "pending", "resolved", "rejected"}]
        BY <1>s, <2>1 DEF TypeInv, SocketType
      <3> QED
        BY <2>1, <2>2, <2>4, <3>1, <3>2 DEF TypeInv, SocketType, TurnType
    <2>6. RetryType'
      BY <2>1, <2>2, <2>3, <2>4, <1>a, <1>c DEF TypeInv, RetryType
    <2>7. RequestType'
      BY <2>1 DEF TypeInv, RequestType
    <2> QED
      BY <2>5, <2>6, <2>7 DEF TypeInv
  <1>12. ASSUME NEW k \in Sockets, AfterClose(k) PROVE TypeInv'
    <2> DEFINE more == IF autoReconnect /\ reconnectAttempts < MaxReconnectAttempts
                         THEN 1 ELSE 0
    <2>1. /\ turn[1] = "closed" /\ turn' = Idle /\ turn'[1] = "idle"
          /\ reconnectAttempts' = reconnectAttempts + more /\ timers' = timers + more
          /\ UNCHANGED <<socketVars, autoReconnect, overlapped, retries, owed,
                         requestVars, hung>>
      BY <1>12, <1>a DEF AfterClose, CloseDone, Idle
    <2>2. Gone' = Gone /\ Made' = Made
      BY <2>1 DEF Gone, Made
    <2>3. RetryType'
      BY <2>1, <2>2, <1>c, BoundsAssumption DEF TypeInv, RetryType
    <2>4. TurnType' /\ SocketType' /\ RequestType'
      BY <2>1, <2>2 DEF TypeInv, TurnType, SocketType, RequestType
    <2> QED
      BY <2>3, <2>4 DEF TypeInv
  <1>13. ASSUME NEW k \in Sockets, NEW r \in Requests, NEW answer \in {"ack", "error"},
                Answer(k, r, answer)
         PROVE  TypeInv'
    <2>1. /\ wire' \in [Sockets -> SUBSET Requests]
          /\ hears' \in [Requests -> SUBSET {"ack", "error"}]
      BY <1>13 DEF Answer, TypeInv, RequestType
    <2>2. promise' \in [Requests -> {"none", "pending", "resolved", "rejected"}]
      BY <1>13, <1>s DEF Answer
    <2>3. subscribed' \in BOOLEAN
      BY <1>13, BoundsAssumption DEF Answer, TypeInv, RequestType
    <2>4. RequestType'
      BY <1>13, <2>1, <2>2, <2>3 DEF Answer, TypeInv, RequestType
    <2> QED
      BY <1>13, <1>q, <2>4 DEF Answer, TypeInv, SocketType
  <1>14. CASE UNCHANGED vars
    BY <1>14 DEF vars, TypeInv, TurnType, SocketType, RequestType, RetryType, Gone,
       Made
  <1> QED
    BY <1>1, <1>2, <1>3, <1>4, <1>5, <1>6, <1>7, <1>8, <1>9, <1>10, <1>11, <1>12,
       <1>13, <1>14 DEF Next, App, Happens, Process

\* At the beginning there is nothing.
LEMMA InitType == Init => TypeInv
  <1> SUFFICES ASSUME Init PROVE TypeInv
    OBVIOUS
  <1>1. Cardinality(Gone) = 0 /\ Cardinality(Made) = 0
    <2>1. Gone = {} /\ Made = {}
      BY DEF Init, Gone, Made
    <2> QED
      BY <2>1, FS_EmptySet
  <1>2. TurnType
    BY DEF Init, TurnType, Idle
  <1>3. RetryType
    <2>1. reconnectAttempts \in 0..MaxReconnectAttempts
      BY BoundsAssumption DEF Init
    <2>2. /\ autoReconnect \in BOOLEAN /\ overlapped \in BOOLEAN /\ hung \in BOOLEAN
      BY DEF Init
    <2>3. turn[1] # "closed" /\ timers = 0 /\ retries = 0 /\ owed = 0
      BY DEF Init, Idle
    <2> QED
      BY <1>1, <2>1, <2>2, <2>3 DEF RetryType
  <1>4. ws \in 0..MaxSockets
    BY BoundsAssumption DEF Init
  <1>5. SocketType
    BY <1>4 DEF Init, SocketType
  <1>6. RequestType
    BY EmptySeq DEF Init, RequestType
  <1> QED
    BY <1>2, <1>3, <1>5, <1>6 DEF TypeInv

\* Every field keeps its type; there are no more timers and retries than
\* sockets.
THEOREM TypeCorrect == Spec => []TypeOK
  <1>1. ASSUME TypeInv PROVE TypeOK
    <2>1. /\ Cardinality(Gone) \in Nat /\ Cardinality(Gone) <= MaxSockets
          /\ Cardinality(Made) \in Nat /\ Cardinality(Made) <= MaxSockets
      BY CountSockets DEF Gone, Made
    <2>2. /\ timers \in Nat /\ retries \in Nat
          /\ timers <= MaxSockets /\ retries <= MaxSockets
      BY <1>1, <2>1, BoundsAssumption DEF TypeInv, RetryType
    <2>3. {timers, retries} \subseteq 0..MaxSockets
      BY <2>2, BoundsAssumption
    <2>4. /\ owed \in Int /\ reconnectAttempts \in 0..MaxReconnectAttempts
          /\ autoReconnect \in BOOLEAN /\ hung \in BOOLEAN /\ overlapped \in BOOLEAN
      BY <1>1 DEF TypeInv, RetryType
    <2> QED
      BY <1>1, <2>3, <2>4 DEF TypeInv, TurnType, SocketType, RequestType, TypeOK
  <1> QED
    BY <1>1, InitType, NextType, PTL DEF Spec

-----------------------------------------------------------------------------
(* Until disconnect                                                        *)

\* Until disconnect the client has a current socket, and is connected while
\* onopen runs.
AutoInv ==
  /\ autoReconnect /\ Made # {} => ws # 0
  /\ autoReconnect /\ turn[1] = "open" => CanSend
  /\ hung => ~autoReconnect

\* What disconnect found pending is what fires after it.
OwedInv == owed = IF autoReconnect THEN 0 ELSE timers

\* Only connect and the timers change whether there is a current socket, and
\* only onopen and onclose end up between two callbacks.
LEMMA NextAuto ==
  ASSUME TypeInv, AutoInv, [Next]_vars
  PROVE  AutoInv'
  <1> USE DEF socketVars, retryVars, requestVars
  <1>1. autoReconnect \in BOOLEAN /\ turn[1] \in {"idle", "open", "closed"}
    BY DEF TypeInv, RetryType, TurnType, Idle
  <1>2. ASSUME NewSocket, UNCHANGED <<autoReconnect, turn, hung>>
        PROVE  AutoInv'
    <2>1. ws' # 0 /\ connected' = connected
      BY <1>2, NewOne, BoundsAssumption DEF TypeInv, Sockets
    <2> QED
      BY <1>2, <2>1 DEF AutoInv, CanSend
  <1>3. CASE Connect
    BY <1>2, <1>3, NewOne DEF Connect, TypeInv
  <1>4. CASE Timer
    BY <1>2, <1>4, NewOne DEF Timer, TimerFires, TypeInv
  <1>5. CASE Disconnect
    BY <1>5 DEF Disconnect, AutoInv
  <1>6. ASSUME UNCHANGED <<ws, connected, autoReconnect, hung>>, Made' = Made,
               turn' \in {turn, Idle}
        PROVE  AutoInv'
    BY <1>6 DEF AutoInv, CanSend, Idle
  <1>7. ASSUME NEW r \in Requests, Call(r) PROVE AutoInv'
    BY <1>6, <1>7 DEF Call, Made
  <1>8. ASSUME NEW k \in Sockets, QueueSent(k) \/ QueueThrows(k) \/ QueueEmpty(k)
                                  \/ AfterClose(k)
        PROVE  AutoInv'
    BY <1>6, <1>8 DEF QueueSent, QueueSentOf, QueueThrows, QueueEmpty, AfterClose,
       CloseDone, Made
  <1>9. ASSUME NEW k \in Sockets, QueueTurns(k) PROVE AutoInv'
    BY <1>9 DEF QueueTurns, AutoInv, CanSend, Made
  <1>10. ASSUME NEW k \in Sockets, PeerCloses(k) PROVE AutoInv'
    <2>1. Made' = Made
      BY <1>10 DEF PeerCloses, Made, TypeInv, SocketType
    <2> QED
      BY <1>6, <1>10, <2>1 DEF PeerCloses
  <1>11. ASSUME NEW k \in Sockets, Opened(k) PROVE AutoInv'
    <2>1. Made' = Made /\ Made # {}
      BY <1>11 DEF Opened, Open, Made, TypeInv, SocketType
    <2>2. connected' = TRUE /\ UNCHANGED <<ws, autoReconnect, hung>>
      BY <1>11 DEF Opened, Open
    <2> QED
      BY <2>1, <2>2 DEF AutoInv, CanSend
  <1>12. ASSUME NEW k \in Sockets, Closed(k) PROVE AutoInv'
    <2>1. Made' = Made
      BY <1>12 DEF Closed, CloseEvent, Made, TypeInv, SocketType
    <2>2. turn'[1] = "closed" /\ UNCHANGED <<ws, autoReconnect, hung>>
      BY <1>12 DEF Closed, CloseEvent
    <2> QED
      BY <2>1, <2>2 DEF AutoInv
  <1>13. ASSUME NEW k \in Sockets, NEW r \in Requests, NEW answer, Answer(k, r, answer)
         PROVE  AutoInv'
    BY <1>6, <1>13 DEF Answer, Made
  <1>14. CASE UNCHANGED vars
    BY <1>6, <1>14 DEF vars, Made
  <1> QED
    BY <1>3, <1>4, <1>5, <1>7, <1>8, <1>9, <1>10, <1>11, <1>12, <1>13, <1>14
       DEF Next, App, Happens, Process

\* What is still owed is what is left of the timers.
LEMMA NextOwed ==
  ASSUME TypeInv, OwedInv, [Next]_vars
  PROVE  OwedInv'
  <1> USE DEF socketVars, retryVars, requestVars
  <1>1. autoReconnect \in BOOLEAN /\ timers \in Nat
    BY DEF TypeInv, RetryType
  <1>2. CASE Connect \/ UNCHANGED vars
    BY <1>2 DEF Connect, vars, OwedInv
  <1>3. CASE Disconnect
    BY <1>1, <1>3 DEF Disconnect, OwedInv
  <1>4. CASE Timer
    BY <1>1, <1>4 DEF Timer, TimerFires, OwedInv
  <1>5. ASSUME NEW r \in Requests, Call(r) PROVE OwedInv'
    BY <1>5 DEF Call, OwedInv
  <1>6. ASSUME NEW k \in Sockets, Opened(k) \/ Process(k) \/ PeerCloses(k) \/ Closed(k)
        PROVE  OwedInv'
    BY <1>6 DEF Opened, Open, Process, QueueSent, QueueSentOf, QueueThrows,
       QueueTurns, QueueEmpty, PeerCloses, Closed, CloseEvent, OwedInv
  <1>7. ASSUME NEW k \in Sockets, AfterClose(k) PROVE OwedInv'
    BY <1>1, <1>7 DEF AfterClose, CloseDone, OwedInv
  <1>8. ASSUME NEW k \in Sockets, NEW r \in Requests, NEW answer, Answer(k, r, answer)
        PROVE  OwedInv'
    BY <1>8 DEF Answer, OwedInv
  <1> QED
    BY <1>2, <1>3, <1>4, <1>5, <1>6, <1>7, <1>8 DEF Next, App, Happens

\* The endless loop of _processQueue takes a disconnect.
THEOREM HangNeedsDisconnect == Spec => []HangsOnlyDisconnected
  <1>1. Init => AutoInv
    BY DEF Init, AutoInv, Made, Idle, CanSend
  <1>2. AutoInv => HangsOnlyDisconnected
    BY DEF AutoInv, HangsOnlyDisconnected
  <1> QED
    BY <1>1, <1>2, InitType, NextType, NextAuto, PTL DEF Spec

\* After disconnect only the timers that were running then still connect.
THEOREM OnlyOwedConnect == Spec => []OnlyOwedTimersConnect
  <1>1. Init => OwedInv
    BY DEF Init, OwedInv
  <1>2. TypeInv /\ OwedInv => OnlyOwedTimersConnect
    BY DEF TypeInv, RetryType, OwedInv, OnlyOwedTimersConnect
  <1> QED
    BY <1>1, <1>2, InitType, NextType, NextOwed, PTL DEF Spec

-----------------------------------------------------------------------------
(* One socket at a time                                                    *)

\* Overlapping calls of connect aside, there is one thing at a time: a live
\* socket, a timer, or an onclose that may start one.  A socket that opens or
\* is open is the current one, and connected says whether it is.
OneInv ==
  ~overlapped =>
    /\ \A j, k \in Alive : j = k
    /\ Alive # {} => timers = 0 /\ turn[1] # "closed"
    /\ timers <= 1 /\ (timers = 1 => turn[1] # "closed")
    /\ \A k \in Sockets : sock[k] \in {"connecting", "open"} => k = ws
    /\ connected => ws # 0 /\ sock[ws] \in {"open", "closing"}
    /\ ws # 0 /\ sock[ws] = "open" => connected
    /\ retries + timers <= reconnectAttempts

\* What comes after the last one is gone is the next one.
LEMMA NextOne ==
  ASSUME TypeInv, OneInv, [Next]_vars
  PROVE  OneInv'
  <1> USE DEF socketVars, retryVars, requestVars
  <1>a. /\ autoReconnect \in BOOLEAN /\ overlapped \in BOOLEAN /\ connected \in BOOLEAN
        /\ timers \in Nat /\ retries \in Nat
        /\ reconnectAttempts \in 0..MaxReconnectAttempts
        /\ turn[1] \in {"idle", "open", "closed"}
        /\ ws # 0 => ws \in Sockets /\ sock[ws] # "none"
    BY DEF TypeInv, RetryType, SocketType, TurnType, Idle, Made
  <1>b. /\ Idle[1] = "idle"
        /\ \A k : <<"open", k>>[1] = "open" /\ <<"closed", k>>[1] = "closed"
    BY DEF Idle
  <1>1. ASSUME NewSocket, ~overlapped, ~overlapped', Alive = {}, UNCHANGED <<turn,
                 reconnectAttempts>>, turn = Idle, timers' = 0,
               retries' <= reconnectAttempts
        PROVE  OneInv'
    <2>1. PICK k \in Sockets \ Made :
            /\ ws' = k /\ sock'[k] = "connecting" /\ Alive' = Alive \cup {k}
            /\ \A j \in Sockets \ {k} : sock'[j] = sock[j]
      BY <1>1, NewOne DEF TypeInv
    <2>2. ~connected /\ connected' = connected
      BY <1>1, <1>a, NewOne DEF TypeInv, OneInv, Alive, Made
    <2>3. \A j \in Sockets : sock[j] \notin {"connecting", "open"}
      BY <1>1 DEF Alive, Made
    <2>4. \A i, j \in Alive' : i = j
      BY <1>1, <2>1
    <2>5. \A j \in Sockets : sock'[j] \in {"connecting", "open"} => j = ws'
      BY <2>1, <2>3
    <2>6. timers' = 0 /\ retries' + timers' <= reconnectAttempts'
      <3>1. retries' \in Nat
        BY NextType DEF TypeInv, RetryType
      <3>2. timers' = 0 /\ retries' <= reconnectAttempts'
        BY <1>1
      <3> QED
        BY <3>1, <3>2
    <2>7. turn'[1] # "closed" /\ sock'[ws'] # "open" /\ ~connected'
      <3>1. turn'[1] = "idle"
        BY <1>1, <1>b
      <3>2. sock'[ws'] = "connecting"
        BY <2>1
      <3> QED
        BY <2>2, <3>1, <3>2
    <2> QED
      BY <2>4, <2>5, <2>6, <2>7 DEF OneInv
  <1>2. CASE Connect
    <2>1. CASE overlapped'
      BY <2>1 DEF OneInv
    <2>2. CASE ~overlapped'
      <3>1. ~overlapped /\ Alive = {} /\ timers = 0 /\ turn = Idle
        <4>1. ~(overlapped \/ Alive # {} \/ timers > 0 \/ turn # Idle)
          BY <1>2, <2>2 DEF Connect
        <4> QED
          BY <1>a, <4>1
      <3> QED
        BY <1>1, <1>2, <1>a, <2>2, <3>1 DEF Connect, OneInv
    <2> QED
      BY <2>1, <2>2
  <1>3. CASE Timer
    <2>1. CASE overlapped
      BY <1>3, <2>1 DEF Timer, TimerFires, OneInv
    <2>2. CASE ~overlapped
      <3>1. timers = 1 /\ Alive = {}
        BY <1>3, <1>a, <2>2 DEF Timer, TimerFires, OneInv
      <3> QED
        BY <1>1, <1>3, <1>a, <2>2, <3>1 DEF Timer, TimerFires, OneInv
    <2> QED
      BY <1>a, <2>1, <2>2
  <1>4. CASE Disconnect
    <2>1. /\ Alive' = Alive
          /\ \A k \in Sockets : sock'[k] \in {"connecting", "open"} =>
                                 k # ws /\ sock'[k] = sock[k]
      BY <1>4 DEF Disconnect, Closing, Alive, Made
    <2> QED
      BY <1>4, <2>1 DEF Disconnect, OneInv
  <1>5. ASSUME UNCHANGED <<ws, connected, sock, retryVars>>, turn' \in {turn, Idle}
        PROVE  OneInv'
    BY <1>5, <1>b DEF OneInv, Alive, Made
  <1>6. ASSUME NEW r \in Requests, Call(r) PROVE OneInv'
    BY <1>5, <1>6 DEF Call
  <1>7. ASSUME NEW k \in Sockets, Process(k) PROVE OneInv'
    BY <1>5, <1>7 DEF Process, QueueSent, QueueSentOf, QueueThrows, QueueTurns,
       QueueEmpty
  <1>8. ASSUME NEW k \in Sockets, Opened(k) PROVE OneInv'
    <2>1. /\ turn' = <<"open", k>> /\ connected' = TRUE /\ sock[k] = "connecting"
          /\ sock' = [sock EXCEPT ![k] = "open"]
          /\ reconnectAttempts' = 0 /\ retries' = 0
          /\ UNCHANGED <<ws, timers, overlapped>>
      BY <1>8 DEF Opened, Open
    <2>2. /\ sock'[k] = "open" /\ \A j \in Sockets \ {k} : sock'[j] = sock[j]
          /\ Alive' = Alive /\ k \in Alive
      BY <2>1 DEF TypeInv, SocketType, Alive, Made
    <2>3. ~overlapped => k = ws /\ timers = 0
      BY <2>1, <2>2 DEF OneInv
    <2>4. turn'[1] # "closed" /\ connected'
      BY <1>b, <2>1
    <2>5. ~overlapped => retries' + timers' <= reconnectAttempts' /\ timers' = 0
      BY <1>a, <2>1, <2>3
    <2>6. ~overlapped => ws' # 0 /\ sock'[ws'] = "open"
      BY <1>a, <2>1, <2>2, <2>3, BoundsAssumption DEF Sockets
    <2> QED
      BY <2>1, <2>2, <2>3, <2>4, <2>5, <2>6 DEF OneInv
  <1>9. ASSUME NEW k \in Sockets, PeerCloses(k) PROVE OneInv'
    <2>1. /\ sock[k] = "open" /\ sock' = [sock EXCEPT ![k] = "closing"]
          /\ UNCHANGED <<ws, connected, retryVars, turn>>
      BY <1>9 DEF PeerCloses
    <2>2. /\ sock'[k] = "closing" /\ \A j \in Sockets \ {k} : sock'[j] = sock[j]
          /\ Alive' = Alive
      BY <2>1 DEF TypeInv, SocketType, Alive, Made
    <2> QED
      BY <2>1, <2>2, <1>a DEF OneInv
  <1>10. ASSUME NEW k \in Sockets, Closed(k) PROVE OneInv'
    <2>1. /\ turn' = <<"closed", k>> /\ connected' = FALSE
          /\ sock[k] \in {"connecting", "aborting", "open", "closing"}
          /\ sock' = [sock EXCEPT ![k] = "closed"]
          /\ UNCHANGED <<ws, retryVars>>
      BY <1>10 DEF Closed, CloseEvent
    <2>2. /\ sock'[k] = "closed" /\ \A j \in Sockets \ {k} : sock'[j] = sock[j]
          /\ Alive' = Alive \ {k} /\ k \in Alive
      BY <2>1 DEF TypeInv, SocketType, Alive, Made
    <2>3. ~overlapped => Alive' = {} /\ timers = 0
      BY <2>2 DEF OneInv
    <2>4. \A j \in Sockets : sock'[j] # "closed" => sock'[j] = sock[j]
      BY <2>2
    <2>5. ~overlapped => \A j \in Sockets : sock'[j] # "open"
      BY <2>3, <2>2 DEF Alive, Made
    <2> QED
      BY <1>a, <2>1, <2>2, <2>3, <2>4, <2>5 DEF OneInv
  <1>11. ASSUME NEW k \in Sockets, AfterClose(k) PROVE OneInv'
    <2>1. /\ turn[1] = "closed" /\ turn' = Idle
          /\ UNCHANGED <<socketVars, overlapped, retries>>
          /\ \/ timers' = timers /\ reconnectAttempts' = reconnectAttempts
             \/ timers' = timers + 1 /\ reconnectAttempts' = reconnectAttempts + 1
      BY <1>a, <1>11, <1>b DEF AfterClose, CloseDone
    <2> QED
      BY <1>a, <1>b, <2>1 DEF OneInv, Alive, Made
  <1>12. ASSUME NEW k \in Sockets, NEW r \in Requests, NEW answer, Answer(k, r, answer)
         PROVE  OneInv'
    BY <1>5, <1>12 DEF Answer
  <1>13. CASE UNCHANGED vars
    BY <1>5, <1>13 DEF vars
  <1> QED
    BY <1>2, <1>3, <1>4, <1>6, <1>7, <1>8, <1>9, <1>10, <1>11, <1>12, <1>13
       DEF Next, App, Happens

\* OneInv at the beginning.
LEMMA InitOne == Init => OneInv
  BY DEF Init, OneInv, Alive, Made

\* An application that does not overlap its calls of connect has one socket at
\* a time, and connected tells the truth about it.
THEOREM OneAtATime == Spec => []OneSocket
  <1>1. ASSUME TypeInv, OneInv PROVE OneSocket
    <2> SUFFICES ASSUME ~overlapped
                 PROVE  /\ Cardinality(Alive) + timers <= 1
                        /\ connected => ws # 0 /\ sock[ws] \in {"open", "closing"}
                        /\ ws # 0 /\ sock[ws] = "open" => connected
      BY DEF OneSocket
    <2>1. CASE Alive = {}
      <3>1. Cardinality(Alive) = 0
        BY <2>1, FS_EmptySet
      <3> QED
        BY <1>1, <3>1 DEF OneInv, TypeInv, RetryType
    <2>2. CASE Alive # {}
      <3>1. PICK k : k \in Alive
        BY <2>2
      <3>2. Alive = {k}
        BY <1>1, <3>1 DEF OneInv
      <3>3. Cardinality(Alive) = 1
        BY <3>2, FS_Singleton
      <3> QED
        BY <1>1, <2>2, <3>3 DEF OneInv
    <2> QED
      BY <2>1, <2>2
  <1> QED
    BY <1>1, InitType, NextType, InitOne, NextOne, PTL DEF Spec

\* Retries without success stay within maxReconnectAttempts.
THEOREM RetriesBounded == Spec => []RetriesLimited
  <1>1. TypeInv /\ OneInv => RetriesLimited
    BY BoundsAssumption DEF TypeInv, RetryType, OneInv, RetriesLimited
  <1> QED
    BY <1>1, InitType, NextType, InitOne, NextOne, PTL DEF Spec

-----------------------------------------------------------------------------
(* Nothing waits, nobody is stranded                                       *)

\* Nothing is left in the queue by a callback after which it could be sent.
LEMMA NextWaits ==
  ASSUME TypeInv, NothingWaits, [Next]_vars
  PROVE  NothingWaits'
  <1> USE DEF socketVars, retryVars, requestVars
  <1>a. Idle[1] = "idle" /\ \A k : turn = <<"closed", k>> => ~connected
    BY DEF Idle, TypeInv, TurnType
  <1>1. ASSUME NewSocket PROVE NothingWaits'
    <2>1. sock'[ws'] = "connecting"
      BY <1>1, NewOne DEF TypeInv
    <2> QED
      BY <2>1 DEF NothingWaits
  <1>2. CASE Connect \/ Timer
    BY <1>1, <1>2 DEF Connect, Timer, TimerFires
  <1>3. CASE Disconnect
    BY <1>3 DEF Disconnect, NothingWaits, CanSend
  <1>4. ASSUME UNCHANGED <<socketVars, turn>>, CanSend => messageQueue' = messageQueue
        PROVE  NothingWaits'
    BY <1>4 DEF NothingWaits, CanSend
  <1>5. ASSUME NEW r \in Requests, Call(r) PROVE NothingWaits'
    BY <1>4, <1>5 DEF Call
  <1>6. ASSUME NEW k \in Sockets, Opened(k) \/ Closed(k) PROVE NothingWaits'
    <2>1. turn' # Idle
      BY <1>6 DEF Opened, Open, Closed, CloseEvent, Idle
    <2> QED
      BY <2>1 DEF NothingWaits
  <1>7. ASSUME NEW k \in Sockets, QueueSent(k) PROVE NothingWaits'
    BY <1>7 DEF QueueSent, QueueSentOf, NothingWaits
  <1>8. ASSUME NEW k \in Sockets, QueueThrows(k) \/ QueueEmpty(k)
        PROVE  NothingWaits'
    BY <1>8 DEF QueueThrows, QueueEmpty, NothingWaits, CanSend
  <1>9. ASSUME NEW k \in Sockets, QueueTurns(k) PROVE NothingWaits'
    BY <1>4, <1>9 DEF QueueTurns
  <1>10. ASSUME NEW k \in Sockets, PeerCloses(k) PROVE NothingWaits'
    <2>1. /\ UNCHANGED <<ws, connected, turn, messageQueue>>
          /\ sock' = [sock EXCEPT ![k] = "closing"]
          /\ ws # 0 => ws \in Sockets
      BY <1>10 DEF PeerCloses, TypeInv, SocketType, Made
    <2>2. ws # 0 /\ sock'[ws] = "open" => sock[ws] = "open"
      BY <2>1 DEF TypeInv, SocketType
    <2>3. CASE ws # 0 /\ sock'[ws] = "open"
      BY <2>1, <2>2, <2>3 DEF NothingWaits, CanSend
    <2> QED
      BY <2>1, <2>3 DEF NothingWaits, CanSend
  <1>11. ASSUME NEW k \in Sockets, AfterClose(k) PROVE NothingWaits'
    BY <1>a, <1>11 DEF AfterClose, CloseDone, NothingWaits, CanSend
  <1>12. ASSUME NEW k \in Sockets, NEW r \in Requests, NEW answer, Answer(k, r, answer)
         PROVE  NothingWaits'
    BY <1>4, <1>12 DEF Answer
  <1>13. CASE UNCHANGED vars
    BY <1>4, <1>13 DEF vars
  <1> QED
    BY <1>2, <1>3, <1>5, <1>6, <1>7, <1>8, <1>9, <1>10, <1>11, <1>12, <1>13
       DEF Next, App, Happens, Process

\* Nothing waits in the queue of a client that could send it.
THEOREM NoneWaits == Spec => []NothingWaits
  <1>1. Init => NothingWaits
    BY DEF Init, NothingWaits, CanSend
  <1> QED
    BY <1>1, InitType, NextType, NextWaits, PTL DEF Spec

\* The last callback of the last socket leaves a timer, or no attempt is left.
LEMMA NextStranded ==
  ASSUME TypeInv, NotStranded, [Next]_vars
  PROVE  NotStranded'
  <1> USE DEF socketVars, retryVars, requestVars
  <1>a. /\ autoReconnect \in BOOLEAN /\ timers \in Nat
        /\ MaxReconnectAttempts \in Nat /\ reconnectAttempts \in 0..MaxReconnectAttempts
        /\ \A k \in Sockets : turn = <<"open", k>> => k \in Alive
    BY BoundsAssumption DEF TypeInv, RetryType, TurnType, Alive, Made
  <1>1. ASSUME NewSocket PROVE NotStranded'
    <2>1. Alive' # {}
      BY <1>1, NewOne DEF TypeInv
    <2> QED
      BY <2>1 DEF NotStranded
  <1>2. CASE Connect \/ Timer
    BY <1>1, <1>2 DEF Connect, Timer, TimerFires
  <1>3. CASE Disconnect
    BY <1>3 DEF Disconnect, NotStranded
  <1>4. ASSUME UNCHANGED <<sock, retryVars, turn>> PROVE NotStranded'
    BY <1>4 DEF NotStranded, Alive, Made
  <1>5. ASSUME NEW r \in Requests, Call(r) PROVE NotStranded'
    BY <1>4, <1>5 DEF Call
  <1>6. ASSUME NEW k \in Sockets, Opened(k) \/ Closed(k) PROVE NotStranded'
    <2>1. turn' # Idle
      BY <1>6 DEF Opened, Open, Closed, CloseEvent, Idle
    <2> QED
      BY <2>1 DEF NotStranded
  <1>7. ASSUME NEW k \in Sockets, Process(k) PROVE NotStranded'
    <2>1. turn = <<"open", k>> /\ sock' = sock
      BY <1>7 DEF Process, QueueSent, QueueSentOf, QueueThrows, QueueTurns, QueueEmpty
    <2>2. k \in Alive'
      BY <1>a, <2>1 DEF Alive, Made
    <2> QED
      BY <2>2 DEF NotStranded
  <1>8. ASSUME NEW k \in Sockets, PeerCloses(k) PROVE NotStranded'
    <2>1. k \in Alive'
      BY <1>8 DEF PeerCloses, TypeInv, SocketType, Alive, Made
    <2> QED
      BY <2>1 DEF NotStranded
  <1>9. ASSUME NEW k \in Sockets, AfterClose(k) PROVE NotStranded'
    <2>1. CASE autoReconnect /\ reconnectAttempts < MaxReconnectAttempts
      <3>1. timers' = timers + 1
        BY <1>9, <2>1 DEF AfterClose, CloseDone
      <3> QED
        BY <1>a, <3>1 DEF NotStranded
    <2>2. CASE ~(autoReconnect /\ reconnectAttempts < MaxReconnectAttempts)
      <3>1. autoReconnect' = autoReconnect /\ reconnectAttempts' = reconnectAttempts
        BY <1>a, <1>9, <2>2 DEF AfterClose, CloseDone
      <3>2. autoReconnect' => reconnectAttempts' = MaxReconnectAttempts
        BY <1>a, <2>2, <3>1
      <3> QED
        BY <3>2 DEF NotStranded
    <2> QED
      BY <2>1, <2>2
  <1>10. ASSUME NEW k \in Sockets, NEW r \in Requests, NEW answer, Answer(k, r, answer)
         PROVE  NotStranded'
    BY <1>4, <1>10 DEF Answer
  <1>11. CASE UNCHANGED vars
    BY <1>4, <1>11 DEF vars
  <1> QED
    BY <1>2, <1>3, <1>5, <1>6, <1>7, <1>8, <1>9, <1>10, <1>11 DEF Next, App, Happens

\* A client that may reconnect is not stranded.
THEOREM NobodyStranded == Spec => []NotStranded
  <1>1. Init => NotStranded
    BY DEF Init, NotStranded, Made
  <1> QED
    BY <1>1, InitType, NextType, NextStranded, PTL DEF Spec

-----------------------------------------------------------------------------
(* Where requests are                                                      *)

\* A request is in one place at most, in none when it is settled, and pending
\* ones are in one.
PlaceInv ==
  /\ \A i, j \in 1..Len(messageQueue) : messageQueue[i] = messageQueue[j] => i = j
  /\ \A r \in Range(messageQueue) :
       promise[r] = "pending" /\ r \notin lost /\ \A k \in Sockets : r \notin wire[k]
  /\ \A k \in Sockets : \A r \in wire[k] :
       /\ promise[r] = "pending" /\ r \notin lost
       /\ sock[k] \in {"open", "closing"}
       /\ \A j \in Sockets : r \in wire[j] => j = k
  /\ \A r \in lost : promise[r] \in {"pending", "rejected"}
  /\ \A r \in Requests : promise[r] = "pending" =>
       r \in Range(messageQueue) \cup lost \/ \E k \in Sockets : r \in wire[k]

\* A request that leaves a place settles or goes to another one.
LEMMA NextPlace ==
  ASSUME TypeInv, PlaceInv, [Next]_vars
  PROVE  PlaceInv'
  <1> USE DEF socketVars, retryVars, requestVars
  <1>a. /\ messageQueue \in Seq(Requests) /\ wire \in [Sockets -> SUBSET Requests]
        /\ promise \in [Requests -> {"none", "pending", "resolved", "rejected"}]
        /\ lost \subseteq Requests
        /\ sock \in [Sockets -> {"none", "connecting", "aborting", "open",
                                "closing", "closed"}]
        /\ ws # 0 => ws \in Sockets
    BY DEF TypeInv, RequestType, SocketType, Made
  <1>b. /\ Len(messageQueue) \in Nat /\ Range(messageQueue) \subseteq Requests
        /\ \A r : r \in Range(messageQueue) <=>
             \E i \in 1..Len(messageQueue) : messageQueue[i] = r
    BY <1>a, Queue
  <1>1. ASSUME UNCHANGED <<messageQueue, wire, promise, lost>>,
               \A k \in Sockets : sock[k] \in {"open", "closing"} =>
                 sock'[k] \in {"open", "closing"}
        PROVE  PlaceInv'
    BY <1>1 DEF PlaceInv
  <1>2. CASE Connect \/ Timer
    BY <1>1, <1>2, NewOne DEF Connect, Timer, TimerFires, TypeInv
  <1>3. CASE Disconnect
    BY <1>1, <1>3 DEF Disconnect, Closing
  <1>4. ASSUME NEW r \in Requests, Call(r) PROVE PlaceInv'
    <2>1. /\ r \notin Range(messageQueue) /\ r \notin lost
          /\ \A k \in Sockets : r \notin wire[k]
          /\ sock' = sock
      BY <1>4 DEF Call, PlaceInv
    <2>2. ASSUME promise' = [promise EXCEPT ![r] = "pending"], messageQueue' = messageQueue,
                 CanSend, PutOnWire({r})
          PROVE  PlaceInv'
      <3>1. CASE sock[ws] = "open"
        <4>1. /\ lost' = lost /\ ws \in Sockets /\ wire'[ws] = wire[ws] \cup {r}
              /\ \A k \in Sockets \ {ws} : wire'[k] = wire[k]
          BY <2>2, <3>1, OnWire
        <4>2. /\ promise'[r] = "pending" /\ r \in wire'[ws]
              /\ \A q \in Requests \ {r} : promise'[q] = promise[q]
          BY <1>a, <2>2, <4>1
        <4> QED
          BY <1>a, <1>b, <2>1, <2>2, <3>1, <4>1, <4>2 DEF PlaceInv
      <3>2. CASE sock[ws] # "open"
        <4>1. lost' = lost \cup {r} /\ wire' = wire
          BY <2>2, <3>2, OnWire
        <4>2. /\ promise'[r] = "pending"
              /\ \A q \in Requests \ {r} : promise'[q] = promise[q]
          BY <1>a, <2>2
        <4> QED
          BY <1>a, <1>b, <2>1, <2>2, <4>1, <4>2 DEF PlaceInv
      <3> QED
        BY <3>1, <3>2
    <2>3. ASSUME promise' = [promise EXCEPT ![r] = "rejected"], lost' = lost \cup {r},
                 UNCHANGED <<messageQueue, wire>>
          PROVE  PlaceInv'
      <3>1. /\ promise'[r] = "rejected"
            /\ \A q \in Requests \ {r} : promise'[q] = promise[q]
        BY <1>a, <2>3
      <3> QED
        BY <1>a, <1>b, <2>1, <2>3, <3>1 DEF PlaceInv
    <2>4. ASSUME promise' = [promise EXCEPT ![r] = "pending"],
                 messageQueue' = Append(messageQueue, r), UNCHANGED <<wire, lost>>
          PROVE  PlaceInv'
      <3>1. /\ messageQueue' \in Seq(Requests)
            /\ Len(messageQueue') = Len(messageQueue) + 1
            /\ \A i \in 1..Len(messageQueue) : messageQueue'[i] = messageQueue[i]
            /\ messageQueue'[Len(messageQueue) + 1] = r
        BY <1>a, <2>4, Queue
      <3>2. \A i \in 1..Len(messageQueue') :
              i \in 1..Len(messageQueue) \/ i = Len(messageQueue) + 1
        BY <1>b, <3>1
      <3>3. \A q : q \in Range(messageQueue') <=>
                    \E i \in 1..Len(messageQueue') : messageQueue'[i] = q
        BY <3>1, Queue
      <3>4. Range(messageQueue') = Range(messageQueue) \cup {r}
        BY <1>b, <3>1, <3>2, <3>3
      <3>5. /\ promise'[r] = "pending"
            /\ \A q \in Requests \ {r} : promise'[q] = promise[q]
        BY <1>a, <2>4
      <3>6. \A i, j \in 1..Len(messageQueue') : messageQueue'[i] = messageQueue'[j] => i = j
        BY <1>b, <2>1, <3>1, <3>2 DEF PlaceInv
      <3> QED
        BY <1>a, <1>b, <2>1, <2>4, <3>4, <3>5, <3>6 DEF PlaceInv
    <2> QED
      BY <1>4, <2>2, <2>3, <2>4 DEF Call
  <1>5. ASSUME NEW k \in Sockets, Opened(k) PROVE PlaceInv'
    <2>1. sock' = [sock EXCEPT ![k] = "open"] /\ UNCHANGED requestVars
      BY <1>5 DEF Opened, Open
    <2> QED
      BY <1>1, <1>a, <2>1
  <1>6. ASSUME NEW k \in Sockets, PeerCloses(k) PROVE PlaceInv'
    <2>1. sock' = [sock EXCEPT ![k] = "closing"] /\ UNCHANGED requestVars
      BY <1>6 DEF PeerCloses
    <2> QED
      BY <1>1, <1>a, <2>1
  <1>7. ASSUME NEW k \in Sockets, Closed(k) PROVE PlaceInv'
    <2>1. /\ sock' = [sock EXCEPT ![k] = "closed"]
          /\ lost' = lost \cup wire[k] /\ wire' = [wire EXCEPT ![k] = {}]
          /\ UNCHANGED <<messageQueue, promise>>
      BY <1>7 DEF Closed, CloseEvent
    <2>2. /\ wire'[k] = {}
          /\ \A j \in Sockets \ {k} : wire'[j] = wire[j] /\ sock'[j] = sock[j]
      BY <1>a, <2>1
    <2>3. \A j \in Sockets : \A r \in wire'[j] : j # k /\ r \in wire[j]
      BY <2>2
    <2> QED
      BY <1>a, <2>1, <2>2, <2>3 DEF PlaceInv
  <1>8. ASSUME NEW k \in Sockets, QueueSent(k) PROVE PlaceInv'
    <2>1. /\ CanSend /\ PutOnWire(Range(messageQueue))
          /\ messageQueue' = <<>> /\ UNCHANGED <<promise, sock>>
      BY <1>8 DEF QueueSent, QueueSentOf
    <2>2. /\ Len(messageQueue') = 0 /\ messageQueue' \in Seq(Requests)
      BY <2>1, EmptySeq
    <2>3. Range(messageQueue') = {}
      <3>1. \A r : r \in Range(messageQueue') <=>
                    \E i \in 1..Len(messageQueue') : messageQueue'[i] = r
        BY <2>2, Queue
      <3>2. \A r : r \notin Range(messageQueue')
        BY <2>2, <3>1
      <3> QED
        BY <3>2
    <2>4. CASE sock[ws] = "open"
      <3>1. /\ lost' = lost /\ ws \in Sockets
            /\ wire'[ws] = wire[ws] \cup Range(messageQueue)
            /\ \A j \in Sockets \ {ws} : wire'[j] = wire[j]
        BY <1>b, <2>1, <2>4, OnWire
      <3>2. ASSUME NEW j \in Sockets, NEW r \in wire'[j]
            PROVE  r \in wire[j] \/ (r \in Range(messageQueue) /\ j = ws)
        <4>1. CASE j = ws
          BY <3>1, <3>2, <4>1
        <4>2. CASE j # ws
          BY <3>1, <3>2, <4>2
        <4> QED
          BY <4>1, <4>2
      <3>3. ASSUME NEW j \in Sockets, NEW r \in wire'[j]
            PROVE  /\ promise'[r] = "pending" /\ r \notin lost'
                   /\ sock'[j] \in {"open", "closing"}
                   /\ \A i \in Sockets : r \in wire'[i] => i = j
        BY <2>1, <2>4, <3>1, <3>2, <3>3 DEF PlaceInv
      <3>4. \A r \in Requests : promise'[r] = "pending" =>
              r \in lost' \/ \E j \in Sockets : r \in wire'[j]
        BY <2>1, <3>1 DEF PlaceInv
      <3> QED
        BY <2>1, <2>2, <2>3, <3>1, <3>3, <3>4 DEF PlaceInv
    <2>5. CASE sock[ws] # "open"
      <3>1. lost' = lost \cup Range(messageQueue) /\ wire' = wire
        BY <1>b, <2>1, <2>5, OnWire
      <3> QED
        BY <2>1, <2>2, <2>3, <3>1 DEF PlaceInv
    <2> QED
      BY <2>4, <2>5
  <1>9. ASSUME NEW k \in Sockets, QueueThrows(k) PROVE PlaceInv'
    <2> DEFINE h == Head(messageQueue)
    <2>1. /\ messageQueue # <<>> /\ lost' = lost \cup {h}
          /\ messageQueue' = Tail(messageQueue) /\ UNCHANGED <<wire, promise, sock>>
      BY <1>9 DEF QueueThrows
    <2>2. /\ Len(messageQueue) >= 1 /\ h = messageQueue[1]
          /\ messageQueue' \in Seq(Requests)
          /\ Len(messageQueue') = Len(messageQueue) - 1
          /\ \A i \in 1..Len(messageQueue') : messageQueue'[i] = messageQueue[i + 1]
      BY <1>a, <2>1, Queue
    <2> HIDE DEF h
    <2>3. \A q : q \in Range(messageQueue') <=>
                  \E i \in 1..Len(messageQueue') : messageQueue'[i] = q
      BY <2>2, Queue
    <2>4. \A i \in 1..Len(messageQueue') : i + 1 \in 1..Len(messageQueue)
      BY <1>b, <2>2
    <2>5. 1 \in 1..Len(messageQueue) /\ h \in Range(messageQueue)
      BY <1>b, <2>2
    <2>6. \A q \in Range(messageQueue') : q \in Range(messageQueue) /\ q # h
      BY <1>b, <2>2, <2>3, <2>4, <2>5 DEF PlaceInv
    <2>7. \A q \in Range(messageQueue) \ {h} : q \in Range(messageQueue')
      <3>1. ASSUME NEW i \in 1..Len(messageQueue), i # 1
            PROVE  messageQueue[i] \in Range(messageQueue')
        <4>1. i - 1 \in 1..Len(messageQueue') /\ (i - 1) + 1 = i
          BY <1>b, <2>2, <3>1
        <4> QED
          BY <2>2, <2>3, <4>1
      <3> QED
        BY <1>b, <2>2, <3>1
    <2>8. \A i, j \in 1..Len(messageQueue') : messageQueue'[i] = messageQueue'[j] => i = j
      BY <1>b, <2>2, <2>4 DEF PlaceInv
    <2> QED
      BY <2>1, <2>5, <2>6, <2>7, <2>8 DEF PlaceInv
  <1>10. ASSUME NEW k \in Sockets, QueueTurns(k) \/ QueueEmpty(k) \/ AfterClose(k)
         PROVE  PlaceInv'
    BY <1>1, <1>10 DEF QueueTurns, QueueEmpty, AfterClose, CloseDone
  <1>11. ASSUME NEW k \in Sockets, NEW r \in Requests, NEW answer \in {"ack", "error"},
                Answer(k, r, answer)
         PROVE  PlaceInv'
    <2>1. /\ r \in wire[k] /\ wire' = [wire EXCEPT ![k] = wire[k] \ {r}]
          /\ UNCHANGED <<messageQueue, lost, sock>>
          /\ \E how \in {"resolved", "rejected"} : promise' = Settle(promise, r, how)
      BY <1>11 DEF Answer
    <2>2. promise[r] = "pending"
      BY <2>1 DEF PlaceInv
    <2>3. /\ promise'[r] \in {"resolved", "rejected"}
          /\ \A q \in Requests \ {r} : promise'[q] = promise[q]
      BY <1>a, <2>1, <2>2 DEF Settle
    <2>4. /\ \A j \in Sockets : wire'[j] \subseteq wire[j] /\ r \notin wire'[j]
          /\ \A j \in Sockets : wire[j] \subseteq wire'[j] \cup {r}
      BY <1>a, <2>1 DEF PlaceInv
    <2>5. r \notin Range(messageQueue) /\ r \notin lost
      BY <2>1 DEF PlaceInv
    <2> QED
      BY <1>a, <1>b, <2>1, <2>3, <2>4, <2>5 DEF PlaceInv
  <1>12. CASE UNCHANGED vars
    BY <1>1, <1>12 DEF vars
  <1> QED
    BY <1>2, <1>3, <1>4, <1>5, <1>6, <1>7, <1>8, <1>9, <1>10, <1>11, <1>12
       DEF Next, App, Happens, Process

\* No request has been made at first.
LEMMA InitPlace == Init => PlaceInv
  <1> SUFFICES ASSUME Init PROVE PlaceInv
    OBVIOUS
  <1>1. Len(messageQueue) = 0 /\ messageQueue \in Seq(Requests)
    BY EmptySeq DEF Init
  <1>2. Range(messageQueue) = {}
    <2>1. \A r : r \in Range(messageQueue) <=>
                  \E i \in 1..Len(messageQueue) : messageQueue[i] = r
      BY <1>1, Queue
    <2>2. \A r : r \notin Range(messageQueue)
      BY <1>1, <2>1
    <2> QED
      BY <2>2
  <1> QED
    BY <1>1, <1>2 DEF Init, PlaceInv

\* No request is forgotten, none is in two places.
THEOREM AllAccounted == Spec => []RequestsAccounted
  <1>1. ASSUME TypeInv, PlaceInv PROVE RequestsAccounted
    <2>1. /\ messageQueue \in Seq(Requests) /\ Len(messageQueue) \in Nat
          /\ \A r : r \in Range(messageQueue) <=>
               \E i \in 1..Len(messageQueue) : messageQueue[i] = r
          /\ DOMAIN messageQueue = 1..Len(messageQueue)
      BY <1>1, Queue, LenProperties DEF TypeInv, RequestType
    <2>2. Cardinality(Range(messageQueue)) = Len(messageQueue)
      <3>1. messageQueue \in [1..Len(messageQueue) -> Range(messageQueue)]
        BY <2>1, ElementOfSeq
      <3>2. messageQueue \in Bijection(1..Len(messageQueue), Range(messageQueue))
        BY <1>1, <2>1, <3>1
           DEF PlaceInv, Bijection, Injection, Surjection, IsInjective
      <3> QED
        BY <2>1, <3>2, FS_CountingElements DEF ExistsBijection
    <2>3. ASSUME NEW r \in Called
          PROVE  LET places == {k \in Alive : r \in wire[k]} IN
                 CASE r \in Range(messageQueue) ->
                        promise[r] = "pending" /\ places = {} /\ r \notin lost
                   [] r \in lost -> places = {} /\ promise[r] # "resolved"
                   [] OTHER -> (promise[r] = "pending") <=> (Cardinality(places) = 1)
      <3> DEFINE places == {k \in Alive : r \in wire[k]}
      <3>1. Alive \subseteq Sockets /\ r \in Requests
        BY DEF Alive, Made, Called
      <3>2. CASE r \in Range(messageQueue)
        BY <1>1, <3>1, <3>2 DEF PlaceInv
      <3>3. CASE r \notin Range(messageQueue) /\ r \in lost
        BY <1>1, <3>1, <3>3 DEF PlaceInv
      <3>4. CASE r \notin Range(messageQueue) /\ r \notin lost
        <4>1. CASE promise[r] = "pending"
          <5>1. PICK k \in Sockets : r \in wire[k]
            BY <1>1, <3>1, <3>4, <4>1 DEF PlaceInv
          <5>2. places = {k}
            BY <1>1, <3>1, <5>1 DEF PlaceInv, Alive, Made
          <5>3. Cardinality(places) = 1
            BY <5>2, FS_Singleton
          <5> QED
            BY <3>4, <4>1, <5>3
        <4>2. CASE promise[r] # "pending"
          <5>1. places = {}
            BY <1>1, <3>1, <4>2 DEF PlaceInv
          <5>2. Cardinality(places) = 0
            BY <5>1, FS_EmptySet
          <5> QED
            BY <3>4, <4>2, <5>2
        <4> QED
          BY <4>1, <4>2
      <3> QED
        BY <3>2, <3>3, <3>4
    <2> QED
      BY <2>2, <2>3 DEF RequestsAccounted
  <1> QED
    BY <1>1, InitPlace, InitType, NextType, NextPlace, PTL DEF Spec

-----------------------------------------------------------------------------
(* The ledger                                                              *)

\* What RefinesLedger takes for the places of a request.
Held == Range(messageQueue)
Out == UNION {wire[k] : k \in Sockets}
Answered == {r \in Requests \ lost : promise[r] \in {"resolved", "rejected"}}
Refused == {r \in lost : promise[r] = "rejected"}
Missing == {r \in lost : promise[r] = "pending"}

\* The members of a queue without repeats, when it is empty, grows and shrinks.
LEMMA QueueMembers ==
  ASSUME NEW q \in Seq(Requests)
  PROVE  /\ q = <<>> => Range(q) = {}
         /\ \A r \in Requests : Range(Append(q, r)) = Range(q) \cup {r}
         /\ /\ q # <<>>
            /\ \A i, j \in 1..Len(q) : q[i] = q[j] => i = j
            => Head(q) \in Range(q) /\ Range(Tail(q)) = Range(q) \ {Head(q)}
  <1>1. /\ Len(q) \in Nat
        /\ \A r : r \in Range(q) <=> \E i \in 1..Len(q) : q[i] = r
    BY Queue
  <1>2. ASSUME q = <<>> PROVE Range(q) = {}
    <2>1. Len(q) = 0
      BY <1>2, EmptySeq
    <2>2. \A r : r \notin Range(q)
      BY <1>1, <2>1
    <2> QED
      BY <2>2
  <1>3. ASSUME NEW r \in Requests
        PROVE  Range(Append(q, r)) = Range(q) \cup {r}
    <2> DEFINE a == Append(q, r)
    <2>1. /\ a \in Seq(Requests) /\ Len(a) = Len(q) + 1
          /\ \A i \in 1..Len(q) : a[i] = q[i]
          /\ a[Len(q) + 1] = r
      BY Queue
    <2>2. \A p : p \in Range(a) <=> \E i \in 1..Len(a) : a[i] = p
      BY <2>1, Queue
    <2> HIDE DEF a
    <2>3. 1..Len(a) = 1..Len(q) \cup {Len(q) + 1}
      BY <1>1, <2>1
    <2>4. \A p : p \in Range(a) <=> p \in Range(q) \/ p = r
      BY <1>1, <2>1, <2>2, <2>3
    <2> QED
      BY <2>4 DEF a
  <1>4. ASSUME q # <<>>, \A i, j \in 1..Len(q) : q[i] = q[j] => i = j
        PROVE  Head(q) \in Range(q) /\ Range(Tail(q)) = Range(q) \ {Head(q)}
    <2> DEFINE t == Tail(q)
               h == Head(q)
    <2>1. /\ Len(q) >= 1 /\ h = q[1]
          /\ t \in Seq(Requests) /\ Len(t) = Len(q) - 1
          /\ \A i \in 1..Len(t) : t[i] = q[i + 1]
      BY <1>4, Queue
    <2>2. \A p : p \in Range(t) <=> \E i \in 1..Len(t) : t[i] = p
      BY <2>1, Queue
    <2> HIDE DEF t, h
    <2>3. \A i \in 1..Len(t) : i + 1 \in 1..Len(q) /\ i + 1 # 1
      BY <1>1, <2>1
    <2>4. 1 \in 1..Len(q) /\ h \in Range(q)
      BY <1>1, <2>1
    <2>5. \A p \in Range(t) : p \in Range(q) /\ p # h
      BY <1>1, <1>4, <2>1, <2>2, <2>3, <2>4
    <2>6. ASSUME NEW i \in 1..Len(q), i # 1 PROVE q[i] \in Range(t)
      <3>1. i - 1 \in 1..Len(t) /\ (i - 1) + 1 = i
        BY <1>1, <2>1, <2>6
      <3> QED
        BY <2>1, <2>2, <3>1
    <2>7. \A p \in Range(q) : p # h => p \in Range(t)
      BY <1>1, <2>1, <2>6
    <2> QED
      BY <2>4, <2>5, <2>7 DEF t, h
  <1> QED
    BY <1>2, <1>3, <1>4

\* A request that is called for the first time is one the ledger does not know.
LEMMA CallLedger ==
  ASSUME TypeInv, PlaceInv, NEW r \in Requests, Call(r)
  PROVE  [Ledger!Next]_(Ledger!ledgerVars)
  <1>a. /\ messageQueue \in Seq(Requests) /\ wire \in [Sockets -> SUBSET Requests]
        /\ promise \in [Requests -> {"none", "pending", "resolved", "rejected"}]
        /\ lost \subseteq Requests /\ Range(messageQueue) \subseteq Requests
    BY Queue DEF TypeInv, RequestType
  <1>1. promise[r] = "none"
    BY DEF Call
  <1>2. /\ r \notin Held /\ r \notin lost /\ \A k \in Sockets : r \notin wire[k]
    BY <1>1 DEF PlaceInv, Held
  <1>3. r \notin Held \cup Out \cup Answered \cup Refused \cup Missing
    BY <1>1, <1>2 DEF Out, Answered, Refused, Missing
  <1>4. r \notin Ledger!Known
    BY <1>3 DEF Ledger!Known, Held, Out, Answered, Refused, Missing
  <1>5. ASSUME NEW how \in {"pending", "rejected"},
               promise' = [promise EXCEPT ![r] = how]
        PROVE  promise'[r] = how /\ \A q \in Requests \ {r} : promise'[q] = promise[q]
    BY <1>a, <1>5
  <1>6. ASSUME Answered' = Answered,
               \/ Held' = Held \cup {r} /\ Out' = Out
                  /\ Refused' = Refused /\ Missing' = Missing
               \/ Out' = Out \cup {r} /\ Held' = Held
                  /\ Refused' = Refused /\ Missing' = Missing
               \/ Refused' = Refused \cup {r} /\ Held' = Held
                  /\ Out' = Out /\ Missing' = Missing
               \/ Missing' = Missing \cup {r} /\ Held' = Held
                  /\ Out' = Out /\ Refused' = Refused
        PROVE  [Ledger!Next]_(Ledger!ledgerVars)
    <2>1. Ledger!Make(r)
      BY <1>4, <1>6 DEF Ledger!Make, Held, Out, Answered, Refused, Missing
    <2> QED
      BY <2>1 DEF Ledger!Next
  <1>7. CASE /\ CanSend /\ sock[ws] = "open" /\ PutOnWire({r})
             /\ promise' = [promise EXCEPT ![r] = "pending"]
             /\ messageQueue' = messageQueue
    <2>1. /\ lost' = lost /\ ws \in Sockets /\ wire'[ws] = wire[ws] \cup {r}
          /\ \A k \in Sockets \ {ws} : wire'[k] = wire[k]
      BY <1>7, OnWire
    <2>2. /\ promise'[r] = "pending"
          /\ \A q \in Requests \ {r} : promise'[q] = promise[q]
      BY <1>5, <1>7
    <2>3. Out' = Out \cup {r}
      BY <2>1 DEF Out
    <2>4. Refused' = Refused /\ Missing' = Missing
      BY <1>2, <1>a, <2>1, <2>2 DEF Refused, Missing
    <2>5. Answered' = Answered
      BY <1>1, <2>1, <2>2 DEF Answered
    <2>6. Held' = Held
      BY <1>7 DEF Held
    <2> QED
      BY <1>6, <2>3, <2>4, <2>5, <2>6
  <1>8. CASE /\ lost' = lost \cup {r} /\ wire' = wire /\ messageQueue' = messageQueue
             /\ promise' = [promise EXCEPT ![r] = "pending"]
    <2>1. /\ promise'[r] = "pending"
          /\ \A q \in Requests \ {r} : promise'[q] = promise[q]
      BY <1>5, <1>8
    <2>2. Missing' = Missing \cup {r}
      BY <1>2, <1>8, <1>a, <2>1 DEF Missing
    <2>3. Refused' = Refused
      BY <1>2, <1>8, <1>a, <2>1 DEF Refused
    <2>4. Answered' = Answered
      BY <1>1, <1>8, <2>1 DEF Answered
    <2>5. Held' = Held /\ Out' = Out
      BY <1>8 DEF Held, Out
    <2> QED
      BY <1>6, <2>2, <2>3, <2>4, <2>5
  <1>9. CASE /\ lost' = lost \cup {r} /\ wire' = wire /\ messageQueue' = messageQueue
             /\ promise' = [promise EXCEPT ![r] = "rejected"]
    <2>1. /\ promise'[r] = "rejected"
          /\ \A q \in Requests \ {r} : promise'[q] = promise[q]
      BY <1>5, <1>9
    <2>2. Refused' = Refused \cup {r}
      BY <1>2, <1>9, <1>a, <2>1 DEF Refused
    <2>3. Missing' = Missing
      BY <1>2, <1>9, <1>a, <2>1 DEF Missing
    <2>4. Answered' = Answered
      BY <1>1, <1>9, <2>1 DEF Answered
    <2>5. Held' = Held /\ Out' = Out
      BY <1>9 DEF Held, Out
    <2> QED
      BY <1>6, <2>2, <2>3, <2>4, <2>5
  <1>10. CASE /\ messageQueue' = Append(messageQueue, r)
              /\ promise' = [promise EXCEPT ![r] = "pending"]
              /\ UNCHANGED <<wire, lost>>
    <2>1. /\ promise'[r] = "pending"
          /\ \A q \in Requests \ {r} : promise'[q] = promise[q]
      BY <1>5, <1>10
    <2>2. Held' = Held \cup {r}
      BY <1>a, <1>10, QueueMembers DEF Held
    <2>3. Refused' = Refused /\ Missing' = Missing
      BY <1>2, <1>10, <1>a, <2>1 DEF Refused, Missing
    <2>4. Answered' = Answered
      BY <1>1, <1>10, <2>1 DEF Answered
    <2>5. Out' = Out
      BY <1>10 DEF Out
    <2> QED
      BY <1>6, <2>2, <2>3, <2>4, <2>5
  <1>11. ASSUME CanSend, sock[ws] # "open", PutOnWire({r})
         PROVE  lost' = lost \cup {r} /\ wire' = wire
    BY <1>11, OnWire
  <1> QED
    BY <1>7, <1>8, <1>9, <1>10, <1>11 DEF Call

\* _processQueue empties the queue, and passes all of it on, or loses it.
LEMMA QueueLedger ==
  ASSUME TypeInv, PlaceInv, NEW k \in Sockets, QueueSent(k)
  PROVE  [Ledger!Next]_(Ledger!ledgerVars)
  <1>a. /\ messageQueue \in Seq(Requests) /\ wire \in [Sockets -> SUBSET Requests]
        /\ lost \subseteq Requests /\ Held \subseteq Requests
    BY Queue DEF TypeInv, RequestType, Held
  <1>1. /\ CanSend /\ PutOnWire(Held) /\ messageQueue' = <<>> /\ promise' = promise
    BY DEF QueueSent, QueueSentOf, Held
  <1>2. Held' = {} /\ Held' = Held \ Held
    <2>1. messageQueue' \in Seq(Requests)
      BY <1>1, EmptySeq
    <2>2. Held' = {}
      BY <1>1, <2>1, QueueMembers DEF Held
    <2> QED
      BY <2>2
  <1>3. \A r \in Held : promise[r] = "pending" /\ r \notin lost
    BY DEF PlaceInv, Held
  <1>4. PICK rs \in SUBSET Held : rs = Held
    OBVIOUS
  <1>5. CASE sock[ws] = "open"
    <2>1. /\ lost' = lost /\ ws \in Sockets /\ wire'[ws] = wire[ws] \cup Held
          /\ \A j \in Sockets \ {ws} : wire'[j] = wire[j]
      BY <1>1, <1>5, <1>a, OnWire
    <2>2. Out' = Out \cup Held
      BY <2>1 DEF Out
    <2>3. Answered' = Answered /\ Refused' = Refused /\ Missing' = Missing
      BY <1>1, <2>1 DEF Answered, Refused, Missing
    <2>4. Ledger!PassOn(rs)
      BY <1>2, <1>4, <2>2, <2>3 DEF Ledger!PassOn, Held, Out, Answered, Refused, Missing
    <2> QED
      BY <2>4 DEF Ledger!Next, Held
  <1>6. CASE sock[ws] # "open"
    <2>1. lost' = lost \cup Held /\ wire' = wire
      BY <1>1, <1>6, <1>a, OnWire
    <2>2. Missing' = Missing \cup Held
      BY <1>1, <1>3, <1>a, <2>1 DEF Missing
    <2>3. Refused' = Refused
      BY <1>1, <1>3, <1>a, <2>1 DEF Refused
    <2>4. Answered' = Answered
      BY <1>1, <1>3, <1>a, <2>1 DEF Answered
    <2>5. Out' = Out
      BY <2>1 DEF Out
    <2>6. Ledger!PassOn(rs)
      BY <1>2, <1>4, <2>2, <2>3, <2>4, <2>5
         DEF Ledger!PassOn, Held, Out, Answered, Refused, Missing
    <2> QED
      BY <2>6 DEF Ledger!Next, Held
  <1> QED
    BY <1>5, <1>6

\* When send throws in _processQueue, the request it had taken is lost.
LEMMA ThrowLedger ==
  ASSUME TypeInv, PlaceInv, NEW k \in Sockets, QueueThrows(k)
  PROVE  [Ledger!Next]_(Ledger!ledgerVars)
  <1> DEFINE h == Head(messageQueue)
  <1>a. messageQueue \in Seq(Requests) /\ lost \subseteq Requests
        /\ Held \subseteq Requests
    BY Queue DEF TypeInv, RequestType, Held
  <1>1. /\ messageQueue # <<>> /\ lost' = lost \cup {h}
        /\ messageQueue' = Tail(messageQueue) /\ UNCHANGED <<wire, promise>>
    BY DEF QueueThrows
  <1>2. h \in Held /\ Held' = Held \ {h}
    BY <1>a, <1>1, QueueMembers DEF PlaceInv, Held
  <1>3. promise[h] = "pending" /\ h \notin lost /\ h \in Requests
    BY <1>2, <1>a DEF PlaceInv, Held
  <1> HIDE DEF h
  <1>4. Missing' = Missing \cup {h}
    BY <1>1, <1>3, <1>a DEF Missing
  <1>5. Refused' = Refused
    BY <1>1, <1>3, <1>a DEF Refused
  <1>6. Answered' = Answered
    BY <1>1, <1>3, <1>a DEF Answered
  <1>7. Out' = Out
    BY <1>1 DEF Out
  <1>8. PICK rs \in SUBSET Held : rs = {h}
    BY <1>2
  <1>9. Ledger!PassOn(rs)
    BY <1>2, <1>8, <1>4, <1>5, <1>6, <1>7
       DEF Ledger!PassOn, Held, Out, Answered, Refused, Missing
  <1> QED
    BY <1>9 DEF Ledger!Next, Held

\* An answer settles a request that is out.
LEMMA AnswerLedger ==
  ASSUME TypeInv, PlaceInv, NEW k \in Sockets, NEW r \in Requests,
         NEW answer \in {"ack", "error"}, Answer(k, r, answer)
  PROVE  [Ledger!Next]_(Ledger!ledgerVars)
  <1>a. /\ wire \in [Sockets -> SUBSET Requests] /\ lost \subseteq Requests
        /\ promise \in [Requests -> {"none", "pending", "resolved", "rejected"}]
    BY DEF TypeInv, RequestType
  <1>1. /\ r \in wire[k] /\ wire' = [wire EXCEPT ![k] = wire[k] \ {r}]
        /\ UNCHANGED <<messageQueue, lost>>
        /\ \E how \in {"resolved", "rejected"} : promise' = Settle(promise, r, how)
    BY DEF Answer
  <1>2. /\ promise[r] = "pending" /\ r \notin lost
        /\ \A j \in Sockets \ {k} : r \notin wire[j]
    BY <1>1 DEF PlaceInv
  <1>3. /\ promise'[r] \in {"resolved", "rejected"}
        /\ \A q \in Requests \ {r} : promise'[q] = promise[q]
    BY <1>a, <1>1, <1>2 DEF Settle
  <1>4. /\ wire'[k] = wire[k] \ {r}
        /\ \A j \in Sockets \ {k} : wire'[j] = wire[j]
    BY <1>a, <1>1
  <1>5. Out' = Out \ {r} /\ r \in Out
    BY <1>1, <1>2, <1>4 DEF Out
  <1>6. Answered' = Answered \cup {r}
    BY <1>1, <1>2, <1>3 DEF Answered
  <1>7. Refused' = Refused /\ Missing' = Missing
    BY <1>1, <1>2, <1>3, <1>a DEF Refused, Missing
  <1>8. Held' = Held
    BY <1>1 DEF Held
  <1>9. Ledger!Answer(r)
    BY <1>5, <1>6, <1>7, <1>8
       DEF Ledger!Answer, Held, Out, Answered, Refused, Missing
  <1> QED
    BY <1>5, <1>9 DEF Ledger!Next, Out

\* The requests that are out on a socket are lost together when it closes.
LEMMA CloseLedger ==
  ASSUME TypeInv, PlaceInv, NEW k \in Sockets, Closed(k)
  PROVE  [Ledger!Next]_(Ledger!ledgerVars)
  <1>a. /\ wire \in [Sockets -> SUBSET Requests] /\ lost \subseteq Requests
    BY DEF TypeInv, RequestType
  <1>1. /\ lost' = lost \cup wire[k] /\ wire' = [wire EXCEPT ![k] = {}]
        /\ UNCHANGED <<messageQueue, promise>>
    BY DEF Closed, CloseEvent
  <1>2. \A r \in wire[k] : /\ promise[r] = "pending" /\ r \notin lost
                           /\ \A j \in Sockets \ {k} : r \notin wire[j]
    BY DEF PlaceInv
  <1>3. wire'[k] = {} /\ \A j \in Sockets \ {k} : wire'[j] = wire[j]
    BY <1>a, <1>1
  <1>4. PICK rs \in SUBSET Out : rs = wire[k] /\ rs \subseteq Requests
    BY <1>a DEF Out
  <1>5. Out' = Out \ wire[k]
    BY <1>2, <1>3 DEF Out
  <1>6. Missing' = Missing \cup wire[k]
    BY <1>1, <1>2, <1>a DEF Missing
  <1>7. Refused' = Refused
    BY <1>1, <1>2, <1>a DEF Refused
  <1>8. Answered' = Answered
    BY <1>1, <1>2, <1>a DEF Answered
  <1>9. Held' = Held
    BY <1>1 DEF Held
  <1>10. Ledger!Break(rs)
    BY <1>4, <1>5, <1>6, <1>7, <1>8, <1>9
       DEF Ledger!Break, Held, Out, Answered, Refused, Missing
  <1> QED
    BY <1>10 DEF Ledger!Next, Out

\* Every step of the client is one of the ledger, or leaves it alone.
LEMMA LedgerStep ==
  ASSUME TypeInv, PlaceInv, [Next]_vars
  PROVE  [Ledger!Next]_(Ledger!ledgerVars)
  <1> USE DEF requestVars
  <1>1. ASSUME UNCHANGED <<messageQueue, wire, promise, lost>>
        PROVE  [Ledger!Next]_(Ledger!ledgerVars)
    BY <1>1 DEF Ledger!ledgerVars
  <1>2. CASE Connect \/ Disconnect \/ Timer
    BY <1>1, <1>2 DEF Connect, Disconnect, Timer, TimerFires
  <1>3. ASSUME NEW k \in Sockets,
               \/ Opened(k) \/ PeerCloses(k) \/ AfterClose(k)
               \/ QueueTurns(k) \/ QueueEmpty(k)
        PROVE  [Ledger!Next]_(Ledger!ledgerVars)
    BY <1>1, <1>3 DEF Opened, Open, PeerCloses, AfterClose, CloseDone,
       QueueTurns, QueueEmpty
  <1>4. CASE UNCHANGED vars
    BY <1>1, <1>4 DEF vars
  <1> QED
    BY <1>2, <1>3, <1>4, CallLedger, QueueLedger, ThrowLedger, AnswerLedger,
       CloseLedger DEF Next, App, Happens, Process

\* The client implements RequestLedger: requests go forward only, and what
\* was refused, answered or lost is never sent.
THEOREM ImplementsLedger == Spec => RefinesLedger
  <1>1. ASSUME Init PROVE Ledger!Init
    <2>1. messageQueue = <<>> /\ messageQueue \in Seq(Requests)
      BY <1>1, EmptySeq DEF Init
    <2>2. Held = {}
      BY <2>1, QueueMembers DEF Held
    <2>3. Out = {} /\ Answered = {} /\ Refused = {} /\ Missing = {}
      BY <1>1 DEF Init, Out, Answered, Refused, Missing
    <2> QED
      BY <2>2, <2>3 DEF Ledger!Init, Held, Out, Answered, Refused, Missing
  <1>2. TypeInv /\ PlaceInv /\ [Next]_vars
          => [Ledger!Next]_(Ledger!ledgerVars)
    BY LedgerStep
  <1> QED
    BY <1>1, <1>2, InitType, InitPlace, NextType, NextPlace, PTL
       DEF Spec, RefinesLedger, Ledger!Safety
=============================================================================
