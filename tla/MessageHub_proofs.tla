----------------------------- MODULE MessageHub_proofs -----------------------------
(***************************************************************************)
(* Proofs about what the message hub sends without being asked: broadcasts *)
(* to the clients (ClientSessions) and the news about connections          *)
(* (ConnectionNews).  The two share no state.                              *)
(***************************************************************************)
EXTENDS ClientSessions, ConnectionNews, FiniteSetTheorems, TLAPS

(* The list of those to whom broadcasts are sent is never out of date.     *)
MethodsFresh == methods = {} \/ methods = {Registered}

(***************************************************************************)
(* Sets of clients, and the orders they may be in.                         *)
(***************************************************************************)
LEMMA Counted ==
  ASSUME NEW S \in SUBSET Clients
  PROVE  IsFiniteSet(S) /\ Cardinality(S) \in Nat
<1>1. IsFiniteSet(S)
  BY ClientsAssumption, FS_Subset
<1>. QED BY <1>1, FS_CardinalityType

LEMMA Smaller ==
  ASSUME NEW S \in SUBSET Clients, NEW T \in SUBSET S
  PROVE  Cardinality(T) <= Cardinality(S)
<1>1. IsFiniteSet(S)
  BY Counted
<1>. QED BY <1>1, FS_Subset

LEMMA OrdersAreSeqs ==
  ASSUME NEW S \in SUBSET Clients
  PROVE  SetToSeqs(S) \subseteq Seq(Clients)
<1>. SUFFICES ASSUME NEW f \in SetToSeqs(S) PROVE f \in Seq(Clients)
  OBVIOUS
<1>1. f \in [1 .. Cardinality(S) -> S]
  BY DEF SetToSeqs
<1>2. Cardinality(S) \in Nat
  BY Counted
<1>3. f \in [1 .. Cardinality(S) -> Clients]
  BY <1>1
<1>. QED BY <1>2, <1>3

(***************************************************************************)
(* Types.                                                                  *)
(***************************************************************************)
LEMMA InitTyped == ClientInit => ClientTypeOK
<1>. SUFFICES ASSUME ClientInit PROVE ClientTypeOK
  OBVIOUS
<1>1. todo \in [Messages -> Seq(Clients)]
  BY DEF ClientInit
<1>2. closers \in [Clients -> 0 .. MaxClosers]
  BY MaxClosersAssumption DEF ClientInit
<1>. QED BY <1>1, <1>2 DEF ClientInit, ClientTypeOK

LEMMA TimerTyped ==
  ASSUME NEW clients PROVE IdleTimer(clients) \in {"off", "running", "over", "down"}
BY DEF IdleTimer

(* What a broadcast does to the list, and to whom it is to be sent.        *)
LEMMA BeginTyped ==
  ASSUME ClientTypeOK, NEW b \in Messages, Begin(b)
  PROVE  /\ methods' \in SUBSET SUBSET Clients
         /\ todo' \in [Messages -> Seq(Clients)]
         /\ todo'[b] \in SetToSeqs(UNION methods')
<1>1. methods' \in SUBSET SUBSET Clients
  <2>1. {Registered} \in SUBSET SUBSET Clients
    BY DEF Registered
  <2>. QED BY <2>1 DEF Begin, ClientTypeOK
<1>2. UNION methods' \in SUBSET Clients
  BY <1>1
<1>3. PICK order \in SetToSeqs(UNION methods') : todo' = [todo EXCEPT ![b] = order]
  BY DEF Begin
<1>4. order \in Seq(Clients)
  BY <1>2, <1>3, OrdersAreSeqs
<1>. QED BY <1>1, <1>3, <1>4 DEF ClientTypeOK

LEMMA StepTyped == ClientTypeOK /\ [ClientNext]_clientVars => ClientTypeOK'
<1>. SUFFICES ASSUME ClientTypeOK, [ClientNext]_clientVars PROVE ClientTypeOK'
  OBVIOUS
<1>. USE MaxClosersAssumption
<1>1. ASSUME NEW c \in Clients, Connect(c) PROVE ClientTypeOK'
  <2>1. closers' \in [Clients -> 0 .. MaxClosers]
    BY <1>1 DEF Connect, ClientTypeOK
  <2>2. idle' \in {"off", "running", "over", "down"}
    BY <1>1, TimerTyped DEF Connect
  <2>. QED BY <1>1, <2>1, <2>2 DEF Connect, ClientTypeOK, hub
<1>2. ASSUME NEW c \in Clients, HangUp(c) \/ StopReading(c) \/ Authenticate(c) \/ Expire(c)
      PROVE  ClientTypeOK'
  BY <1>2 DEF HangUp, StopReading, Authenticate, Expire, ClientTypeOK, hub
<1>3. ASSUME NEW c \in Clients, Leave(c) PROVE ClientTypeOK'
  <2>1. idle' \in {"off", "running", "over", "down"}
    BY <1>3, TimerTyped DEF Leave
  <2>. QED BY <1>3, <2>1 DEF Leave, ClientTypeOK, hub
<1>4. CASE TimerOver \/ Shutdown
  BY <1>4 DEF TimerOver, Shutdown, ClientTypeOK, hub
<1>5. CASE DisconnectExpired
  <2>1. closers' \in [Clients -> 0 .. MaxClosers]
    BY <1>5 DEF DisconnectExpired, Room, ClientTypeOK
  <2>. QED BY <1>5, <2>1 DEF DisconnectExpired, ClientTypeOK, hub
<1>6. ASSUME NEW c \in Clients, CheckAuth(c) PROVE ClientTypeOK'
  <2>1. closers' \in [Clients -> 0 .. MaxClosers]
    BY <1>6 DEF CheckAuth, Room, ClientTypeOK
  <2>. QED BY <1>6, <2>1 DEF CheckAuth, ClientTypeOK, hub
<1>7. ASSUME NEW c \in Clients, Close(c) \/ TimeOut(c) PROVE ClientTypeOK'
  <2>1. closers' \in [Clients -> 0 .. MaxClosers]
    BY <1>7 DEF Close, TimeOut, ClientTypeOK
  <2>2. conn' \in [Clients -> {"new", "open", "closed", "gone"}]
    BY <1>7 DEF Close, TimeOut, Closed, ClientTypeOK
  <2>. QED BY <1>7, <2>1, <2>2 DEF Close, TimeOut, ClientTypeOK, hub
<1>8. ASSUME NEW b \in Messages, Enqueue(b) PROVE ClientTypeOK'
  BY <1>8 DEF Enqueue, ClientTypeOK, sessions
<1>9. ASSUME NEW b \in Messages, Begin(b) PROVE ClientTypeOK'
  <2>1. methods' \in SUBSET SUBSET Clients /\ todo' \in [Messages -> Seq(Clients)]
    BY <1>9, BeginTyped
  <2>. QED BY <1>9, <2>1 DEF Begin, ClientTypeOK, sessions
<1>10. ASSUME NEW b \in Messages, SendNext(b) PROVE ClientTypeOK'
  <2>1. todo[b] \in Seq(Clients) /\ todo[b] # << >>
    BY <1>10 DEF SendNext, ClientTypeOK
  <2>2. Tail(todo[b]) \in Seq(Clients)
    BY <2>1
  <2>3. todo' \in [Messages -> Seq(Clients)]
    BY <1>10, <2>2 DEF SendNext, ClientTypeOK
  <2>. QED BY <1>10, <2>3 DEF SendNext, ClientTypeOK, sessions
<1>11. CASE UNCHANGED clientVars
  BY <1>11 DEF clientVars, ClientTypeOK
<1>. QED BY <1>1, <1>2, <1>3, <1>4, <1>5, <1>6, <1>7, <1>8, <1>9, <1>10, <1>11 DEF ClientNext

(* A client never exceeds its types, and nor does the list of broadcasts.  *)
THEOREM ClientTypeCorrect == ClientSpec => []ClientTypeOK
<1>. QED BY InitTyped, StepTyped, PTL DEF ClientSpec

(***************************************************************************)
(* The limit of the number of clients.                                     *)
(***************************************************************************)
(* Only a client that connects, and need not leave, becomes welcome.       *)
LEMMA NoOneElseIsWelcome ==
  ASSUME ClientTypeOK, [ClientNext]_clientVars, \A c \in Clients : ~Connect(c)
  PROVE  Welcome' \subseteq Welcome
<1>. SUFFICES ASSUME NEW d \in Clients, conn'[d] = "open", closers'[d] = 0
              PROVE  conn[d] = "open" /\ closers[d] = 0
  BY DEF Welcome
<1>. USE DEF ClientTypeOK
<1>1. ASSUME NEW c \in Clients, HangUp(c) \/ Leave(c)
      PROVE  conn[d] = "open" /\ closers[d] = 0
  BY <1>1 DEF HangUp, Leave
<1>2. ASSUME NEW c \in Clients, StopReading(c) \/ Authenticate(c) \/ Expire(c)
      PROVE  conn[d] = "open" /\ closers[d] = 0
  BY <1>2 DEF StopReading, Authenticate, Expire
<1>3. ASSUME NEW c \in Clients, Close(c) \/ TimeOut(c)
      PROVE  conn[d] = "open" /\ closers[d] = 0
  <2>1. conn'[c] # "open" /\ (d # c => conn'[d] = conn[d] /\ closers'[d] = closers[d])
    BY <1>3 DEF Close, TimeOut, Closed
  <2>. QED BY <2>1
<1>4. CASE DisconnectExpired
  BY <1>4 DEF DisconnectExpired
<1>5. ASSUME NEW c \in Clients, CheckAuth(c)
      PROVE  conn[d] = "open" /\ closers[d] = 0
  BY <1>5 DEF CheckAuth
<1>6. CASE UNCHANGED <<conn, closers>>
  BY <1>6
<1>. QED BY <1>1, <1>2, <1>3, <1>4, <1>5, <1>6
         DEF ClientNext, TimerOver, Shutdown, Enqueue, Begin, SendNext, sessions, clientVars

LEMMA StepLimited == ClientTypeOK /\ ClientTypeOK' /\ LimitHolds /\ [ClientNext]_clientVars => LimitHolds'
<1>. SUFFICES ASSUME ClientTypeOK, ClientTypeOK', LimitHolds, [ClientNext]_clientVars PROVE LimitHolds'
  OBVIOUS
<1>. USE MaxClientsAssumption
<1>1. Welcome \in SUBSET Clients /\ Welcome' \in SUBSET Clients /\ Registered' \in SUBSET Clients
  BY DEF Welcome, Registered
<1>2. /\ Cardinality(Welcome) \in Nat /\ Cardinality(Welcome') \in Nat
      /\ Cardinality(Registered') \in Nat
  BY <1>1, Counted
<1>3. ASSUME Welcome' \subseteq Welcome PROVE LimitHolds'
  <2>1. Cardinality(Welcome') <= Cardinality(Welcome)
    BY <1>1, <1>3, Smaller
  <2>. QED BY <1>2, <2>1 DEF LimitHolds
<1>4. ASSUME NEW c \in Clients, Connect(c) PROVE LimitHolds'
  <2>1. CASE Cardinality(Registered') > MaxClients
    <3>1. closers'[c] = 1 /\ \A d \in Clients \ {c} : closers'[d] = closers[d] /\ conn'[d] = conn[d]
      BY <1>4, <2>1 DEF Connect, ClientTypeOK
    <3>2. Welcome' \subseteq Welcome
      BY <3>1 DEF Welcome
    <3>. QED BY <3>2, <1>3
  <2>2. CASE ~(Cardinality(Registered') > MaxClients)
    <3>1. Welcome' \subseteq Registered'
      BY DEF Welcome, Registered
    <3>2. Cardinality(Welcome') <= Cardinality(Registered')
      BY <1>1, <3>1, Smaller
    <3>. QED BY <1>2, <2>2, <3>2 DEF LimitHolds
  <2>. QED BY <2>1, <2>2
<1>5. CASE \A c \in Clients : ~Connect(c)
  BY <1>5, <1>3, NoOneElseIsWelcome
<1>. QED BY <1>4, <1>5

LEMMA InitLimited == ClientInit => LimitHolds
<1>. SUFFICES ASSUME ClientInit PROVE LimitHolds
  OBVIOUS
<1>1. Welcome = {}
  BY DEF ClientInit, Welcome
<1>. QED BY <1>1, FS_EmptySet, MaxClientsAssumption DEF LimitHolds

(* No more clients than the limit stay, whoever connects or leaves when.   *)
THEOREM LimitIsKept == ClientSpec => []LimitHolds
<1>1. ClientInit => ClientTypeOK /\ LimitHolds
  BY InitTyped, InitLimited
<1>2. ClientTypeOK /\ LimitHolds /\ [ClientNext]_clientVars => ClientTypeOK' /\ LimitHolds'
  BY StepTyped, StepLimited
<1>. QED BY <1>1, <1>2, PTL DEF ClientSpec

(***************************************************************************)
(* The timer of the shutdown, and the list of broadcasts.                  *)
(***************************************************************************)
(* The registry changes only when a client connects or leaves.             *)
LEMMA RegistryStays ==
  ASSUME ClientTypeOK, [ClientNext]_clientVars, \A c \in Clients : ~Connect(c) /\ ~Leave(c)
  PROVE  Registered' = Registered
<1>. SUFFICES ASSUME NEW d \in Clients
              PROVE  conn'[d] \in {"open", "closed"} <=> conn[d] \in {"open", "closed"}
  BY DEF Registered
<1>. USE DEF ClientTypeOK
<1>1. ASSUME NEW c \in Clients, HangUp(c)
      PROVE  conn'[d] \in {"open", "closed"} <=> conn[d] \in {"open", "closed"}
  BY <1>1 DEF HangUp
<1>2. ASSUME NEW c \in Clients, Close(c) \/ TimeOut(c)
      PROVE  conn'[d] \in {"open", "closed"} <=> conn[d] \in {"open", "closed"}
  BY <1>2 DEF Close, TimeOut, Closed
<1>3. CASE UNCHANGED conn
  BY <1>3
<1>. QED BY <1>1, <1>2, <1>3
         DEF ClientNext, StopReading, Authenticate, Expire, TimerOver, Shutdown, DisconnectExpired,
             CheckAuth, Enqueue, Begin, SendNext, sessions, clientVars

LEMMA StepTimed == ClientTypeOK /\ IdleIsEmpty /\ [ClientNext]_clientVars => IdleIsEmpty'
<1>. SUFFICES ASSUME ClientTypeOK, IdleIsEmpty, [ClientNext]_clientVars PROVE IdleIsEmpty'
  OBVIOUS
<1>1. ASSUME NEW c \in Clients, Up, Connect(c) \/ Leave(c) PROVE IdleIsEmpty'
  <2>1. PICK clients : clients = Registered'
    OBVIOUS
  <2>2. idle' = IdleTimer(clients) /\ idle # "down"
    BY <1>1, <2>1 DEF Connect, Leave, Up
  <2>3. idle' = "running" => clients = {}
    BY <2>2 DEF IdleTimer
  <2>4. idle' = "off" => clients # {}
    BY <2>2 DEF IdleTimer
  <2>. QED BY <2>1, <2>3, <2>4 DEF IdleIsEmpty
<1>2. CASE \A c \in Clients : ~Connect(c) /\ ~Leave(c)
  <2>1. Registered' = Registered
    BY <1>2, RegistryStays
  <2>2. idle' = idle \/ idle' = "over" \/ idle' = "down"
    BY <1>2 DEF ClientNext, HangUp, StopReading, Authenticate, Expire, TimerOver, Shutdown,
                DisconnectExpired, CheckAuth, Close, TimeOut, Enqueue, Begin, SendNext,
                sessions, clientVars
  <2>. QED BY <2>1, <2>2 DEF IdleIsEmpty
<1>3. CASE UNCHANGED clientVars
  BY <1>3 DEF clientVars, IdleIsEmpty, Registered
<1>4. CASE ClientNext
  BY <1>4, <1>1, <1>2 DEF ClientNext
<1>. QED BY <1>3, <1>4

(* The server is not shut down for being idle while a client is registered *)
(* unless the client came after the timer was over.                        *)
THEOREM IdleServerIsEmpty == ClientSpec => []IdleIsEmpty
<1>1. ClientInit => ClientTypeOK /\ IdleIsEmpty
  <2>1. ClientInit => IdleIsEmpty
    BY DEF ClientInit, IdleIsEmpty, Registered
  <2>. QED BY <2>1, InitTyped
<1>2. ClientTypeOK /\ IdleIsEmpty /\ [ClientNext]_clientVars => ClientTypeOK' /\ IdleIsEmpty'
  BY StepTyped, StepTimed
<1>. QED BY <1>1, <1>2, PTL DEF ClientSpec

LEMMA StepFresh == ClientTypeOK /\ MethodsFresh /\ [ClientNext]_clientVars => MethodsFresh'
<1>. SUFFICES ASSUME ClientTypeOK, MethodsFresh, [ClientNext]_clientVars PROVE MethodsFresh'
  OBVIOUS
<1>1. ASSUME NEW c \in Clients, Connect(c) \/ Leave(c) PROVE MethodsFresh'
  BY <1>1 DEF Connect, Leave, MethodsFresh
<1>2. CASE \A c \in Clients : ~Connect(c) /\ ~Leave(c)
  <2>1. Registered' = Registered
    BY <1>2, RegistryStays
  <2>2. methods' = methods \/ methods' = {Registered}
    BY <1>2 DEF ClientNext, HangUp, StopReading, Authenticate, Expire, TimerOver, Shutdown,
                DisconnectExpired, CheckAuth, Close, TimeOut, Enqueue, Begin, SendNext, clientVars
  <2>. QED BY <2>1, <2>2 DEF MethodsFresh
<1>. QED BY <1>1, <1>2

LEMMA BroadcastStep ==
  ASSUME ClientTypeOK, MethodsFresh, [ClientNext]_clientVars
  PROVE  \A m \in queued \ queued' : todo'[m] \in SetToSeqs(Registered)
<1>. SUFFICES ASSUME NEW b \in Messages, b \in queued, b \notin queued'
              PROVE  todo'[b] \in SetToSeqs(Registered)
  BY DEF ClientTypeOK
<1>1. Begin(b)
  BY DEF ClientNext, Connect, HangUp, StopReading, Authenticate, Leave, TimerOver, Shutdown, Expire,
         DisconnectExpired, CheckAuth, Close, TimeOut, Enqueue, Begin, SendNext, hub, clientVars
<1>2. todo'[b] \in SetToSeqs(UNION methods')
  BY <1>1, BeginTyped
<1>3. UNION methods' = Registered
  BY <1>1 DEF Begin, MethodsFresh
<1>. QED BY <1>2, <1>3

(* A broadcast is sent to all clients that are registered when it begins.  *)
THEOREM BroadcastsGoToAll == ClientSpec => BroadcastsCover
<1>1. ClientInit => ClientTypeOK /\ MethodsFresh
  <2>1. ClientInit => MethodsFresh
    BY DEF ClientInit, MethodsFresh
  <2>. QED BY <2>1, InitTyped
<1>2. ClientTypeOK /\ MethodsFresh /\ [ClientNext]_clientVars => ClientTypeOK' /\ MethodsFresh'
  BY StepTyped, StepFresh
<1>3. ClientTypeOK /\ MethodsFresh /\ [ClientNext]_clientVars
        => [\A m \in queued \ queued' : todo'[m] \in SetToSeqs(Registered)]_clientVars
  BY BroadcastStep
<1>. QED BY <1>1, <1>2, <1>3, PTL DEF ClientSpec, BroadcastsCover

-------------------------------------------------------------------------------
(***************************************************************************)
(* ConnectionNews, for any number of connections.  The inductive invariant *)
(* follows the state of a connection that the loop of the rate limiter has *)
(* "seen": that before the first of its requests.                          *)
(***************************************************************************)
Requested(c) == \E i \in 1 .. Len(requests) : requests[i].id = c

IsFirst(i) == \A j \in 1 .. Len(requests) : j < i => requests[j].id # requests[i].id
IsLast(i) == \A j \in 1 .. Len(requests) : i < j => requests[j].id # requests[i].id
Consecutive(i, j) ==
  /\ i < j /\ requests[i].id = requests[j].id
  /\ \A k \in 1 .. Len(requests) : i < k /\ k < j => requests[k].id # requests[i].id

Seen(c, s) ==
  \/ ~Requested(c) /\ s = connState[c]
  \/ \E i \in 1 .. Len(requests) : requests[i].id = c /\ IsFirst(i) /\ s = requests[i].old

Sending(c) == dispatcher = c \/ \E i \in 1 .. Len(blocked) : blocked[i].id = c

(* The requests of a connection tell a gapless story up to its state.      *)
StoryHasNoGaps ==
  \A i, j \in 1 .. Len(requests) :
    Consecutive(i, j) => requests[j].old = requests[i].new
StoryIsCurrent ==
  \A c \in Connections : Requested(c) =>
    \E i \in 1 .. Len(requests) :
      requests[i].id = c /\ IsLast(i) /\ requests[i].new = connState[c]

Tells(c, t) ==
  \E i \in 1 .. Len(requests) : requests[i].id = c /\ requests[i].new = t

(* An entry has the last stable state that the loop has seen.              *)
EntryIsRight(c) ==
  \A s \in Stable : Known(c) /\ Seen(c, s) => data[c].last = s

(* What the clients take a connection for, if that is a stable state, is   *)
(* the last stable state in memory, or will be seen, or will be told anew. *)
NewsIsRight(c) ==
  \A s \in Stable :
    (/\ IF Known(c) THEN data[c].last = s ELSE Seen(c, s)
     /\ told[c] \in Stable \ {s})
      => Sending(c) \/ Tells(c, told[c])

(* Without an entry, clients know the state or something is under way.     *)
UnknownIsTold(c) ==
  ~Known(c) /\ told[c] # connState[c] => Sending(c) \/ Requested(c)

Right(c) == EntryIsRight(c) /\ NewsIsRight(c) /\ UnknownIsTold(c)

Story == StoryHasNoGaps /\ StoryIsCurrent

NewsInv == NewsTypeOK /\ Story /\ \A c \in Connections : Right(c)

(***************************************************************************)
(* Types.                                                                  *)
(***************************************************************************)
LEMMA SendTyped ==
  ASSUME NewsTypeOK, NEW c \in Connections, NEW loop \in BOOLEAN, Send(c, loop)
  PROVE  /\ dispatcher' \in Connections \cup {Idle, Busy}
         /\ blocked' \in Seq([id : Connections, loop : BOOLEAN])
<1> DEFINE Sender == [id : Connections, loop : BOOLEAN]
           sender == [id |-> c, loop |-> loop]
<1>1. sender \in Sender /\ blocked \in Seq(Sender)
  BY DEF NewsTypeOK
<1>2. \/ dispatcher' = c /\ blocked' = blocked
      \/ blocked' = Append(blocked, sender) /\ dispatcher' = dispatcher
  BY DEF Send
<1>3. dispatcher' \in Connections \cup {Idle, Busy}
  BY <1>2 DEF NewsTypeOK
<1> HIDE DEF Sender, sender
<1>4. blocked' \in Seq(Sender)
  BY <1>1, <1>2
<1>5. QED
  BY <1>3, <1>4 DEF Sender

(* An entry is one that was made, and not the one that says "none".        *)
LEMMA KnownEntry ==
  ASSUME NewsTypeOK, NEW c \in Connections
  PROVE  /\ Known(c) <=> data[c] \in Entry
         /\ Known(c) <=> data[c].last \in Stable
         /\ data[c].waiting => Known(c)
         /\ data[c].fresh => Known(c)
<1>1. data[c] \in Entry \/ data[c] = NoEntry
  BY DEF NewsTypeOK
<1>2. /\ NoEntry.last \notin Stable
      /\ NoEntry.waiting = FALSE /\ NoEntry.fresh = FALSE
  BY DEF NoEntry, Stable
<1>3. \A e \in Entry : e.last \in Stable
  BY DEF Entry
<1>4. CASE data[c] = NoEntry
  BY <1>2, <1>3, <1>4 DEF Known
<1>5. CASE data[c] \in Entry
  BY <1>2, <1>3, <1>5 DEF Known
<1>6. QED
  BY <1>1, <1>4, <1>5

(* The head of the queue.                                                  *)
LEMMA TakenTyped ==
  ASSUME NewsTypeOK, NEW r, requests # << >>, r = Head(requests)
  PROVE  /\ r \in Request /\ r = requests[1] /\ Len(requests) \in Nat \ {0}
         /\ Tail(requests) \in Seq(Request)
         /\ Len(Tail(requests)) = Len(requests) - 1
         /\ \A i \in 1 .. Len(requests) - 1 : Tail(requests)[i] = requests[i + 1]
<1>1. requests \in Seq(Request)
  BY DEF NewsTypeOK
<1> HIDE DEF Request
<1>2. QED
  BY <1>1

LEMMA TypeKept == NewsTypeOK /\ [NewsNext]_newsVars => NewsTypeOK'
<1> SUFFICES ASSUME NewsTypeOK, [NewsNext]_newsVars
             PROVE  NewsTypeOK'
  OBVIOUS
<1>1. ASSUME NEW c \in Connections, NEW state \in ConnectionState, Change(c, state)
      PROVE  NewsTypeOK'
  <2>1. [id |-> c, old |-> connState[c], new |-> state] \in Request
    BY DEF NewsTypeOK, Request
  <2>2. requests' \in Seq(Request)
    BY <1>1, <2>1 DEF NewsTypeOK, Change
  <2>3. connState' \in [Connections -> ConnectionState]
    BY <1>1 DEF NewsTypeOK, Change
  <2>4. QED
    BY <1>1, <2>2, <2>3 DEF NewsTypeOK, Change
<1>2. ASSUME NEW r \in Request, Takes(r)
      PROVE  /\ r.id \in Connections /\ requests' \in Seq(Request)
             /\ connState' = connState /\ told' = told /\ orphans' = orphans
  BY <1>2, TakenTyped DEF Takes, Request
<1>3. ASSUME NEW r \in Request, HandleOddTransition(r)
      PROVE  NewsTypeOK'
  <2>1. Takes(r) /\ Send(r.id, TRUE) /\ data' = data
    BY <1>3 DEF HandleOddTransition
  <2>2. QED
    BY <1>2, <2>1, SendTyped DEF NewsTypeOK
<1>4. ASSUME NEW r \in Request, HandleTransition(r)
      PROVE  NewsTypeOK'
  <2>1. [last |-> r.old, fresh |-> TRUE, waiting |-> TRUE] \in Entry
    BY <1>4 DEF HandleTransition, Entry
  <2>2. Takes(r) /\ UNCHANGED <<blocked, dispatcher>>
    BY <1>4 DEF HandleTransition
  <2>3. data' \in [Connections -> Entry \cup {NoEntry}]
    BY <1>4, <2>1 DEF HandleTransition, NewsTypeOK
  <2>4. QED
    BY <1>2, <2>2, <2>3 DEF NewsTypeOK
<1>5. ASSUME NEW r \in Request, HandleReturn(r)
      PROVE  NewsTypeOK'
  <2>1. Takes(r) /\ UNCHANGED <<blocked, dispatcher>>
    BY <1>5 DEF HandleReturn
  <2>2. data[r.id] \in Entry
    BY <1>2, <1>5, <2>1, KnownEntry DEF HandleReturn
  <2>3. [data[r.id] EXCEPT !.waiting = FALSE] \in Entry
    BY <2>2 DEF Entry
  <2>4. data' = [data EXCEPT ![r.id] = [data[r.id] EXCEPT !.waiting = FALSE]]
    BY <1>5 DEF HandleReturn
  <2>5. data' \in [Connections -> Entry \cup {NoEntry}]
    BY <2>3, <2>4 DEF NewsTypeOK
  <2>6. QED
    BY <1>2, <2>1, <2>5 DEF NewsTypeOK
<1>6. ASSUME NEW r \in Request, HandleStable(r)
      PROVE  NewsTypeOK'
  <2>1. [last |-> r.new, fresh |-> TRUE, waiting |-> FALSE] \in Entry
    BY <1>6 DEF HandleStable, Entry
  <2>2. Takes(r) /\ Send(r.id, TRUE)
    BY <1>6 DEF HandleStable
  <2>3. data' \in [Connections -> Entry \cup {NoEntry}]
    BY <1>6, <2>1 DEF HandleStable, NewsTypeOK
  <2>4. QED
    BY <1>2, <2>2, <2>3, SendTyped DEF NewsTypeOK
<1>7. ASSUME NEW c \in Connections, Age(c)
      PROVE  NewsTypeOK'
  <2>1. data[c] \in Entry
    BY <1>7, KnownEntry DEF Age
  <2>2. [data[c] EXCEPT !.fresh = FALSE] \in Entry
    BY <2>1 DEF Entry
  <2>3. data' = [data EXCEPT ![c] = [data[c] EXCEPT !.fresh = FALSE]]
    BY <1>7 DEF Age
  <2>4. data' \in [Connections -> Entry \cup {NoEntry}]
    BY <2>2, <2>3 DEF NewsTypeOK
  <2>5. QED
    BY <1>7, <2>4 DEF NewsTypeOK, Age
<1>8. ASSUME NEW c \in Connections, SettleTimeOut(c)
      PROVE  NewsTypeOK'
  <2>1. data[c] \in Entry
    BY <1>8, KnownEntry DEF SettleTimeOut
  <2>2. [data[c] EXCEPT !.waiting = FALSE] \in Entry
    BY <2>1 DEF Entry
  <2>3. data' = [data EXCEPT ![c] = [data[c] EXCEPT !.waiting = FALSE]]
    BY <1>8 DEF SettleTimeOut
  <2>4. data' \in [Connections -> Entry \cup {NoEntry}]
    BY <2>2, <2>3 DEF NewsTypeOK
  <2>5. Send(c, FALSE) /\ UNCHANGED <<connState, told, requests, orphans>>
    BY <1>8 DEF SettleTimeOut
  <2>6. QED
    BY <2>4, <2>5, SendTyped DEF NewsTypeOK
<1>9. ASSUME NEW c \in Connections, OrphanTimeOut(c)
      PROVE  NewsTypeOK'
  <2>1. Send(c, FALSE) /\ UNCHANGED <<connState, told, requests, data>>
    BY <1>9 DEF OrphanTimeOut
  <2>2. orphans' \in [Connections -> Nat]
    BY <1>9 DEF OrphanTimeOut, NewsTypeOK
  <2>3. QED
    BY <2>1, <2>2, SendTyped DEF NewsTypeOK
<1>10. ASSUME NEW c \in Connections, Dispatch(c)
       PROVE  NewsTypeOK'
  <2>1. orphans' \in [Connections -> Nat]
    BY <1>10 DEF Dispatch, NewsTypeOK
  <2>2. told' \in [Connections -> ConnectionState]
    BY <1>10 DEF Dispatch, NewsTypeOK
  <2>3. data' \in [Connections -> Entry \cup {NoEntry}]
    BY <1>10 DEF Dispatch, NewsTypeOK
  <2>4. QED
    BY <1>10, <2>1, <2>2, <2>3 DEF Dispatch, NewsTypeOK
<1>11. ASSUME Accept
       PROVE  NewsTypeOK'
  <2> DEFINE Sender == [id : Connections, loop : BOOLEAN]
  <2>1. blocked \in Seq(Sender) /\ (\A s \in Sender : s.id \in Connections)
    BY DEF NewsTypeOK
  <2>2. /\ UNCHANGED <<connState, told, requests, data, orphans>>
        /\ \/ dispatcher' = Idle /\ blocked' = blocked
           \/ /\ blocked # << >>
              /\ dispatcher' = Head(blocked).id /\ blocked' = Tail(blocked)
    BY <1>11 DEF Accept
  <2> HIDE DEF Sender
  <2>3. blocked # << >> => Head(blocked) \in Sender /\ Tail(blocked) \in Seq(Sender)
    BY <2>1
  <2>4. blocked' \in Seq(Sender) /\ dispatcher' \in Connections \cup {Idle, Busy}
    BY <2>1, <2>2, <2>3
  <2>5. QED
    BY <2>2, <2>4 DEF NewsTypeOK, Sender
<1>12. ASSUME UNCHANGED newsVars
       PROVE  NewsTypeOK'
  BY <1>12 DEF newsVars, NewsTypeOK
<1>13. QED
  BY <1>1, <1>3, <1>4, <1>5, <1>6, <1>7, <1>8, <1>9, <1>10, <1>11, <1>12
     DEF NewsNext, HandleRequest

(***************************************************************************)
(* What requests do to the story.                                          *)
(***************************************************************************)
LEMMA StoryUnchanged ==
  ASSUME UNCHANGED <<requests, connState>>
  PROVE  /\ Story => Story'
         /\ \A c \in Connections : Requested(c) => Requested(c)'
         /\ \A c \in Connections : \A s : Seen(c, s)' => Seen(c, s)
         /\ \A c \in Connections : \A t : Tells(c, t) => Tells(c, t)'
BY DEF Story, StoryHasNoGaps, StoryIsCurrent, Consecutive, IsFirst, IsLast,
       Requested, Seen, Tells

(* A request is appended when the state changes.                           *)
LEMMA StoryGrows ==
  ASSUME NewsTypeOK, Story, NEW d \in Connections, NEW state \in ConnectionState,
         Change(d, state)
  PROVE  /\ Story' /\ Requested(d)'
         /\ \A c \in Connections : Requested(c) => Requested(c)'
         /\ \A c \in Connections : \A s : Seen(c, s)' => Seen(c, s)
         /\ \A c \in Connections : \A t : Tells(c, t) => Tells(c, t)'
<1> DEFINE r == [id |-> d, old |-> connState[d], new |-> state]
           n == Len(requests)
<1>1. r \in Request /\ r.id = d /\ r.old = connState[d] /\ r.new = state
  BY DEF NewsTypeOK, Request
<1>2. requests \in Seq(Request) /\ requests' = Append(requests, r)
  BY DEF NewsTypeOK, Change
<1>3. connState' = [connState EXCEPT ![d] = state] /\ connState \in [Connections -> ConnectionState]
  BY DEF NewsTypeOK, Change
<1> HIDE DEF r
<1>4. /\ n \in Nat /\ Len(requests') = n + 1
      /\ requests'[n + 1] = r
      /\ \A i \in 1 .. n : requests'[i] = requests[i]
  <2> HIDE DEF Request
  <2>1. QED
    BY <1>1, <1>2
<1> HIDE DEF n
<1>5. 1 .. Len(requests') = (1 .. n) \cup {n + 1} /\ \A i \in 1 .. n : i < n + 1 /\ ~(n + 1 < i)
  BY <1>4
<1>6. Len(requests) = n
  BY DEF n
<1>7. Requested(d)' /\ \A c \in Connections : Requested(c) => Requested(c)'
  BY <1>1, <1>4, <1>5, <1>6 DEF Requested
<1>8. \A c \in Connections : \A t : Tells(c, t) => Tells(c, t)'
  BY <1>4, <1>5, <1>6 DEF Tells
<1>9. ASSUME NEW c \in Connections, NEW s, Seen(c, s)'
      PROVE  Seen(c, s)
  <2>1. CASE ~Requested(c)'
    <3>1. ~Requested(c) /\ c # d
      BY <1>7, <2>1
    <3>2. s = connState'[c]
      BY <1>9, <2>1 DEF Seen, Requested
    <3>3. QED
      BY <1>3, <3>1, <3>2 DEF Seen
  <2>2. CASE Requested(c)'
    <3>1. PICK i \in 1 .. Len(requests') :
            requests'[i].id = c /\ IsFirst(i)' /\ s = requests'[i].old
      BY <1>9, <2>2 DEF Seen
    <3>2. CASE i = n + 1
      <4>1. c = d /\ s = connState[c]
        BY <1>1, <1>4, <3>1, <3>2
      <4>2. ~Requested(c)
        BY <1>4, <1>5, <1>6, <3>1, <3>2 DEF Requested, IsFirst
      <4>3. QED
        BY <4>1, <4>2 DEF Seen
    <3>3. CASE i \in 1 .. n
      <4>1. IsFirst(i)
        BY <1>4, <1>5, <1>6, <3>1, <3>3 DEF IsFirst
      <4>2. QED
        BY <1>4, <1>6, <3>1, <3>3, <4>1 DEF Seen
    <3>4. QED
      BY <1>5, <3>2, <3>3
  <2>3. QED
    BY <2>1, <2>2
<1>10. ASSUME NEW i \in 1 .. n, requests[i].id = d, IsLast(i)
       PROVE  requests[i].new = connState[d]
  <2>1. Requested(d)
    BY <1>6, <1>10 DEF Requested
  <2>2. PICK w \in 1 .. n : requests[w].id = d /\ IsLast(w) /\ requests[w].new = connState[d]
    BY <1>6, <2>1 DEF Story, StoryIsCurrent
  <2>3. i = w
    <3>1. ~(i < w) /\ ~(w < i)
      BY <1>6, <1>10, <2>2 DEF IsLast
    <3>2. QED
      BY <1>4, <3>1
  <2>4. QED
    BY <2>2, <2>3
<1>11. StoryHasNoGaps'
  <2> SUFFICES ASSUME NEW i \in 1 .. Len(requests'), NEW j \in 1 .. Len(requests'),
                      Consecutive(i, j)'
               PROVE  requests'[j].old = requests'[i].new
    BY DEF StoryHasNoGaps
  <2>1. /\ i < j /\ requests'[i].id = requests'[j].id
        /\ \A k \in 1 .. Len(requests') : i < k /\ k < j => requests'[k].id # requests'[i].id
    BY DEF Consecutive
  <2>2. i \in 1 .. n
    BY <1>4, <2>1
  <2>3. CASE j = n + 1
    <3>1. requests[i].id = d
      BY <1>1, <1>4, <2>1, <2>2, <2>3
    <3>2. IsLast(i)
      BY <1>4, <1>5, <1>6, <2>1, <2>2, <2>3 DEF IsLast
    <3>3. QED
      BY <1>1, <1>4, <1>10, <2>2, <2>3, <3>1, <3>2
  <2>4. CASE j \in 1 .. n
    <3>1. Consecutive(i, j)
      BY <1>4, <1>5, <1>6, <2>1, <2>2, <2>4 DEF Consecutive
    <3>2. QED
      BY <1>4, <1>6, <2>2, <2>4, <3>1 DEF Story, StoryHasNoGaps
  <2>5. QED
    BY <1>5, <2>3, <2>4
<1>12. StoryIsCurrent'
  <2> SUFFICES ASSUME NEW c \in Connections, Requested(c)'
               PROVE  \E i \in 1 .. Len(requests') :
                        requests'[i].id = c /\ IsLast(i)' /\ requests'[i].new = connState'[c]
    BY DEF StoryIsCurrent
  <2>1. CASE c = d
    <3>1. PICK last : last = n + 1
      OBVIOUS
    <3>2. IsLast(last)'
      BY <1>4, <1>5, <3>1 DEF IsLast
    <3>3. QED
      BY <1>1, <1>3, <1>4, <1>5, <2>1, <3>1, <3>2
  <2>2. CASE c # d
    <3>1. Requested(c)
      BY <1>1, <1>4, <1>5, <1>6, <2>2 DEF Requested
    <3>2. PICK w \in 1 .. n : requests[w].id = c /\ IsLast(w) /\ requests[w].new = connState[c]
      BY <1>6, <3>1 DEF Story, StoryIsCurrent
    <3>3. IsLast(w)'
      BY <1>1, <1>4, <1>5, <1>6, <2>2, <3>2 DEF IsLast
    <3>4. QED
      BY <1>3, <1>4, <1>5, <2>2, <3>2, <3>3
  <2>3. QED
    BY <2>1, <2>2
<1>13. QED
  BY <1>7, <1>8, <1>9, <1>11, <1>12 DEF Story

(* The loop takes the first request.                                       *)
LEMMA StoryGoesOn ==
  ASSUME NewsTypeOK, Story, NEW r \in Request, Takes(r)
  PROVE  /\ Story' /\ r.id \in Connections
         /\ Seen(r.id, r.old) /\ \A s : Seen(r.id, s)' => s = r.new
         /\ \A c \in Connections : \A t :
              Tells(c, t) => Tells(c, t)' \/ (c = r.id /\ t = r.new)
         /\ \A c \in Connections \ {r.id} :
              /\ Requested(c) => Requested(c)'
              /\ \A s : Seen(c, s)' => Seen(c, s)
<1> DEFINE n == Len(requests)
<1>1. r.id \in Connections
  BY DEF Request
<1>2. requests # << >> /\ r = Head(requests) /\ requests' = Tail(requests) /\ connState' = connState
  BY DEF Takes
<1>3. /\ n \in Nat \ {0} /\ r = requests[1]
      /\ Len(requests') = n - 1
      /\ \A i \in 1 .. n - 1 : requests'[i] = requests[i + 1]
  BY <1>2, TakenTyped
<1>4. Len(requests) = n
  OBVIOUS
<1> HIDE DEF n
<1>5. \A j \in 1 .. n : j = 1 \/ \E i \in 1 .. n - 1 : j = i + 1
  <2>1. ASSUME NEW j \in 1 .. n, j # 1
        PROVE  j - 1 \in 1 .. n - 1 /\ j = (j - 1) + 1
    BY <1>3, <2>1
  <2>2. QED
    BY <2>1
<1>6. \A i \in 1 .. n - 1 : i + 1 \in 1 .. n /\ 1 < i + 1
  BY <1>3
<1>7. 1 \in 1 .. n
  BY <1>3
<1>8. Seen(r.id, r.old)
  <2>1. IsFirst(1)
    BY <1>3, <1>4 DEF IsFirst
  <2>2. QED
    BY <1>3, <1>4, <1>7, <2>1 DEF Seen
<1>9. \A c \in Connections : \A t :
        Tells(c, t) => Tells(c, t)' \/ (c = r.id /\ t = r.new)
  <2> SUFFICES ASSUME NEW c \in Connections, NEW t, Tells(c, t), ~(c = r.id /\ t = r.new)
               PROVE  Tells(c, t)'
    OBVIOUS
  <2>1. PICK j \in 1 .. n : requests[j].id = c /\ requests[j].new = t
    BY <1>4 DEF Tells
  <2>2. PICK i \in 1 .. n - 1 : j = i + 1
    BY <1>3, <1>5, <2>1
  <2>3. QED
    BY <1>3, <2>1, <2>2 DEF Tells
<1>10. \A c \in Connections \ {r.id} : Requested(c) => Requested(c)'
  <2> SUFFICES ASSUME NEW c \in Connections \ {r.id}, Requested(c)
               PROVE  Requested(c)'
    OBVIOUS
  <2>1. PICK j \in 1 .. n : requests[j].id = c
    BY <1>4 DEF Requested
  <2>2. PICK i \in 1 .. n - 1 : j = i + 1
    BY <1>3, <1>5, <2>1
  <2>3. QED
    BY <1>3, <2>1, <2>2 DEF Requested
<1>11. ASSUME NEW c \in Connections \ {r.id}, NEW s, Seen(c, s)'
       PROVE  Seen(c, s)
  <2>1. CASE ~Requested(c)'
    <3>1. s = connState'[c]
      BY <1>11, <2>1 DEF Seen, Requested
    <3>2. ~Requested(c)
      BY <1>10, <2>1
    <3>3. QED
      BY <1>2, <3>1, <3>2 DEF Seen
  <2>2. CASE Requested(c)'
    <3>1. PICK i \in 1 .. n - 1 :
            requests'[i].id = c /\ IsFirst(i)' /\ s = requests'[i].old
      BY <1>3, <1>11, <2>2 DEF Seen
    <3>2. IsFirst(i + 1)
      <4>1. ASSUME NEW j \in 1 .. n, j < i + 1
            PROVE  requests[j].id # c
        <5>1. CASE j = 1
          BY <1>3, <5>1
        <5>2. ASSUME NEW k \in 1 .. n - 1, j = k + 1
              PROVE  requests[j].id # c
          <6>1. k < i
            BY <1>3, <4>1, <5>2
          <6>2. QED
            BY <1>3, <3>1, <5>2, <6>1 DEF IsFirst
        <5>3. QED
          BY <1>5, <5>1, <5>2
      <4>2. QED
        BY <1>3, <1>4, <3>1, <4>1 DEF IsFirst
    <3>3. QED
      BY <1>3, <1>4, <1>6, <3>1, <3>2 DEF Seen
  <2>3. QED
    BY <2>1, <2>2
<1>12. ASSUME NEW s, Seen(r.id, s)'
       PROVE  s = r.new
  <2>1. CASE ~Requested(r.id)'
    <3>1. s = connState[r.id]
      BY <1>2, <1>12, <2>1 DEF Seen, Requested
    <3>2. PICK w \in 1 .. n :
            requests[w].id = r.id /\ IsLast(w) /\ requests[w].new = connState[r.id]
      BY <1>1, <1>3, <1>4, <1>7 DEF Story, StoryIsCurrent, Requested
    <3>3. w = 1
      <4>1. ASSUME NEW i \in 1 .. n - 1, w = i + 1
            PROVE  FALSE
        BY <1>3, <2>1, <3>2, <4>1 DEF Requested
      <4>2. QED
        BY <1>5, <4>1
    <3>4. QED
      BY <1>3, <3>1, <3>2, <3>3
  <2>2. CASE Requested(r.id)'
    <3>1. PICK i \in 1 .. n - 1 :
            requests'[i].id = r.id /\ IsFirst(i)' /\ s = requests'[i].old
      BY <1>3, <1>12, <2>2 DEF Seen
    <3>2. Consecutive(1, i + 1)
      <4>1. ASSUME NEW k \in 1 .. n, 1 < k, k < i + 1
            PROVE  requests[k].id # r.id
        <5>1. PICK h \in 1 .. n - 1 : k = h + 1
          BY <1>5, <4>1
        <5>2. h < i
          BY <1>3, <4>1, <5>1
        <5>3. QED
          BY <1>3, <3>1, <5>1, <5>2 DEF IsFirst
      <4>2. QED
        BY <1>3, <1>4, <1>6, <3>1, <4>1 DEF Consecutive
    <3>3. QED
      BY <1>3, <1>4, <1>6, <1>7, <3>1, <3>2 DEF Story, StoryHasNoGaps
  <2>3. QED
    BY <2>1, <2>2
<1>13. StoryHasNoGaps'
  <2> SUFFICES ASSUME NEW i \in 1 .. n - 1, NEW j \in 1 .. n - 1, Consecutive(i, j)'
               PROVE  requests'[j].old = requests'[i].new
    BY <1>3 DEF StoryHasNoGaps
  <2>1. /\ i < j /\ requests'[i].id = requests'[j].id
        /\ \A k \in 1 .. n - 1 : i < k /\ k < j => requests'[k].id # requests'[i].id
    BY <1>3 DEF Consecutive
  <2>2. Consecutive(i + 1, j + 1)
    <3>1. ASSUME NEW k \in 1 .. n, i + 1 < k, k < j + 1
          PROVE  requests[k].id # requests[i + 1].id
      <4>1. PICK h \in 1 .. n - 1 : k = h + 1
        BY <1>3, <1>5, <3>1
      <4>2. i < h /\ h < j
        BY <1>3, <3>1, <4>1
      <4>3. QED
        BY <1>3, <2>1, <4>1, <4>2
    <3>2. QED
      BY <1>3, <1>4, <1>6, <2>1, <3>1 DEF Consecutive
  <2>3. QED
    BY <1>3, <1>4, <1>6, <2>2 DEF Story, StoryHasNoGaps
<1>14. StoryIsCurrent'
  <2> SUFFICES ASSUME NEW c \in Connections, NEW i \in 1 .. n - 1, requests'[i].id = c
               PROVE  \E k \in 1 .. n - 1 :
                        requests'[k].id = c /\ IsLast(k)' /\ requests'[k].new = connState'[c]
    BY <1>3 DEF StoryIsCurrent, Requested
  <2>1. PICK w \in 1 .. n : requests[w].id = c /\ IsLast(w) /\ requests[w].new = connState[c]
    BY <1>3, <1>4, <1>6 DEF Story, StoryIsCurrent, Requested
  <2>2. w # 1
    BY <1>3, <1>4, <1>6, <2>1 DEF IsLast
  <2>3. PICK k \in 1 .. n - 1 : w = k + 1
    BY <1>5, <2>2
  <2>4. IsLast(k)'
    <3>1. ASSUME NEW j \in 1 .. n - 1, k < j
          PROVE  requests'[j].id # c
      BY <1>3, <1>4, <1>6, <2>1, <2>3, <3>1 DEF IsLast
    <3>2. QED
      BY <1>3, <2>1, <2>3, <3>1 DEF IsLast
  <2>5. QED
    BY <1>2, <1>3, <2>1, <2>3, <2>4
<1>15. QED
  BY <1>1, <1>8, <1>9, <1>10, <1>11, <1>12, <1>13, <1>14 DEF Story

(***************************************************************************)
(* What each step means for a connection.                                  *)
(***************************************************************************)
LEMMA SendSends ==
  ASSUME NewsTypeOK, NEW d \in Connections, NEW loop \in BOOLEAN, Send(d, loop)
  PROVE  /\ Sending(d)'
         /\ \A c \in Connections : Sending(c) => Sending(c)'
<1> DEFINE Sender == [id : Connections, loop : BOOLEAN]
           sender == [id |-> d, loop |-> loop]
<1>1. sender \in Sender /\ sender.id = d /\ blocked \in Seq(Sender)
  BY DEF NewsTypeOK
<1>2. CASE dispatcher = Idle
  <2>1. dispatcher' = d /\ blocked' = blocked
    BY <1>2 DEF Send
  <2>2. QED
    BY <1>2, <2>1, NamesAssumption DEF Sending
<1>3. CASE dispatcher # Idle
  <2>1. blocked' = Append(blocked, sender) /\ dispatcher' = dispatcher
    BY <1>3 DEF Send
  <2> HIDE DEF Sender, sender
  <2>2. /\ Len(blocked) \in Nat /\ Len(blocked') = Len(blocked) + 1
        /\ blocked'[Len(blocked) + 1] = sender
        /\ \A i \in 1 .. Len(blocked) : blocked'[i] = blocked[i]
    BY <1>1, <2>1
  <2>3. Len(blocked) + 1 \in 1 .. Len(blocked')
    BY <2>2
  <2>4. Sending(d)'
    BY <1>1, <2>2, <2>3 DEF Sending
  <2>5. ASSUME NEW c \in Connections, Sending(c)
        PROVE  Sending(c)'
    BY <2>1, <2>2, <2>5 DEF Sending
  <2>6. QED
    BY <2>4, <2>5
<1>4. QED
  BY <1>2, <1>3

LEMMA AcceptSends ==
  ASSUME NewsTypeOK, Accept
  PROVE  \A c \in Connections : Sending(c) => Sending(c)'
<1> DEFINE Sender == [id : Connections, loop : BOOLEAN]
<1>1. blocked \in Seq(Sender)
  BY DEF NewsTypeOK
<1> HIDE DEF Sender
<1> SUFFICES ASSUME NEW c \in Connections, Sending(c)
             PROVE  Sending(c)'
  OBVIOUS
<1>2. PICK i \in 1 .. Len(blocked) : blocked[i].id = c
  BY NamesAssumption DEF Accept, Sending
<1>3. blocked # << >>
  BY <1>1, <1>2
<1>4. dispatcher' = Head(blocked).id /\ blocked' = Tail(blocked)
  BY <1>3 DEF Accept
<1>5. /\ Len(blocked) \in Nat /\ Head(blocked) = blocked[1]
      /\ Len(Tail(blocked)) = Len(blocked) - 1
      /\ \A k \in 1 .. Len(blocked) - 1 : Tail(blocked)[k] = blocked[k + 1]
  BY <1>1, <1>3
<1>6. CASE i = 1
  BY <1>2, <1>4, <1>5, <1>6 DEF Sending
<1>7. CASE i # 1
  <2>1. i - 1 \in 1 .. Len(blocked) - 1 /\ (i - 1) + 1 = i
    BY <1>5, <1>7
  <2>2. Tail(blocked)[i - 1].id = c
    BY <1>2, <1>5, <2>1
  <2>3. QED
    BY <1>4, <1>5, <2>1, <2>2 DEF Sending
<1>8. QED
  BY <1>6, <1>7

(* A step keeps a connection right if it leaves its entry and its news     *)
(* alone, loses no request and no sender, and lets the loop see nothing.   *)
LEMMA Undisturbed ==
  ASSUME NEW c \in Connections, Right(c),
         Known(c)' <=> Known(c), Known(c) => data'[c].last = data[c].last,
         told'[c] = told[c],
         Sending(c) => Sending(c)', Requested(c) => Requested(c)',
         connState'[c] = connState[c] \/ Requested(c)',
         \A s : Seen(c, s)' => Seen(c, s),
         \A t : Tells(c, t) => Tells(c, t)'
  PROVE  Right(c)'
<1>1. EntryIsRight(c)'
  BY DEF Right, EntryIsRight
<1>2. NewsIsRight(c)'
  <2> SUFFICES ASSUME NEW s \in Stable,
                      IF Known(c)' THEN data'[c].last = s ELSE Seen(c, s)',
                      told'[c] \in Stable \ {s}
               PROVE  Sending(c)' \/ Tells(c, told[c])'
    BY DEF NewsIsRight
  <2>1. IF Known(c) THEN data[c].last = s ELSE Seen(c, s)
    OBVIOUS
  <2>2. Sending(c) \/ Tells(c, told[c])
    BY <2>1 DEF Right, NewsIsRight
  <2>3. Tells(c, told[c]) => \E i \in 1 .. Len(requests') :
          requests'[i].id = c /\ requests'[i].new = told[c]
    BY DEF Tells
  <2>4. QED
    BY <2>2, <2>3 DEF Tells
<1>3. UnknownIsTold(c)'
  BY DEF Right, UnknownIsTold
<1>4. QED
  BY <1>1, <1>2, <1>3 DEF Right

(* The loop handles a request of the connection itself.                    *)
LEMMA HandledRight ==
  ASSUME NewsTypeOK, Story, NEW r \in Request, NEW c \in Connections, c = r.id, Right(c),
         \/ HandleOddTransition(r) \/ HandleTransition(r)
         \/ HandleReturn(r) \/ HandleStable(r)
  PROVE  Right(c)'
<1>1. Takes(r)
  BY DEF HandleOddTransition, HandleTransition, HandleReturn, HandleStable
<1>2. /\ Seen(c, r.old)
      /\ \A s : Seen(c, s)' => s = r.new
      /\ \A t : Tells(c, t) => Tells(c, t)' \/ t = r.new
  BY <1>1, StoryGoesOn
<1>3. data \in [Connections -> Entry \cup {NoEntry}] /\ told' = told
  BY <1>1 DEF NewsTypeOK, Takes
<1>4. \A e : e.last \in Stable => e # NoEntry
  BY DEF NoEntry, Stable
<1>5. Stable \cap Transitional = {}
  BY DEF Stable, Transitional
<1>6. Known(c) => data[c].last \in Stable
  BY KnownEntry
<1>7. CASE HandleOddTransition(r)
  <2>1. Sending(c)'
    BY <1>7, SendSends DEF HandleOddTransition
  <2>2. r.new \in Transitional
    BY <1>7 DEF HandleOddTransition
  <2>3. EntryIsRight(c)'
    BY <1>2, <1>5, <2>2 DEF EntryIsRight
  <2>4. QED
    BY <2>1, <2>3 DEF Right, NewsIsRight, UnknownIsTold
<1>8. CASE HandleTransition(r)
  <2>1. r.new \in Transitional /\ r.old \in Stable
    BY <1>8 DEF HandleTransition
  <2>2. data' = IF Known(c) THEN data
                ELSE [data EXCEPT ![c] = [last |-> r.old, fresh |-> TRUE, waiting |-> TRUE]]
    BY <1>8 DEF HandleTransition
  <2>3. data'[c].last = IF Known(c) THEN data[c].last ELSE r.old
    BY <1>3, <2>2
  <2>4. Known(c)'
    BY <1>4, <1>6, <2>1, <2>3 DEF Known
  <2>5. Sending(c)' <=> Sending(c)
    BY <1>8 DEF HandleTransition, Sending
  <2>6. EntryIsRight(c)'
    BY <1>2, <1>5, <2>1 DEF EntryIsRight
  <2>7. NewsIsRight(c)'
    <3> SUFFICES ASSUME NEW s \in Stable, data'[c].last = s, told[c] \in Stable \ {s}
                 PROVE  Sending(c)' \/ Tells(c, told[c])'
      BY <1>3, <2>4 DEF NewsIsRight
    <3>1. IF Known(c) THEN data[c].last = s ELSE Seen(c, s)
      BY <1>2, <2>3
    <3>2. Sending(c) \/ Tells(c, told[c])
      BY <3>1 DEF Right, NewsIsRight
    <3>3. told[c] # r.new
      BY <1>5, <2>1
    <3>4. PICK t : t = told[c]
      OBVIOUS
    <3>5. Tells(c, t) => Tells(c, t)'
      BY <1>2, <3>3, <3>4
    <3>6. Tells(c, told[c]) => Tells(c, told[c])'
      BY <1>3, <3>4, <3>5 DEF Tells
    <3>7. QED
      BY <2>5, <3>2, <3>6
  <2>8. QED
    BY <2>4, <2>6, <2>7 DEF Right, UnknownIsTold
<1>9. CASE HandleReturn(r)
  <2>1. Known(c) /\ data[c].last = r.new /\ r.new \in Stable
    BY <1>9 DEF HandleReturn
  <2>2. data' = [data EXCEPT ![c] = [data[c] EXCEPT !.waiting = FALSE]]
    BY <1>9 DEF HandleReturn
  <2>3. data[c] \in Entry
    BY <2>1, KnownEntry
  <2>4. data'[c].last = r.new
    BY <1>3, <2>1, <2>2, <2>3 DEF Entry
  <2>5. Known(c)'
    BY <1>4, <2>1, <2>4 DEF Known
  <2>6. Sending(c)' <=> Sending(c)
    BY <1>9 DEF HandleReturn, Sending
  <2>7. EntryIsRight(c)'
    BY <1>2, <2>4 DEF EntryIsRight
  <2>8. NewsIsRight(c)'
    <3> SUFFICES ASSUME NEW s \in Stable, data'[c].last = s, told[c] \in Stable \ {s}
                 PROVE  Sending(c)' \/ Tells(c, told[c])'
      BY <1>3, <2>5 DEF NewsIsRight
    <3>1. Sending(c) \/ Tells(c, told[c])
      BY <2>1, <2>4 DEF Right, NewsIsRight
    <3>2. told[c] # r.new
      BY <2>4
    <3>3. PICK t : t = told[c]
      OBVIOUS
    <3>4. Tells(c, t) => Tells(c, t)'
      BY <1>2, <3>2, <3>3
    <3>5. Tells(c, told[c]) => Tells(c, told[c])'
      BY <1>3, <3>3, <3>4 DEF Tells
    <3>6. QED
      BY <2>6, <3>1, <3>5
  <2>9. QED
    BY <2>5, <2>7, <2>8 DEF Right, UnknownIsTold
<1>10. CASE HandleStable(r)
  <2>1. Sending(c)'
    BY <1>10, SendSends DEF HandleStable
  <2>2. data' = IF Known(c)
                THEN [data EXCEPT ![c] = [last |-> r.new, fresh |-> TRUE, waiting |-> FALSE]]
                ELSE data
    BY <1>10 DEF HandleStable
  <2>3. EntryIsRight(c)'
    <3>1. CASE Known(c)
      <4>1. data'[c].last = r.new
        BY <1>3, <2>2, <3>1
      <4>2. QED
        BY <1>2, <4>1 DEF EntryIsRight
    <3>2. CASE ~Known(c)
      <4>1. ~Known(c)'
        BY <2>2, <3>2 DEF Known
      <4>2. QED
        BY <4>1 DEF EntryIsRight
    <3>3. QED
      BY <3>1, <3>2
  <2>4. QED
    BY <2>1, <2>3 DEF Right, NewsIsRight, UnknownIsTold
<1>11. QED
  BY <1>7, <1>8, <1>9, <1>10

(* A notification tells the present state and drops the entry.             *)
LEMMA DispatchedRight ==
  ASSUME NewsTypeOK, Story, NEW c \in Connections, Dispatch(c)
  PROVE  Right(c)'
<1>1. ~Known(c)' /\ told'[c] = connState[c] /\ UNCHANGED <<connState, requests>>
  BY DEF Dispatch, NewsTypeOK, Known
<1>2. NewsIsRight(c)'
  <2> SUFFICES ASSUME NEW s \in Stable, Seen(c, s), connState[c] # s
               PROVE  Tells(c, connState[c])
    BY <1>1 DEF NewsIsRight, Seen, Tells, Requested, IsFirst
  <2>1. Requested(c)
    BY DEF Seen, Requested
  <2>2. QED
    BY <2>1 DEF Story, StoryIsCurrent, Tells
<1>3. EntryIsRight(c)' /\ UnknownIsTold(c)'
  BY <1>1 DEF EntryIsRight, UnknownIsTold
<1>4. QED
  BY <1>2, <1>3 DEF Right

(***************************************************************************)
(* The invariant.                                                          *)
(***************************************************************************)
LEMMA IInvInitially == NewsInit => NewsInv
<1> SUFFICES ASSUME NewsInit
             PROVE  NewsInv
  OBVIOUS
<1>1. NewsTypeOK
  BY DEF NewsInit, NewsTypeOK, ConnectionState, Stable
<1>2. Len(requests) = 0
  BY DEF NewsInit
<1>3. Story
  BY <1>2 DEF Story, StoryHasNoGaps, StoryIsCurrent, Requested
<1>4. ASSUME NEW c \in Connections
      PROVE  Right(c)
  <2>1. ~Known(c) /\ told[c] = connState[c]
    BY DEF NewsInit, Known
  <2>2. \A s : Seen(c, s) => s = connState[c]
    BY <1>2 DEF Seen
  <2>3. QED
    BY <2>1, <2>2 DEF Right, EntryIsRight, NewsIsRight, UnknownIsTold
<1>5. QED
  BY <1>1, <1>3, <1>4 DEF NewsInv

(* A step that leaves requests and states alone and loses no sender and no *)
(* entry, and changes no news.                                             *)
LEMMA QuietStep ==
  ASSUME NEW c \in Connections, Right(c), UNCHANGED <<requests, connState, told>>,
         Known(c)' <=> Known(c), Known(c) => data'[c].last = data[c].last,
         Sending(c) => Sending(c)'
  PROVE  Right(c)'
<1>0. UNCHANGED <<requests, connState>>
  OBVIOUS
<1>1. /\ \A s : Seen(c, s)' => Seen(c, s)
      /\ \A t : Tells(c, t) => Tells(c, t)'
      /\ Requested(c) => Requested(c)'
  BY <1>0, StoryUnchanged
<1>2. QED
  BY <1>1, Undisturbed

LEMMA IInvKept == NewsInv /\ [NewsNext]_newsVars => NewsInv'
<1> SUFFICES ASSUME NewsInv, [NewsNext]_newsVars
             PROVE  NewsInv'
  OBVIOUS
<1>1. NewsTypeOK /\ Story /\ NewsTypeOK' /\ \A c \in Connections : Right(c)
  BY TypeKept DEF NewsInv
<1>2. \A e : e.last \in Stable => e # NoEntry
  BY DEF NoEntry, Stable
<1>3. data \in [Connections -> Entry \cup {NoEntry}]
  BY <1>1 DEF NewsTypeOK
<1>4. ASSUME NEW d \in Connections, NEW state \in ConnectionState, Change(d, state)
      PROVE  Story' /\ \A c \in Connections : Right(c)'
  <2>1. /\ Story' /\ Requested(d)'
        /\ \A c \in Connections : Requested(c) => Requested(c)'
        /\ \A c \in Connections : \A s : Seen(c, s)' => Seen(c, s)
        /\ \A c \in Connections : \A t : Tells(c, t) => Tells(c, t)'
    BY <1>1, <1>4, StoryGrows
  <2>2. UNCHANGED <<told, data, blocked, dispatcher>>
    BY <1>4 DEF Change
  <2>3. ASSUME NEW c \in Connections
        PROVE  Right(c)'
    <3>1. connState'[c] = connState[c] \/ Requested(c)'
      BY <1>1, <1>4, <2>1 DEF Change, NewsTypeOK
    <3>2. (Known(c)' <=> Known(c)) /\ (Sending(c) => Sending(c)')
      BY <2>2 DEF Known, Sending
    <3>3. data'[c].last = data[c].last /\ told'[c] = told[c]
      BY <2>2
    <3>4. /\ Requested(c) => Requested(c)'
          /\ \A s : Seen(c, s)' => Seen(c, s)
          /\ \A t : Tells(c, t) => Tells(c, t)'
      BY <2>1
    <3>5. QED
      BY <1>1, <3>1, <3>2, <3>3, <3>4, Undisturbed
  <2>4. QED
    BY <2>1, <2>3
<1>5. ASSUME NEW r \in Request,
             \/ HandleOddTransition(r) \/ HandleTransition(r)
             \/ HandleReturn(r) \/ HandleStable(r)
      PROVE  Story' /\ \A c \in Connections : Right(c)'
  <2>1. Takes(r)
    BY <1>5 DEF HandleOddTransition, HandleTransition, HandleReturn, HandleStable
  <2>2. /\ Story' /\ r.id \in Connections
        /\ \A c \in Connections : \A t :
             Tells(c, t) => Tells(c, t)' \/ (c = r.id /\ t = r.new)
        /\ \A c \in Connections \ {r.id} :
             /\ Requested(c) => Requested(c)'
             /\ \A s : Seen(c, s)' => Seen(c, s)
    BY <1>1, <2>1, StoryGoesOn
  <2>3. ASSUME NEW c \in Connections, c # r.id
        PROVE  Right(c)'
    <3>1. data'[c] = data[c]
      BY <1>3, <1>5, <2>3 DEF HandleOddTransition, HandleTransition, HandleReturn, HandleStable
    <3>2. Known(c)' <=> Known(c)
      BY <3>1 DEF Known
    <3>3. Sending(c) => Sending(c)'
      <4>1. UNCHANGED <<blocked, dispatcher>> \/ Send(r.id, TRUE)
        BY <1>5 DEF HandleOddTransition, HandleTransition, HandleReturn, HandleStable
      <4>2. CASE UNCHANGED <<blocked, dispatcher>>
        BY <4>2 DEF Sending
      <4>3. CASE Send(r.id, TRUE)
        BY <1>1, <2>2, <4>3, SendSends
      <4>4. QED
        BY <4>1, <4>2, <4>3
    <3>4. told' = told /\ connState' = connState
      BY <2>1 DEF Takes
    <3>5. /\ Requested(c) => Requested(c)'
          /\ \A s : Seen(c, s)' => Seen(c, s)
          /\ \A t : Tells(c, t) => Tells(c, t)'
      BY <2>2, <2>3
    <3>6. QED
      BY <1>1, <3>1, <3>2, <3>3, <3>4, <3>5, Undisturbed
  <2>4. Right(r.id)'
    BY <1>1, <1>5, <2>2, HandledRight
  <2>5. QED
    BY <2>2, <2>3, <2>4
<1>6. ASSUME NEW d \in Connections, Age(d) \/ SettleTimeOut(d) \/ OrphanTimeOut(d)
      PROVE  Story' /\ \A c \in Connections : Right(c)'
  <2>1. UNCHANGED <<requests, connState, told>>
    BY <1>6 DEF Age, SettleTimeOut, OrphanTimeOut
  <2>2. Story'
    BY <1>1, <2>1, StoryUnchanged
  <2>3. ASSUME NEW c \in Connections
        PROVE  Right(c)'
    <3>1. Sending(c) => Sending(c)'
      <4>1. UNCHANGED <<blocked, dispatcher>> \/ Send(d, FALSE)
        BY <1>6 DEF Age, SettleTimeOut, OrphanTimeOut
      <4>2. CASE UNCHANGED <<blocked, dispatcher>>
        BY <4>2 DEF Sending
      <4>3. CASE Send(d, FALSE)
        BY <1>1, <4>3, SendSends
      <4>4. QED
        BY <4>1, <4>2, <4>3
    <3>2. CASE data'[c] = data[c]
      <4>1. Known(c)' <=> Known(c)
        BY <3>2 DEF Known
      <4>2. QED
        BY <1>1, <2>1, <3>1, <3>2, <4>1, QuietStep
    <3>3. CASE data'[c] # data[c]
      <4>1. c = d /\ (Age(c) \/ SettleTimeOut(c))
        BY <1>3, <1>6, <3>3 DEF Age, SettleTimeOut, OrphanTimeOut
      <4>2. data[c] \in Entry /\ Known(c)
        BY <1>1, <4>1, KnownEntry DEF Age, SettleTimeOut
      <4>3. \/ data' = [data EXCEPT ![c] = [data[c] EXCEPT !.fresh = FALSE]]
            \/ data' = [data EXCEPT ![c] = [data[c] EXCEPT !.waiting = FALSE]]
        BY <4>1 DEF Age, SettleTimeOut
      <4>4. data'[c].last = data[c].last /\ data[c].last \in Stable
        BY <1>3, <4>2, <4>3 DEF Entry
      <4>5. Known(c)'
        BY <1>2, <4>4 DEF Known
      <4>6. QED
        BY <1>1, <2>1, <3>1, <4>2, <4>4, <4>5, QuietStep
    <3>4. QED
      BY <3>2, <3>3
  <2>4. QED
    BY <2>2, <2>3
<1>7. ASSUME NEW d \in Connections, Dispatch(d)
      PROVE  Story' /\ \A c \in Connections : Right(c)'
  <2>1. Story'
    BY <1>1, <1>7, StoryUnchanged DEF Dispatch
  <2>2. ASSUME NEW c \in Connections, c # d
        PROVE  Right(c)'
    <3>1. data'[c] = data[c] /\ told'[c] = told[c] /\ UNCHANGED <<requests, connState, blocked>>
      BY <1>1, <1>7, <2>2 DEF Dispatch, NewsTypeOK
    <3>2. Known(c)' <=> Known(c)
      BY <3>1 DEF Known
    <3>3. Sending(c) => Sending(c)'
      BY <1>7, <2>2 DEF Dispatch, Sending
    <3>4. /\ Requested(c) => Requested(c)'
          /\ \A s : Seen(c, s)' => Seen(c, s)
          /\ \A t : Tells(c, t) => Tells(c, t)'
      <4>1. UNCHANGED <<requests, connState>>
        BY <3>1
      <4>2. QED
        BY <4>1, StoryUnchanged
    <3>5. QED
      BY <1>1, <3>1, <3>2, <3>3, <3>4, Undisturbed
  <2>3. Right(d)'
    BY <1>1, <1>7, DispatchedRight
  <2>4. QED
    BY <2>1, <2>2, <2>3
<1>8. ASSUME Accept \/ UNCHANGED newsVars
      PROVE  Story' /\ \A c \in Connections : Right(c)'
  <2>1. UNCHANGED <<requests, connState, told, data>>
    BY <1>8 DEF Accept, newsVars
  <2>2. ASSUME NEW c \in Connections
        PROVE  Right(c)'
    <3>1. Sending(c) => Sending(c)'
      BY <1>1, <1>8, AcceptSends DEF newsVars, Sending
    <3>2. Known(c)' <=> Known(c)
      BY <2>1 DEF Known
    <3>3. QED
      BY <1>1, <2>1, <3>1, <3>2, QuietStep
  <2>3. QED
    BY <1>1, <2>1, <2>2, StoryUnchanged
<1>9. QED
  BY <1>1, <1>4, <1>5, <1>6, <1>7, <1>8 DEF NewsInv, NewsNext, HandleRequest

(* The invariant implies what it was made for.                             *)
LEMMA IInvImpliesQuietTruth == NewsInv => QuietTruth
<1> SUFFICES ASSUME NewsInv, NEW c \in Connections, told[c] # connState[c], ~Underway(c)
             PROVE  /\ Known(c)
                    /\ connState[c] \in Stable =>
                         told[c] \in Transitional /\ data[c].last = connState[c]
  BY DEF QuietTruth
<1>1. ~Sending(c) /\ ~Requested(c) /\ \A t : ~Tells(c, t)
  BY DEF Underway, Sending, Requested, Tells
<1>2. Right(c) /\ NewsTypeOK
  BY DEF NewsInv
<1>3. Known(c)
  BY <1>1, <1>2 DEF Right, UnknownIsTold
<1>4. ASSUME connState[c] \in Stable
      PROVE  told[c] \in Transitional /\ data[c].last = connState[c]
  <2>1. Seen(c, connState[c])
    BY <1>1 DEF Seen
  <2>2. data[c].last = connState[c]
    BY <1>2, <1>3, <1>4, <2>1 DEF Right, EntryIsRight
  <2>3. told[c] \notin Stable
    BY <1>1, <1>2, <1>3, <1>4, <2>2 DEF Right, NewsIsRight
  <2>4. told[c] \in ConnectionState
    BY <1>2 DEF NewsTypeOK
  <2>5. QED
    BY <2>2, <2>3, <2>4 DEF ConnectionState
<1>5. QED
  BY <1>3, <1>4

(***************************************************************************)
(* Theorems.                                                               *)
(***************************************************************************)
(* The tasks of the rate limiter keep the types of all variables.          *)
THEOREM NewsTypeCorrect == NewsSpec => []NewsTypeOK
<1>1. NewsInit => NewsTypeOK
  BY IInvInitially DEF NewsInv
<1>2. QED
  BY <1>1, TypeKept, PTL DEF NewsSpec

(* However requests, waiting tasks and notifications interleave, for any   *)
(* number of connections: when all is quiet about a connection, clients do *)
(* not take one stable state of it for the other.                          *)
THEOREM QuietIsTrue == NewsSpec => []QuietTruth
BY IInvInitially, IInvKept, IInvImpliesQuietTruth, PTL DEF NewsSpec
====================================================================================
