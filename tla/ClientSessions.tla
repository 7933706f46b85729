---------------------------- MODULE ClientSessions ----------------------------
(***************************************************************************)
(* The sessions of the clients: the registry (registries/clients.py), the  *)
(* extensions that limit connections and shut an idle server down, the     *)
(* disconnection of a client (app.py), and the message hub as far as these *)
(* need it: farewell messages that are waited for, and broadcasts, which   *)
(* one task sends to one client after the other.                           *)
(*                                                                         *)
(* A client is connected over TCP.  Its connection may be closed long      *)
(* before it leaves the registry, as requests of it may still be handled;  *)
(* and it may stop reading what it is sent without closing anything.       *)
(***************************************************************************)
EXTENDS Integers, FiniteSets, SequencesExt

CONSTANTS
  Clients,      \* connections; a client that comes back is another one
  Messages,     \* messages that are broadcast, again and again
  MaxClients,   \* how many clients may be connected at a time
  Configured,   \* which other limits may be in force: any of the sets in it
  MaxClosers    \* bound: disconnections of a client that wait at a time

ASSUME ClientsAssumption == IsFiniteSet(Clients)
ASSUME MaxClientsAssumption == MaxClients \in Nat \ {0}
ASSUME ConfiguredAssumption == Configured \subseteq SUBSET {"duration", "auth"}
ASSUME MaxClosersAssumption == MaxClosers \in Nat \ {0}

VARIABLES
  limits,     \* the limits that are in force besides MaxClients
  conn,       \* the connection of each client; closed, it is still registered
  reads,      \* whether the client reads what it is sent
  auth,       \* whether it has authenticated, or the time for it is over
  expired,    \* whether its session has lasted for too long
  closers,    \* disconnections that wait until their farewell is sent
  methods,    \* _broadcast_methods, if any: to whom a broadcast is to be sent
  queued,     \* messages whose broadcast is in the queue of the hub
  todo,       \* to whom the task of a broadcast is still to send it, in order
  idle        \* the timer of the shutdown

clientVars == <<limits, conn, reads, auth, expired, closers, methods,
          queued, todo, idle>>
hub == <<queued, todo>>

(* ClientRegistry: the clients that are in it, connected or not.           *)
Registered == {c \in Clients : conn[c] \in {"open", "closed"}}

ClientTypeOK ==
  /\ limits \in Configured
  /\ conn \in [Clients -> {"new", "open", "closed", "gone"}]
  /\ reads \in [Clients -> BOOLEAN]
  /\ auth \in [Clients -> {"pending", "known", "late"}]
  /\ expired \in [Clients -> BOOLEAN]
  /\ closers \in [Clients -> 0 .. MaxClosers]
  /\ methods \in SUBSET SUBSET Clients
  /\ queued \subseteq Messages
  /\ todo \in [Messages -> Seq(Clients)]
  /\ idle \in {"off", "running", "over", "down"}

ClientInit ==
  /\ limits \in Configured
  /\ conn = [c \in Clients |-> "new"]
  /\ reads = [c \in Clients |-> TRUE]
  /\ auth = [c \in Clients |-> "pending"]
  /\ expired = [c \in Clients |-> FALSE]
  /\ closers = [c \in Clients |-> 0]
  /\ methods = {}
  /\ queued = {}
  /\ todo = [m \in Messages |-> << >>]
  /\ idle = "running"

(***************************************************************************)
(* Clients come and go.                                                    *)
(***************************************************************************)
(* on_client_count_changed() of the shutdown: it stops or restarts the     *)
(* timer, unless that is over already.                                     *)
IdleTimer(clients) ==
  IF idle = "over" THEN "over" ELSE IF clients # {} THEN "off" ELSE "running"

\* Mutant: the hub does not notice that a client has come.
Connect_KeepsMethods(c) ==
  /\ conn[c] = "new"
  /\ conn' = [conn EXCEPT ![c] = "open"]
  /\ closers' = [closers EXCEPT ![c] = IF Cardinality(Registered') > MaxClients THEN 1 ELSE 0]
  /\ idle' = IdleTimer(Registered')
  /\ UNCHANGED <<limits, reads, auth, expired, methods, hub>>

(* A client connects and is registered.  If there are too many clients     *)
(* then, its disconnection begins.                                         *)
Connect(c) ==
  /\ conn[c] = "new"
  /\ conn' = [conn EXCEPT ![c] = "open"]
  /\ closers' = [closers EXCEPT ![c] = IF Cardinality(Registered') > MaxClients THEN 1 ELSE 0]
  /\ methods' = {}
  /\ idle' = IdleTimer(Registered')
  /\ UNCHANGED <<limits, reads, auth, expired, hub>>

(* The client closes the connection.                                       *)
HangUp(c) ==
  /\ conn[c] = "open"
  /\ conn' = [conn EXCEPT ![c] = "closed"]
  /\ UNCHANGED <<limits, reads, auth, expired, closers, methods, idle, hub>>

(* The client stops reading.                                               *)
StopReading(c) ==
  /\ conn[c] = "open" /\ reads[c]
  /\ reads' = [reads EXCEPT ![c] = FALSE]
  /\ UNCHANGED <<limits, conn, auth, expired, closers, methods, idle, hub>>

(* A request authenticates the client.                                     *)
Authenticate(c) ==
  /\ "auth" \in limits
  /\ c \in Registered /\ auth[c] # "known"
  /\ auth' = [auth EXCEPT ![c] = "known"]
  /\ UNCHANGED <<limits, conn, reads, expired, closers, methods, idle, hub>>

\* Mutant: the clients are counted before one of them is removed.
Leave_CountsAll(c) ==
  /\ conn[c] = "closed"
  /\ conn' = [conn EXCEPT ![c] = "gone"]
  /\ expired' = [expired EXCEPT ![c] = FALSE]
  /\ methods' = {}
  /\ idle' = IdleTimer(Registered)
  /\ UNCHANGED <<limits, reads, auth, closers, hub>>

(* Its connection closed and its requests handled, a client is removed.    *)
Leave(c) ==
  /\ conn[c] = "closed"
  /\ conn' = [conn EXCEPT ![c] = "gone"]
  /\ expired' = [expired EXCEPT ![c] = FALSE]
  /\ methods' = {}
  /\ idle' = IdleTimer(Registered')
  /\ UNCHANGED <<limits, reads, auth, closers, hub>>

(* Nobody has been connected for long: the timer is over, and a moment     *)
(* later the server is shut down.                                          *)
TimerOver ==
  /\ idle = "running"
  /\ idle' = "over"
  /\ UNCHANGED <<limits, conn, reads, auth, expired, closers, methods, hub>>

Shutdown ==
  /\ idle = "over"
  /\ idle' = "down"
  /\ UNCHANGED <<limits, conn, reads, auth, expired, closers, methods, hub>>

(***************************************************************************)
(* Limits and disconnections.                                              *)
(***************************************************************************)
Room(c) == closers[c] < MaxClosers

Expire(c) ==
  /\ "duration" \in limits
  /\ c \in Registered /\ ~expired[c]
  /\ expired' = [expired EXCEPT ![c] = TRUE]
  /\ UNCHANGED <<limits, conn, reads, auth, closers, methods, idle, hub>>

(* Every period the disconnection of all clients whose session has expired *)
(* begins, also if another one is under way.                               *)
DisconnectExpired ==
  /\ \E c \in Clients : expired[c] /\ Room(c)
  /\ closers' = [c \in Clients |-> closers[c] + IF expired[c] /\ Room(c) THEN 1 ELSE 0]
  /\ UNCHANGED <<limits, conn, reads, auth, expired, methods, idle, hub>>

(* check_client_auths_in_time(): the time to authenticate is over.         *)
CheckAuth(c) ==
  /\ "auth" \in limits
  /\ conn[c] # "new" /\ auth[c] = "pending" /\ Room(c)
  /\ auth' = [auth EXCEPT ![c] = "late"]
  /\ closers' = [closers EXCEPT ![c] = @ + IF c \in Registered THEN 1 ELSE 0]
  /\ UNCHANGED <<limits, conn, reads, expired, methods, idle, hub>>

Closed(c) == [conn EXCEPT ![c] = IF @ = "open" THEN "closed" ELSE @]

(* disconnect_client(): the farewell has been sent, which it never is over *)
(* a connection that is closed or stuck, and the connection is closed.     *)
Close(c) ==
  /\ closers[c] > 0 /\ conn[c] = "open" /\ reads[c]
  /\ closers' = [closers EXCEPT ![c] = @ - 1]
  /\ conn' = Closed(c)
  /\ UNCHANGED <<limits, reads, auth, expired, methods, idle, hub>>

\* Mutant: the connection is not closed by force.
TimeOut_Gentle(c) ==
  /\ closers[c] > 0
  /\ closers' = [closers EXCEPT ![c] = @ - 1]
  /\ UNCHANGED conn
  /\ UNCHANGED <<limits, reads, auth, expired, methods, idle, hub>>

(* The farewell is not sent in time: the connection is closed by force.    *)
TimeOut(c) ==
  /\ closers[c] > 0
  /\ closers' = [closers EXCEPT ![c] = @ - 1]
  /\ conn' = Closed(c)
  /\ UNCHANGED <<limits, reads, auth, expired, methods, idle, hub>>

(***************************************************************************)
(* Broadcasts.                                                             *)
(***************************************************************************)
sessions == <<limits, conn, reads, auth, expired, closers, idle>>

Enqueue(m) ==
  /\ m \notin queued /\ todo[m] = << >>
  /\ queued' = queued \cup {m}
  /\ UNCHANGED <<sessions, methods, todo>>

(* The task of the broadcast starts; if nobody came or went since the last *)
(* one, it goes to those to whom that one went.                            *)
Begin(m) ==
  /\ m \in queued
  /\ queued' = queued \ {m}
  /\ methods' = IF methods = {} THEN {Registered} ELSE methods
  /\ \E order \in SetToSeqs(UNION methods') : todo' = [todo EXCEPT ![m] = order]
  /\ UNCHANGED sessions

(* The next client is sent the message, unless its connection is closed.   *)
SendNext(m) ==
  /\ todo[m] # << >>
  /\ LET c == Head(todo[m]) IN conn[c] = "open" => reads[c]
  /\ todo' = [todo EXCEPT ![m] = Tail(@)]
  /\ UNCHANGED <<sessions, methods, queued>>

Up == idle # "down"

ClientNext ==
  /\ Up
  /\ \/ \E c \in Clients :
          \/ Connect(c) \/ HangUp(c) \/ StopReading(c)
          \/ Authenticate(c) \/ Leave(c)
          \/ Expire(c) \/ CheckAuth(c) \/ Close(c) \/ TimeOut(c)
     \/ TimerOver \/ Shutdown
     \/ DisconnectExpired
     \/ \E m \in Messages : Enqueue(m) \/ Begin(m) \/ SendNext(m)

ClientSpec == ClientInit /\ [][ClientNext]_clientVars

(* Tasks run, timers expire and handlers of requests end.  Clients need    *)
(* not do anything.                                                        *)
FairClientSpec ==
  /\ ClientSpec
  /\ WF_clientVars(Up /\ DisconnectExpired)
  /\ \A c \in Clients :
       /\ WF_clientVars(Up /\ Leave(c))
       /\ WF_clientVars(Up /\ Expire(c)) /\ WF_clientVars(Up /\ CheckAuth(c))
       /\ WF_clientVars(Up /\ TimeOut(c))
  /\ \A m \in Messages : WF_clientVars(Up /\ Begin(m)) /\ WF_clientVars(Up /\ SendNext(m))

(***************************************************************************)
(* Properties.                                                             *)
(***************************************************************************)
(* No more clients than the limit are connected without their              *)
(* disconnection being under way.                                          *)
Welcome == {c \in Clients : conn[c] = "open" /\ closers[c] = 0}
LimitHolds == Cardinality(Welcome) <= MaxClients

(* The timer of the shutdown runs exactly while nobody is registered.      *)
IdleIsEmpty ==
  /\ idle = "running" => Registered = {}
  /\ idle = "off" => Registered # {}

(* Every disconnection ends with the client leaving the registry, whether  *)
(* it reads or not and whether others are under way; and where clients     *)
(* have to authenticate, those that do not are gone in the end.            *)
LeaversLeave ==
  \A c \in Clients :
    /\ closers[c] > 0 ~> conn[c] = "gone" \/ idle = "down"
    /\ "auth" \in limits /\ auth[c] = "pending"
         ~> conn[c] \in {"new", "gone"} \/ auth[c] = "known" \/ idle = "down"

(* A broadcast goes to all clients that are registered when it begins,     *)
(* although the list is not made anew for each.                            *)
BroadcastsCover ==
  [][\A m \in queued \ queued' : todo'[m] \in SetToSeqs(Registered)]_clientVars

(* Where sessions expire, no client holds a broadcast up for ever, so that *)
(* those that come after it are sent the message.                          *)
BroadcastsEnd ==
  \A m \in Messages :
    "duration" \in limits /\ todo[m] # << >> ~> todo[m] = << >> \/ idle = "down"
=============================================================================
