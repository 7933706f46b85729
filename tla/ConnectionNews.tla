---------------------------- MODULE ConnectionNews ----------------------------
(***************************************************************************)
(* How clients learn of the states of connections: every change of state   *)
(* goes through ConnectionStatusMessageRateLimiter (message_hub.py), which *)
(* holds back the news of a transition for a while, to see whether the     *)
(* connection settles where it was before.                                 *)
(*                                                                         *)
(* Three kinds of tasks run: the loop that handles the requests, the       *)
(* dispatcher that creates and sends notifications, and a task for each    *)
(* entry that waits for its connection to settle.  The loop and the        *)
(* waiting tasks hand connections to the dispatcher over a channel without *)
(* buffer, so all but the one that it has accepted are blocked meanwhile.  *)
(***************************************************************************)
EXTENDS Integers, Sequences, FiniteSets

CONSTANTS
  Connections,
  MaxPending      \* bound: requests, waiting tasks and blocked tasks at a time

ASSUME ConstantsAssumption == MaxPending \in Nat

Stable == {"connected", "disconnected"}
Transitional == {"connecting", "disconnecting"}
ConnectionState == Stable \cup Transitional

Idle == "idle"    \* the dispatcher waits for a connection
Busy == "busy"    \* it waits for the message hub to take a message

ASSUME NamesAssumption == Idle \notin Connections /\ Busy \notin Connections

VARIABLES
  connState,        \* the states of the connections
  told,        \* the state in the last notification about each of them
  requests,    \* the request queue of the rate limiter
  data,        \* its entry for each connection
  orphans,     \* waiting tasks of each connection whose entry is gone
  blocked,     \* who is blocked in sending to the dispatcher, in order
  dispatcher   \* Idle, Busy, or the connection that it has accepted

newsVars == <<connState, told, requests, data, orphans, blocked, dispatcher>>

(* An entry has a stable state, which is fresh for 0.2 seconds, and its    *)
(* task waits for 0.1 seconds unless the connection settles before that.   *)
Entry == [last : Stable, fresh : BOOLEAN, waiting : BOOLEAN]
NoEntry == [last |-> "none", fresh |-> FALSE, waiting |-> FALSE]

Request == [id : Connections, old : ConnectionState, new : ConnectionState]

NewsTypeOK ==
  /\ connState \in [Connections -> ConnectionState]
  /\ told \in [Connections -> ConnectionState]
  /\ requests \in Seq(Request)
  /\ data \in [Connections -> Entry \cup {NoEntry}]
  /\ orphans \in [Connections -> Nat]
  /\ blocked \in Seq([id : Connections, loop : BOOLEAN])
  /\ dispatcher \in Connections \cup {Idle, Busy}

NewsInit ==
  /\ connState = [c \in Connections |-> "disconnected"]
  /\ told = connState
  /\ requests = << >>
  /\ data = [c \in Connections |-> NoEntry]
  /\ orphans = [c \in Connections |-> 0]
  /\ blocked = << >>
  /\ dispatcher = Idle

Known(c) == data[c] # NoEntry

Pending ==
  Len(requests) + Len(blocked) + Cardinality({c \in Connections : data[c].waiting})
    + Cardinality({c \in Connections : orphans[c] > 0})

(* A connection changes its state, and the rate limiter gets a request.    *)
Change(c, state) ==
  /\ state # connState[c]
  /\ Pending < MaxPending /\ orphans[c] < MaxPending
  /\ connState' = [connState EXCEPT ![c] = state]
  /\ requests' = Append(requests, [id |-> c, old |-> connState[c], new |-> state])
  /\ UNCHANGED <<told, data, orphans, blocked, dispatcher>>

(***************************************************************************)
(* The loop and the waiting tasks.                                         *)
(***************************************************************************)
(* A task sends c to the dispatcher, which accepts it at once if it waits. *)
Send(c, loop) ==
  IF dispatcher = Idle
  THEN dispatcher' = c /\ UNCHANGED blocked
  ELSE blocked' = Append(blocked, [id |-> c, loop |-> loop]) /\ UNCHANGED dispatcher

(* The loop takes the next request unless it is blocked.                   *)
Takes(r) ==
  /\ \A i \in 1 .. Len(blocked) : ~blocked[i].loop
  /\ requests # << >> /\ r = Head(requests)
  /\ requests' = Tail(requests)
  /\ UNCHANGED <<connState, told, orphans>>

(* One transition follows another one: that is reported.                   *)
HandleOddTransition(r) ==
  /\ Takes(r)
  /\ r.new \in Transitional /\ r.old \in Transitional
  /\ Send(r.id, TRUE)
  /\ UNCHANGED data

(* A transition begins; if there is no entry, a task waits for its end.    *)
HandleTransition(r) ==
  /\ Takes(r)
  /\ r.new \in Transitional /\ r.old \in Stable
  /\ data' = IF Known(r.id) THEN data
             ELSE [data EXCEPT ![r.id] = [last |-> r.old, fresh |-> TRUE, waiting |-> TRUE]]
  /\ UNCHANGED <<blocked, dispatcher>>

\* Mutant: any stable state is taken for the one before the transition.
HandleReturn_AnyState(r) ==
  /\ Takes(r)
  /\ r.new \in Stable
  /\ Known(r.id) /\ data[r.id].fresh
  /\ data' = [data EXCEPT ![r.id].waiting = FALSE]
  /\ UNCHANGED <<blocked, dispatcher>>

(* A connection is back in the fresh stable state of its entry.            *)
HandleReturn(r) ==
  /\ Takes(r)
  /\ r.new \in Stable
  /\ Known(r.id) /\ data[r.id].last = r.new /\ data[r.id].fresh
  /\ data' = [data EXCEPT ![r.id].waiting = FALSE]
  /\ UNCHANGED <<blocked, dispatcher>>

(* Any other stable state is reported.                                     *)
HandleStable(r) ==
  /\ Takes(r)
  /\ r.new \in Stable
  /\ ~(Known(r.id) /\ data[r.id].last = r.new /\ data[r.id].fresh)
  /\ data' = IF Known(r.id)
             THEN [data EXCEPT ![r.id] = [last |-> r.new, fresh |-> TRUE, waiting |-> FALSE]]
             ELSE data
  /\ Send(r.id, TRUE)

HandleRequest ==
  \E r \in Request : \/ HandleOddTransition(r) \/ HandleTransition(r)
                     \/ HandleReturn(r) \/ HandleStable(r)

(* 0.2 seconds have passed since the stable state was set.                 *)
Age(c) ==
  /\ data[c].fresh
  /\ data' = [data EXCEPT ![c].fresh = FALSE]
  /\ UNCHANGED <<connState, told, requests, orphans, blocked, dispatcher>>

\* Mutant: a task that has waited in vain does not report it.
SettleTimeOut_Silent(c) ==
  /\ data[c].waiting
  /\ data' = [data EXCEPT ![c].waiting = FALSE]
  /\ UNCHANGED <<connState, told, requests, orphans, blocked, dispatcher>>

(* A task has waited in vain; its entry stays until it is dispatched.      *)
SettleTimeOut(c) ==
  /\ data[c].waiting
  /\ data' = [data EXCEPT ![c].waiting = FALSE]
  /\ Send(c, FALSE)
  /\ UNCHANGED <<connState, told, requests, orphans>>

(* So has one whose entry is gone; nobody could tell it to stop.           *)
OrphanTimeOut(c) ==
  /\ orphans[c] > 0
  /\ orphans' = [orphans EXCEPT ![c] = @ - 1]
  /\ Send(c, FALSE)
  /\ UNCHANGED <<connState, told, requests, data>>

(***************************************************************************)
(* The dispatcher.                                                         *)
(***************************************************************************)
(* It drops the entry and creates a notification with the present state.   *)
Dispatch(c) ==
  /\ dispatcher = c
  /\ told' = [told EXCEPT ![c] = connState[c]]
  /\ data' = [data EXCEPT ![c] = NoEntry]
  /\ orphans' = [orphans EXCEPT ![c] = IF data[c].waiting THEN @ + 1 ELSE @]
  /\ dispatcher' = Busy
  /\ UNCHANGED <<connState, requests, blocked>>

(* The hub has taken the notification; the next connection is accepted.    *)
Accept ==
  /\ dispatcher = Busy
  /\ IF blocked = << >>
     THEN dispatcher' = Idle /\ UNCHANGED blocked
     ELSE dispatcher' = Head(blocked).id /\ blocked' = Tail(blocked)
  /\ UNCHANGED <<connState, told, requests, data, orphans>>

NewsNext ==
  \/ \E c \in Connections :
        \/ \E state \in ConnectionState : Change(c, state)
        \/ Age(c) \/ SettleTimeOut(c) \/ OrphanTimeOut(c) \/ Dispatch(c)
  \/ HandleRequest \/ Accept

NewsSpec == NewsInit /\ [][NewsNext]_newsVars

(* All tasks keep running and the message hub keeps taking messages.       *)
FairNewsSpec ==
  /\ NewsSpec
  /\ WF_newsVars(HandleRequest) /\ WF_newsVars(Accept)
  /\ \A c \in Connections : /\ WF_newsVars(SettleTimeOut(c)) /\ WF_newsVars(OrphanTimeOut(c))
                            /\ WF_newsVars(Dispatch(c))

(***************************************************************************)
(* Properties.                                                             *)
(***************************************************************************)
(* Something is still going on in the rate limiter about c.                *)
Underway(c) ==
  \/ \E i \in 1 .. Len(requests) : requests[i].id = c
  \/ \E i \in 1 .. Len(blocked) : blocked[i].id = c
  \/ dispatcher = c \/ data[c].waiting \/ orphans[c] > 0

(* When all is quiet about a connection, clients that were told something  *)
(* else than its state were told a transition that is over or is not told  *)
(* because an entry is kept: never do they take one stable state for the   *)
(* other, whatever news was held back.                                     *)
QuietTruth ==
  \A c \in Connections :
    (told[c] # connState[c] /\ ~Underway(c)) =>
       /\ Known(c)
       /\ connState[c] \in Stable => told[c] \in Transitional /\ data[c].last = connState[c]

(* What lasts is told: clients that take a connection for connected while  *)
(* it is disconnected, or the other way around, do not do so for ever, and *)
(* they hear of a transition, provided that the rate limiter knows nothing *)
(* but this transition of the connection.                                  *)
LastingTold ==
  /\ \A c \in Connections : \A s \in Stable :
       (connState[c] = s /\ told[c] \in Stable \ {s})
         ~> (connState[c] # s \/ told[c] \notin Stable \ {s})
  /\ \A c \in Connections : \A s \in Transitional :
       (/\ connState[c] = s /\ ~Known(c)
        /\ \A i, j \in 1 .. Len(requests) : requests[i].id = c /\ requests[j].id = c => i = j)
         ~> (connState[c] # s \/ told[c] = s)
=============================================================================
