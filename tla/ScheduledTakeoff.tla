--------------------------- MODULE ScheduledTakeoff ---------------------------
(***************************************************************************)
(* How the start time and the takeoff authorization of a show reach the    *)
(* drones of a MAVLink network (ScheduledTakeoffManager, takeoff.py).      *)
(*                                                                         *)
(* A loop compares, every second, what the drones have reported with what  *)
(* the present show configuration asks for, and queues the drones that     *)
(* need an update.  Each update is a task of its own; a few of them run at *)
(* a time.  A task reads the configuration when it begins and then waits   *)
(* for the drone once or twice, while the user may change everything.      *)
(*                                                                         *)
(* What the loop and the updates send goes into one outbound queue, which  *)
(* a task of its own empties (CommunicationManager, comm.py).  A packet in *)
(* the queue is not touched any more: not by a change of plans, and not    *)
(* when the update that has made it ends.                                  *)
(***************************************************************************)
EXTENDS Integers, FiniteSets, Sequences

CONSTANTS
  Drones,
  Times,      \* start times, as the drones store them
  Methods,    \* start methods that users choose
  Workers,    \* capacity of the limiter: updates that run at a time
  MaxOutbound \* bound on the packets that have not been sent yet

ASSUME DronesAssumption == IsFiniteSet(Drones)
ASSUME WorkersAssumption == Workers \in Nat \ {0}
ASSUME OutboundAssumption == MaxOutbound \in Nat
ASSUME MethodsAssumption == Methods \subseteq {"auto", "rc"}

Cleared == "cleared"       \* no start time
Keep == "keep"             \* the start time is not to be touched
NoConfig == [method |-> "none", authorized |-> FALSE]
NoPlan == [authorized |-> FALSE, time |-> "none"]
Absent == [step |-> "absent", want |-> NoPlan]   \* no update is under way
Queued == [step |-> "queued", want |-> NoPlan]   \* one waits for its turn

ASSUME TimesAssumption == {Cleared, Keep, "none"} \cap Times = {}

VARIABLES
  config,      \* the configuration of the show that the manager knows of
  startTime,   \* the start time that the show clock asks for
  plan,        \* what the loop compares the drones with, while it broadcasts
  outbound,    \* packets in the outbound queue or whose sender waits for a
               \* place in it, in order; the first is being sent
  drone,       \* what each drone has
  known,       \* what each drone has last reported
  connected,   \* drones that are not considered as disconnected
  task,        \* the update of each drone
  recent,      \* drones updated in the last three seconds, as far as remembered
  backlog,     \* history: how many packets are left of those that were there
               \* at the last change
  late         \* history: drones that were given, by packets made since the
               \* last change, what was not asked for any more

takeoffVars == <<config, startTime, plan, outbound, drone, known, connected, task, recent,
                 backlog, late>>
takeoffHistory == <<backlog, late>>

Config == [method : Methods, authorized : BOOLEAN]
TakeoffConfiguration == [authorized : BOOLEAN, time : Times \cup {Cleared, Keep}]
Setting == [authorized : BOOLEAN, time : Times \cup {Cleared}]
Packet == [to : SUBSET Drones, step : {"both", "time", "authorized"}, want : TakeoffConfiguration]
Update == [step : {"time", "authorized"}, want : TakeoffConfiguration]

TakeoffTypeOK ==
  /\ config \in Config \cup {NoConfig}
  /\ startTime \in Times \cup {Cleared}
  /\ plan \in TakeoffConfiguration \cup {NoPlan}
  /\ outbound \in Seq(Packet)
  /\ drone \in [Drones -> Setting]
  /\ known \in [Drones -> Setting]
  /\ connected \subseteq Drones
  /\ task \in [Drones -> Update \cup {Absent, Queued}]
  /\ recent \subseteq Drones
  /\ backlog \in 0 .. Len(outbound)
  /\ late \subseteq Drones

TakeoffInit ==
  /\ config = NoConfig /\ startTime = Cleared /\ plan = NoPlan /\ outbound = <<>>
  /\ drone \in [Drones -> Setting]
  /\ known = [u \in Drones |-> [authorized |-> FALSE, time |-> Cleared]]
  /\ connected = {} /\ recent = {} /\ backlog = 0 /\ late = {}
  /\ task = [u \in Drones |-> Absent]

(* What the drones should have according to a configuration.               *)
Desired(c, start) ==
  [authorized |-> c.authorized,
   time |-> IF c.method = "auto" THEN start
            ELSE IF c.authorized THEN Keep ELSE Cleared]

Wanted == Desired(config, startTime)

(* A setting, after a drone has taken a configuration packet.              *)
Configured(setting, want) ==
  [authorized |-> want.authorized,
   time |-> IF want.time = Keep THEN setting.time ELSE want.time]

(* A setting, after a drone has taken a packet: a configuration packet, or *)
(* one that sets one of the two parameters.                                *)
Written(setting, packet) ==
  IF packet.step = "both" THEN Configured(setting, packet.want)
  ELSE IF packet.step = "time" THEN [setting EXCEPT !.time = packet.want.time]
  ELSE [setting EXCEPT !.authorized = packet.want.authorized]

Running == {u \in Drones : task[u] \in Update}

(***************************************************************************)
(* The user, the show clock, the drones and the pilot.                     *)
(***************************************************************************)
(* From when on what was asked for before is out of date.                  *)
Changed ==
  IF Wanted' = Wanted THEN UNCHANGED takeoffHistory
  ELSE late' = {} /\ backlog' = Len(outbound)

(* Both kinds of changes make the manager forget who was updated recently. *)
NotifyConfigChanged(c) ==
  /\ config' = c
  /\ recent' = {}
  /\ UNCHANGED <<startTime, plan, outbound, drone, known, connected, task>>
  /\ Changed

NotifyStartTimeChanged(t) ==
  /\ startTime' = t
  /\ recent' = {}
  /\ UNCHANGED <<config, plan, outbound, drone, known, connected, task>>
  /\ Changed

(* A status packet of the drone arrives.                                   *)
HandleShowStatus(u) ==
  /\ known' = [known EXCEPT ![u] = drone[u]]
  /\ UNCHANGED <<config, startTime, plan, outbound, drone, connected, task, recent, takeoffHistory>>

(* Heartbeats stop or resume.                                              *)
NotifyConnection(u) ==
  /\ connected' = IF u \in connected THEN connected \ {u} ELSE connected \cup {u}
  /\ UNCHANGED <<config, startTime, plan, outbound, drone, known, task, recent, takeoffHistory>>

(* The pilot, to whom the start has been handed over, schedules it with    *)
(* the remote controller.                                                  *)
Pilot(u, t) ==
  /\ config.method = "rc" /\ config.authorized
  /\ drone' = [drone EXCEPT ![u].time = t]
  /\ UNCHANGED <<config, startTime, plan, outbound, known, connected, task, recent, takeoffHistory>>

(***************************************************************************)
(* The outbound queue.                                                     *)
(***************************************************************************)
Enqueue(packet) ==
  /\ Len(outbound) < MaxOutbound
  /\ outbound' = Append(outbound, packet)

(* The packet that is being sent reaches a drone to which it is addressed. *)
Deliver(u) ==
  /\ outbound # <<>>
  /\ LET packet == Head(outbound)
     IN  /\ u \in packet.to
         /\ drone' = [drone EXCEPT ![u] = Written(@, packet)]
         /\ late' = IF \/ backlog > 0
                       \/ Written(drone[u], packet)
                            = Written(drone[u], [packet EXCEPT !.want = Wanted])
                    THEN late ELSE late \cup {u}
  /\ UNCHANGED <<config, startTime, plan, outbound, known, connected, task, recent, backlog>>

(* It has been sent on all channels, and the drones that it has not        *)
(* reached will not get it.                                                *)
PacketSent ==
  /\ outbound # <<>>
  /\ outbound' = Tail(outbound)
  /\ backlog' = IF backlog > 0 THEN backlog - 1 ELSE 0
  /\ UNCHANGED <<config, startTime, plan, drone, known, connected, task, recent, late>>

(***************************************************************************)
(* The loop.                                                               *)
(***************************************************************************)
(* It makes a packet with the desired setting for all drones, but not when *)
(* the start time has passed, and waits for a place in the queue.          *)
Broadcast ==
  /\ config # NoConfig /\ plan = NoPlan
  /\ plan' = Wanted
  /\ \/ Enqueue([to |-> Drones, step |-> "both", want |-> Wanted])
     \/ Wanted.time \in Times /\ UNCHANGED outbound
  /\ UNCHANGED <<config, startTime, drone, known, connected, task, recent, takeoffHistory>>

\* Mutant: a drone that is to be cleared of its start time is never updated.
NeedsUpdate_SetOnly(setting, want) ==
  \/ setting.authorized # want.authorized
  \/ want.time \in Times /\ setting.time # want.time

NeedsUpdate(setting, want) ==
  \/ setting.authorized # want.authorized
  \/ want.time # Keep /\ setting.time # want.time

(* Once the packet has its place, though it need not have been sent, the   *)
(* loop looks for drones that need an update and have none, with the       *)
(* setting that is in the packet.                                          *)
Scan ==
  /\ plan # NoPlan
  /\ task' = [u \in Drones |->
                IF u \in connected \ recent /\ task[u] = Absent /\ NeedsUpdate(known[u], plan)
                THEN Queued ELSE task[u]]
  /\ plan' = NoPlan
  /\ UNCHANGED <<config, startTime, outbound, drone, known, connected, recent, takeoffHistory>>

(* Three seconds have passed since the last update of the drone.           *)
Age(u) ==
  /\ u \in recent
  /\ recent' = recent \ {u}
  /\ UNCHANGED <<config, startTime, plan, outbound, drone, known, connected, task, takeoffHistory>>

(***************************************************************************)
(* The updates.                                                            *)
(***************************************************************************)
(* The update of u is over; if it succeeded, that is remembered.           *)
Finish(u) ==
  /\ task' = [task EXCEPT ![u] = Absent]
  /\ recent' = recent \cup {u}

\* Mutant: updates begin whether or not the limiter has room.
Begin_Unlimited(u) ==
  /\ task[u] = Queued
  /\ LET Go(step) == /\ task' = [task EXCEPT ![u] = [step |-> step, want |-> Wanted]]
                     /\ UNCHANGED recent
     IN  \/ /\ Wanted.time \notin {Keep, known[u].time}
            /\ Go("time")
         \/ /\ Wanted.time \in {Keep, known[u].time}
            /\ Wanted.authorized # known[u].authorized
            /\ Go("authorized")
         \/ /\ ~NeedsUpdate(known[u], Wanted)
            /\ Finish(u)
  /\ UNCHANGED <<config, startTime, plan, outbound, drone, known, connected, takeoffHistory>>

(* An update gets its turn and decides what to do from the configuration   *)
(* of now: set the start time first, or the authorization, or nothing.     *)
Begin(u) ==
  /\ task[u] = Queued
  /\ Cardinality(Running) < Workers
  /\ LET Go(step) == /\ task' = [task EXCEPT ![u] = [step |-> step, want |-> Wanted]]
                     /\ UNCHANGED recent
     IN  \/ /\ Wanted.time \notin {Keep, known[u].time}
            /\ Go("time")
         \/ /\ Wanted.time \in {Keep, known[u].time}
            /\ Wanted.authorized # known[u].authorized
            /\ Go("authorized")
         \/ /\ ~NeedsUpdate(known[u], Wanted)
            /\ Finish(u)
  /\ UNCHANGED <<config, startTime, plan, outbound, drone, known, connected, takeoffHistory>>

(* The driver makes a packet that sets the parameter, which waits for a    *)
(* place in the queue.  That may happen long after the update began: the   *)
(* driver reads the parameter first, and it makes the packet again if      *)
(* there is no answer.  An update that gives up before its packet has a    *)
(* place takes it back, which is no different from one that is lost.       *)
SetParameter(u) ==
  /\ u \in Running
  /\ Enqueue([to |-> {u}, step |-> task[u].step, want |-> task[u].want])
  /\ UNCHANGED <<config, startTime, plan, drone, known, connected, task, recent, takeoffHistory>>

(* The driver takes a message about the parameter for the answer, which a  *)
(* late answer to the request to read it may be as well, so the drone need *)
(* not have taken anything.                                                *)
Answered(u) ==
  /\ u \in Running
  /\ IF task[u].step = "time" /\ task[u].want.authorized # known[u].authorized
     THEN task' = [task EXCEPT ![u].step = "authorized"] /\ UNCHANGED recent
     ELSE Finish(u)
  /\ UNCHANGED <<config, startTime, plan, outbound, drone, known, connected, takeoffHistory>>

(* The drone does not answer, or the update fails in another way.          *)
TimeOut(u) ==
  /\ u \in Running
  /\ task' = [task EXCEPT ![u] = Absent]
  /\ UNCHANGED <<config, startTime, plan, outbound, drone, known, connected, recent, takeoffHistory>>

TakeoffNext ==
  \/ \E c \in Config : NotifyConfigChanged(c)
  \/ \E t \in Times \cup {Cleared} : NotifyStartTimeChanged(t)
  \/ Broadcast \/ Scan \/ PacketSent
  \/ \E u \in Drones :
       \/ HandleShowStatus(u) \/ NotifyConnection(u)
       \/ \E t \in Times \cup {Cleared} : Pilot(u, t)
       \/ Deliver(u) \/ Age(u) \/ Begin(u) \/ SetParameter(u) \/ Answered(u) \/ TimeOut(u)

TakeoffSpec == TakeoffInit /\ [][TakeoffNext]_takeoffVars

(* The loop and the tasks keep running, also the one that sends, timeouts  *)
(* end every wait and drones keep reporting.  If a drone is updated again  *)
(* and again, its updates do not give up each time before they have set    *)
(* the parameter, and it gets one of the packets in the end.  Broadcasts   *)
(* may never reach a drone.                                                *)
FairTakeoffSpec ==
  /\ TakeoffSpec
  /\ WF_takeoffVars(Broadcast) /\ WF_takeoffVars(Scan) /\ WF_takeoffVars(PacketSent)
  /\ \A u \in Drones :
       /\ WF_takeoffVars(HandleShowStatus(u)) /\ WF_takeoffVars(Age(u))
       /\ SF_takeoffVars(Begin(u))
       /\ []<>(u \in Running) => []<><<SetParameter(u)>>_takeoffVars
       /\ SF_takeoffVars(Deliver(u) /\ Head(outbound).step # "both" /\ drone'[u] # drone[u])
       /\ WF_takeoffVars(Answered(u) \/ TimeOut(u))

(***************************************************************************)
(* Properties.                                                             *)
(***************************************************************************)
(* When the user revokes an authorization, moves the start or hands it to  *)
(* the pilot, packets in the outbound queue may still give the former      *)
(* setting to any number of drones.  But of the packets made afterwards,   *)
(* few drones get it, no matter how many are queued for an update and how  *)
(* late the packets are sent: no more than updates run at a time, though   *)
(* other updates may have begun and ended meanwhile.                       *)
FewLate == Cardinality(late) <= Workers

Obeys(u) == config = NoConfig \/ drone[u] = Configured(drone[u], Wanted)

(* A drone that stays connected gets what the configuration asks for,      *)
(* unless that changes again and again, in spite of lost packets, packets  *)
(* and updates from before the last change, and answers that are taken for *)
(* other ones.                                                             *)
Followed ==
  \A u \in Drones :
    \/ []<>(Obeys(u) \/ u \notin connected)
    \/ []<><<Wanted' # Wanted>>_takeoffVars
=============================================================================
