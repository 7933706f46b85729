----------------------------- MODULE MAVLinkDrone -----------------------------
(***************************************************************************)
(* What the server knows of one MAVLink drone, and how it makes the drone  *)
(* send what it needs to know (driver.py, tasks.py, network.py).           *)
(*                                                                         *)
(* Heartbeats decide on the state of the connection.  When they arrive but *)
(* SYS_STATUS does not, a background task sets the intervals of three      *)
(* messages, one command after the other; a command is sent again until an *)
(* acknowledgment of that kind of command arrives, for whichever message   *)
(* and for whichever task it was meant.                                    *)
(***************************************************************************)
EXTENDS Integers, FiniteSets

CONSTANTS
  Tasks,          \* bound: configuration tasks that run at a time
  CommandRetries, \* how many times a command is sent again
  MaxAcks         \* bound: acknowledgments in flight; others are lost

ASSUME TasksAssumption == IsFiniteSet(Tasks)
ASSUME CommandRetriesAssumption == CommandRetries \in Nat
ASSUME MaxAcksAssumption == MaxAcks \in Nat

(* The messages in the order in which they are set: SYS_STATUS,            *)
(* GPS_RAW_INT, GLOBAL_POSITION_INT.                                       *)
Streams == 1 .. 3
Status == 1

VARIABLES
  power,       \* the flight controller of the drone; asleep, it has others
               \* send heartbeats in its name
  modern,      \* whether it can set intervals one by one
  streams,     \* the messages that the drone sends regularly
  acks,        \* acknowledgments of commands to set an interval, in flight
  link,        \* the connection state
  heartbeat,   \* the last heartbeat: how long ago, and from which state
  silent,      \* SYS_STATUS has not been seen for more than five seconds
  attempted,   \* less than five seconds ago the streams were to be configured
  command,     \* the command that each task waits for, and the attempts left
  rebooted     \* the drone was rebooted by us less than a second ago

droneVars == <<power, modern, streams, acks, link, heartbeat, silent, attempted,
          command, rebooted>>

Heartbeat == [age : {"below 2", "below 5", "old"}, awake : BOOLEAN]
NoTask == [stream |-> 0, tries |-> 0]
Task == [stream : Streams, tries : 0 .. CommandRetries]

DroneTypeOK ==
  /\ power \in {"off", "asleep", "on"}
  /\ modern \in BOOLEAN
  /\ streams \subseteq Streams
  /\ acks \in 0 .. MaxAcks
  /\ link \in {"disconnected", "sleeping", "connected"}
  /\ heartbeat \in Heartbeat
  /\ silent \in BOOLEAN
  /\ attempted \in BOOLEAN
  /\ command \in [Tasks -> Task \cup {NoTask}]
  /\ rebooted \in BOOLEAN

DroneInit ==
  /\ power \in {"off", "on"} /\ modern \in BOOLEAN /\ streams = {} /\ acks = 0
  /\ link = "disconnected"
  /\ heartbeat = [age |-> "old", awake |-> FALSE]
  /\ silent = TRUE /\ attempted = FALSE
  /\ command = [t \in Tasks |-> NoTask]
  /\ rebooted = FALSE

server == <<link, heartbeat, silent, attempted, command>>

(***************************************************************************)
(* The drone.                                                              *)
(***************************************************************************)
(* It is switched on or off, falls asleep, or starts again by itself.      *)
Switch(state) ==
  /\ power' = state
  /\ streams' = {}
  /\ UNCHANGED <<modern, acks, rebooted, server>>

(* Each task in senders sends a command; those of the tasks in received    *)
(* reach the drone, which answers each of them and obeys or refuses.  One  *)
(* that does not know the command says so.                                 *)
Send(senders, left) ==
  \E received \in SUBSET senders : \E obeyed \in SUBSET received :
    /\ received # {} => power = "on"
    /\ obeyed # {} => modern
    /\ streams' = streams \cup {command'[t].stream : t \in obeyed}
    /\ LET n == left + Cardinality(received)
       IN  acks' = IF n < MaxAcks THEN n ELSE MaxAcks

(* An acknowledgment is lost on its way.                                   *)
LoseAck ==
  /\ acks > 0
  /\ acks' = acks - 1
  /\ UNCHANGED <<power, modern, streams, rebooted, server>>

(***************************************************************************)
(* The state of the connection.                                            *)
(***************************************************************************)
(* A task begins by sending the first command.                             *)
Start(t) ==
  /\ command[t] = NoTask
  /\ command' = [command EXCEPT ![t] = [stream |-> Status, tries |-> CommandRetries]]
  /\ Send({t}, acks)

ConfigureDataStreams ==
  /\ attempted' = TRUE
  /\ \E t \in Tasks : Start(t)

\* Mutant: the streams are configured only when the drone connects.
MustConfigure_AtConnection == link # "connected" /\ silent /\ ~attempted

(* Heartbeats arrive one after the other, but no SYS_STATUS does.          *)
MustConfigure == heartbeat.age = "below 2" /\ silent /\ ~attempted

\* Mutant: a heartbeat counts only for drones that are disconnected.
HandleHeartbeat_Lost ==
  /\ power = "on"
  /\ heartbeat' = [age |-> "below 2", awake |-> TRUE]
  /\ link' = IF link = "disconnected" THEN "connected" ELSE link
  /\ \/ /\ MustConfigure
        /\ ConfigureDataStreams
     \/ /\ ~MustConfigure \/ (\A t \in Tasks : command[t] # NoTask)
        /\ UNCHANGED <<streams, acks, attempted, command>>
  /\ UNCHANGED <<power, modern, silent, rebooted>>

(* A heartbeat arrives while the drone can communicate.                    *)
HandleHeartbeat ==
  /\ power = "on"
  /\ heartbeat' = [age |-> "below 2", awake |-> TRUE]
  /\ link' = "connected"
  /\ \/ /\ MustConfigure
        /\ ConfigureDataStreams
     \/ /\ ~MustConfigure \/ (\A t \in Tasks : command[t] # NoTask)
        /\ UNCHANGED <<streams, acks, attempted, command>>
  /\ UNCHANGED <<power, modern, silent, rebooted>>

(* One that says that it cannot is kept and does nothing else.             *)
HandleSleepingHeartbeat ==
  /\ power = "asleep"
  /\ heartbeat' = [age |-> "below 2", awake |-> FALSE]
  /\ UNCHANGED <<power, modern, streams, acks, link, silent, attempted, command, rebooted>>

HandleSysStatus ==
  /\ power = "on" /\ Status \in streams
  /\ silent' = FALSE
  /\ UNCHANGED <<power, modern, streams, acks, link, heartbeat, attempted, command, rebooted>>

\* Mutant: whatever heartbeat is there makes the drone connected.
CheckAlive_AnyHeartbeat ==
  /\ link' = IF heartbeat.age = "old" THEN "disconnected"
             ELSE IF link = "disconnected" THEN "connected" ELSE link
  /\ UNCHANGED <<power, modern, streams, acks, heartbeat, silent, attempted, command, rebooted>>

(* Every half second the age of the last heartbeat is looked at.           *)
CheckAlive ==
  /\ link' = IF link # "disconnected"
             THEN IF heartbeat.age = "old" THEN "disconnected" ELSE link
             ELSE IF heartbeat.age = "old" THEN link
             ELSE IF heartbeat.awake THEN "connected" ELSE "sleeping"
  /\ UNCHANGED <<power, modern, streams, acks, heartbeat, silent, attempted, command, rebooted>>

(* A user reboots the drone; a second after it has acknowledged that it is *)
(* declared disconnected.                                                  *)
Reboot ==
  /\ power = "on"
  /\ streams' = {}
  /\ rebooted' = TRUE
  /\ UNCHANGED <<power, modern, acks, server>>

NotifyRebooted ==
  /\ rebooted
  /\ rebooted' = FALSE
  /\ link' = "disconnected"
  /\ UNCHANGED <<power, modern, streams, acks, heartbeat, silent, attempted, command>>

(* Time passes.                                                            *)
AgeHeartbeat ==
  /\ heartbeat.age # "old"
  /\ heartbeat' = [heartbeat EXCEPT !.age = IF @ = "below 2" THEN "below 5" ELSE "old"]
  /\ UNCHANGED <<power, modern, streams, acks, link, silent, attempted, command, rebooted>>

AgeStatus ==
  /\ ~silent
  /\ silent' = TRUE
  /\ UNCHANGED <<power, modern, streams, acks, link, heartbeat, attempted, command, rebooted>>

AgeAttempt ==
  /\ attempted
  /\ attempted' = FALSE
  /\ UNCHANGED <<power, modern, streams, acks, link, heartbeat, silent, command, rebooted>>

(***************************************************************************)
(* The tasks that configure the streams.                                   *)
(***************************************************************************)
Waiting == {t \in Tasks : command[t] # NoTask}

(* A command is answered, be it obeyed or not: the next one follows.       *)
Advanced(k) ==
  IF k.stream = 3 THEN NoTask ELSE [stream |-> k.stream + 1, tries |-> CommandRetries]

(* One acknowledgment arrives for all tasks that wait.  The commands that  *)
(* they send next reach the drone or are lost.                             *)
HandleAck ==
  /\ acks > 0 /\ modern
  /\ command' = [t \in Tasks |-> IF t \in Waiting THEN Advanced(command[t]) ELSE command[t]]
  /\ Send({t \in Waiting : command[t].stream # 3}, acks - 1)
  /\ UNCHANGED <<power, modern, link, heartbeat, silent, attempted, rebooted>>

(* The command is not supported: tasks send legacy ones instead, for no    *)
(* messages, then for the first two and then for the third one, and do not *)
(* wait for answers.                                                       *)
HandleUnsupported ==
  /\ acks > 0 /\ ~modern
  /\ acks' = acks - 1
  /\ command' = [t \in Tasks |-> NoTask]
  /\ \E received \in SUBSET {"none", "extended status", "position"} :
       /\ received # {} => power = "on" /\ Waiting # {}
       /\ streams' = (IF "none" \in received THEN {} ELSE streams)
                       \cup (IF "extended status" \in received THEN {1, 2} ELSE {})
                       \cup (IF "position" \in received THEN {3} ELSE {})
  /\ UNCHANGED <<power, modern, link, heartbeat, silent, attempted, rebooted>>

(* None arrives in time: the command is sent again.                        *)
Retry(t) ==
  /\ t \in Waiting /\ command[t].tries > 0
  /\ command' = [command EXCEPT ![t].tries = @ - 1]
  /\ Send({t}, acks)
  /\ UNCHANGED <<power, modern, link, heartbeat, silent, attempted, rebooted>>

(* All attempts are used up, or a minute has passed: the task gives up.    *)
GiveUp(t) ==
  /\ t \in Waiting
  /\ command' = [command EXCEPT ![t] = NoTask]
  /\ UNCHANGED <<power, modern, streams, acks, link, heartbeat, silent, attempted, rebooted>>

DroneNext ==
  \/ \E state \in {"off", "asleep", "on"} : Switch(state)
  \/ LoseAck
  \/ HandleHeartbeat \/ HandleSleepingHeartbeat \/ HandleSysStatus
  \/ CheckAlive \/ Reboot \/ NotifyRebooted
  \/ AgeHeartbeat \/ AgeStatus \/ AgeAttempt
  \/ HandleAck \/ HandleUnsupported
  \/ \E t \in Tasks : Retry(t) \/ GiveUp(t)

DroneSpec == DroneInit /\ [][DroneNext]_droneVars

(* The check runs for ever and tasks end.  The clock ticks; a drone that   *)
(* is on sends heartbeats, and again and again two of them arrive in time, *)
(* some of the commands for SYS_STATUS reach it and some are answered.     *)
Commands == HandleHeartbeat \/ HandleAck \/ HandleUnsupported \/ \E t \in Tasks : Retry(t)

FairDroneSpec ==
  /\ DroneSpec
  /\ WF_droneVars(CheckAlive) /\ WF_droneVars(NotifyRebooted)
  /\ WF_droneVars(AgeHeartbeat /\ power = "off") /\ WF_droneVars(AgeStatus /\ Status \notin streams)
  /\ WF_droneVars(AgeAttempt)
  /\ WF_droneVars(HandleHeartbeat) /\ SF_droneVars(MustConfigure /\ HandleHeartbeat)
  /\ SF_droneVars(power = "on" /\ Status \notin streams /\ Commands /\ Status \in streams')
  /\ SF_droneVars(power = "on" /\ acks < MaxAcks /\ Commands /\ acks' > acks)
  /\ \A t \in Tasks : WF_droneVars(GiveUp(t))

(***************************************************************************)
(* Properties.                                                             *)
(***************************************************************************)
(* A drone becomes connected only if it was heard within five seconds and  *)
(* the last it said is that it can communicate; it counts as sleeping only *)
(* as long as the last it said is that it cannot; and it is given up only  *)
(* if it was not heard for five seconds or was rebooted by us.             *)
LinkHasReason ==
  [][/\ link # "connected" /\ link' = "connected" => heartbeat'.awake /\ heartbeat'.age # "old"
     /\ link' = "sleeping" => ~heartbeat'.awake
     /\ link # "disconnected" /\ link' = "disconnected" => heartbeat.age = "old" \/ rebooted
    ]_droneVars

(* A drone that is switched off is noticed, asleep or not before; one that *)
(* is on is connected in the end, even if it was declared disconnected     *)
(* after it had come back from a reboot.                                   *)
PowerNoticed ==
  /\ (power = "off") ~> (link = "disconnected" \/ power # "off")
  /\ (power = "on" /\ ~rebooted) ~> (link = "connected" \/ power # "on")

(* The streams are configured again until SYS_STATUS is sent.              *)
StatusResumes == (power = "on") ~> (Status \in streams \/ power # "on")
=============================================================================
