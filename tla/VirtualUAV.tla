----------------------------- MODULE VirtualUAV -----------------------------
(***************************************************************************)
(* The virtual drones of ext/virtual_uavs: the state machine of a drone    *)
(* and the step that moves it (driver.py), the loop that boots and reboots *)
(* it (extension.py), and the signals that operators send to it.           *)
(*                                                                         *)
(* A step moves a drone by at most one unit of altitude and takes one unit *)
(* of time; horizontally a drone is at one of a few places.  The take-off, *)
(* landing and hover signals sleep before they look at the drone, so each  *)
(* is the one action that follows the sleep.                               *)
(***************************************************************************)
EXTENDS Integers, Sequences

CONSTANTS
  Uavs,
  Places, Home,       \* horizontal positions, and where a drone starts
  MaxAltitude,        \* bound: the highest altitude above home
  TakeoffAltitude,    \* takeoff_altitude
  Shows, Path,        \* shows with a trajectory, and their trajectories
  TakeoffTime,        \* when the trajectories start, after the take-off
  BootsArmed,         \* boots_armed
  MaxTimers,          \* bound: initialization timers pending at a time
  MaxFlights          \* bound: fly-to requests

Altitudes == 0 .. MaxAltitude
Points == [place : Places, z : Altitudes]

ASSUME ConstantsAssumption ==
  /\ Home \in Places
  /\ MaxAltitude \in Nat /\ TakeoffAltitude \in 1 .. MaxAltitude
  /\ Path \in [Shows -> Seq(Points) \ {<< >>}]
  /\ TakeoffTime \in Nat
  /\ BootsArmed \in BOOLEAN
  /\ MaxTimers \in Nat /\ MaxFlights \in Nat

NoTarget == [place |-> "nowhere", z |-> -1]
NoShow == "no show"
NotStarted == -1
Keep == -1            \* a target without altitude

ASSUME NamesAssumption == NoShow \notin Shows

VARIABLES
  uav,      \* the VirtualUAV objects
  initializing,  \* _autopilot_initializing of each of them
  power,    \* where run_single_boot() and the loop around it are
  request,  \* _shutdown_reason, until the loop notices the cancellation
  timers,   \* pending calls of _notify_autopilot_initialized()
  flights   \* fly-to requests so far

vars == <<uav, initializing, power, request, timers, flights>>

States == {"LANDED", "TAKEOFF", "AIRBORNE", "LANDING"}

UavRecord ==
  [state : States, armed : BOOLEAN, motors : BOOLEAN, testing : BOOLEAN,
   place : Places, z : Altitudes,
   target : Points \cup {NoTarget}, rth : BOOLEAN,
   show : Shows \cup {NoShow},        \* _trajectory
   player : Shows \cup {NoShow},      \* what _trajectory_player plays
   ended : BOOLEAN,                   \* whether it has played the end
   clock : Nat \cup {NotStarted},     \* elapsed_time_in_mission
   lights : {"none", "loaded", "playing"}]

TypeOK ==
  /\ uav \in [Uavs -> UavRecord]
  /\ initializing \in [Uavs -> BOOLEAN]
  /\ power \in [Uavs -> {"booting", "running", "off"}]
  /\ request \in [Uavs -> {"none", "reset", "shutdown"}]
  /\ timers \in [Uavs -> Nat]
  /\ flights \in 0 .. MaxFlights

(* A drone as create_uav() leaves it: armed until its first boot is over.  *)
NewUav ==
  [state |-> "LANDED", armed |-> TRUE, motors |-> FALSE, testing |-> FALSE,
   place |-> Home, z |-> 0,
   target |-> [place |-> Home, z |-> 0], rth |-> FALSE,
   show |-> NoShow, player |-> NoShow, ended |-> FALSE,
   clock |-> NotStarted, lights |-> "none"]

Init ==
  /\ uav = [u \in Uavs |-> NewUav]
  /\ initializing = [u \in Uavs |-> FALSE]
  /\ power = [u \in Uavs |-> "booting"]
  /\ request = [u \in Uavs |-> "none"]
  /\ timers = [u \in Uavs |-> 0]
  /\ flights = 0

(***************************************************************************)
(* The setters and methods of a drone.                                     *)
(***************************************************************************)
(* stop_trajectory(): forgets the trajectory only if it is being played.   *)
TrajectoryStopped(v) ==
  IF v.player = NoShow THEN v ELSE [v EXCEPT !.show = NoShow, !.player = NoShow]

(* The target is set; that ends a return to home.                          *)
WithTarget(v, target) == [v EXCEPT !.target = target, !.rth = FALSE]

\* Mutant: the light program is not stopped when the drone has landed.
Landed_KeepsLights(v) == [v EXCEPT !.state = "LANDED", !.rth = FALSE, !.motors = FALSE]

(* The state becomes LANDED: lights and motors stop.                       *)
Landed(v) ==
  [v EXCEPT !.state = "LANDED", !.rth = FALSE, !.motors = FALSE,
            !.lights = IF @ = "playing" THEN "loaded" ELSE @]

(* The state of a landed drone becomes TAKEOFF: it starts to play its      *)
(* trajectory, if it has one, and its light program.                       *)
TakenOff(v) ==
  [v EXCEPT !.state = "TAKEOFF", !.rth = FALSE, !.motors = TRUE,
            !.player = IF v.show # NoShow THEN v.show ELSE @,
            !.ended = IF v.show # NoShow THEN FALSE ELSE @,
            !.lights = IF @ = "none" THEN @ ELSE "playing"]

(* The state becomes AIRBORNE: only a take-off keeps the trajectory.       *)
Airborne(v) ==
  LET flying == [v EXCEPT !.state = "AIRBORNE", !.rth = FALSE, !.motors = TRUE]
  IN CASE v.state = "AIRBORNE" -> v
       [] v.state = "TAKEOFF" -> flying
       [] OTHER -> TrajectoryStopped(flying)

(* takeoff().                                                              *)
Takeoff(v) ==
  IF v.state # "LANDED" \/ ~v.armed THEN v
  ELSE TakenOff([v EXCEPT !.clock = 0,
         !.target = [place |-> IF @ = NoTarget THEN v.place ELSE @.place,
                     z |-> TakeoffAltitude]])

(* land().                                                                 *)
Land(v) ==
  IF v.state # "AIRBORNE" THEN v
  ELSE [v EXCEPT !.state = "LANDING", !.rth = FALSE, !.motors = TRUE,
         !.target = [place |-> IF @ = NoTarget THEN v.place ELSE @.place, z |-> 0]]

(* hold_position() writes the target past its setter.                      *)
HoldPosition(v) ==
  IF v.state = "LANDED" THEN v
  ELSE Airborne([TrajectoryStopped(v) EXCEPT
                   !.target = [place |-> v.place, z |-> v.z]])

\* Mutant: the motors stop whatever the drone does.
MotorsStopped_AnyTime(v) == [v EXCEPT !.motors = FALSE]

(* stop_motors().                                                          *)
MotorsStopped(v) == IF v.state = "LANDED" THEN [v EXCEPT !.motors = FALSE] ELSE v

(***************************************************************************)
(* step().                                                                 *)
(***************************************************************************)
BeforeTakeoff(v) == v.clock < TakeoffTime

(* The point of the trajectory at the time of the clock.                   *)
PlayedPoint(v) ==
  LET path == Path[v.player]
      i == v.clock - TakeoffTime + 1
  IN path[IF i > Len(path) THEN Len(path) ELSE i]

(* _update_target_from_trajectory(), for a drone that is not landing.      *)
Followed(v) ==
  IF v.state \notin {"TAKEOFF", "AIRBORNE"} \/ v.player = NoShow \/ v.clock = NotStarted
    THEN v
  ELSE IF v.ended THEN Land(v)
  ELSE IF BeforeTakeoff(v) THEN v
  ELSE [WithTarget(v, PlayedPoint(v)) EXCEPT
          !.ended = v.clock - TakeoffTime >= Len(Path[v.player])]

(* One unit towards the altitude of the target.                            *)
Climbed(z, goal) == IF goal > z THEN z + 1 ELSE IF goal < z THEN z - 1 ELSE z

\* Mutant: a landing drone is not taken for landed when it is down.
Moved_NeverLands(state, v) ==
  IF v.target = NoTarget THEN v
  ELSE
    LET waits == state = "TAKEOFF" /\ v.player # NoShow /\ BeforeTakeoff(v)
        goal == IF waits THEN v.z ELSE v.target.z
        away == state = "AIRBORNE" /\ v.place # v.target.place
        w == [v EXCEPT !.z = Climbed(@, goal),
                       !.place = IF away THEN v.target.place ELSE @]
    IN CASE state = "TAKEOFF" /\ w.z >= TakeoffAltitude -> Airborne(w)
         [] state = "AIRBORNE" /\ v.z = goal /\ ~away -> WithTarget(w, NoTarget)
         [] OTHER -> w

(* The movement towards the target and its consequences.  "state" is the   *)
(* one that step() remembers from its start; the distances are those from  *)
(* before the movement.                                                    *)
Moved(state, v) ==
  IF v.target = NoTarget THEN v
  ELSE
    LET waits == state = "TAKEOFF" /\ v.player # NoShow /\ BeforeTakeoff(v)
        goal == IF waits THEN v.z ELSE v.target.z
        away == state = "AIRBORNE" /\ v.place # v.target.place
        w == [v EXCEPT !.z = Climbed(@, goal),
                       !.place = IF away THEN v.target.place ELSE @]
    IN CASE state = "TAKEOFF" /\ w.z >= TakeoffAltitude -> Airborne(w)
         [] state = "LANDING" /\ v.z = goal ->
              [WithTarget(Landed(w), NoTarget) EXCEPT !.clock = NotStarted]
         [] state = "AIRBORNE" /\ v.z = goal /\ ~away -> WithTarget(w, NoTarget)
         [] OTHER -> w

(* The clock is not told apart any more once all trajectories are over.    *)
Later(v) ==
  IF v.clock = NotStarted \/ v.player = NoShow THEN v
  ELSE IF v.clock > TakeoffTime + Len(Path[v.player]) THEN v
  ELSE [v EXCEPT !.clock = @ + 1]

(* A periodic step; one may still come after the loop was cancelled.  The  *)
(* light program may turn out to be over.                                  *)
Step(u, dark) ==
  /\ power[u] = "running"
  /\ LET v == Later(Moved(uav[u].state, Followed(uav[u])))
     IN uav' = [uav EXCEPT ![u] =
          [v EXCEPT !.lights = IF dark /\ @ = "playing" THEN "loaded" ELSE @]]
  /\ UNCHANGED <<initializing, power, request, timers, flights>>

(***************************************************************************)
(* Booting and shutting down.                                              *)
(***************************************************************************)
\* Mutant: the timer of the boot is not started.
Boot_NoTimer(u) ==
  /\ power[u] = "booting" /\ timers[u] < MaxTimers
  /\ power' = [power EXCEPT ![u] = "running"]
  /\ uav' = [uav EXCEPT ![u] = [@ EXCEPT !.armed = BootsArmed,
                                  !.show = NoShow, !.player = NoShow]]
  /\ initializing' = [initializing EXCEPT ![u] = TRUE]
  /\ UNCHANGED <<request, timers, flights>>

(* _notify_booted(), after the boot delay.                                 *)
Boot(u) ==
  /\ power[u] = "booting" /\ timers[u] < MaxTimers
  /\ power' = [power EXCEPT ![u] = "running"]
  /\ timers' = [timers EXCEPT ![u] = @ + 1]
  /\ uav' = [uav EXCEPT ![u] = [@ EXCEPT !.armed = BootsArmed,
                                  !.show = NoShow, !.player = NoShow]]
  /\ initializing' = [initializing EXCEPT ![u] = TRUE]
  /\ UNCHANGED <<request, flights>>

(* _notify_autopilot_initialized(); the timer may be that of an earlier    *)
(* boot, as nothing stops it.                                              *)
AutopilotInitialized(u) ==
  /\ timers[u] > 0
  /\ timers' = [timers EXCEPT ![u] = @ - 1]
  /\ initializing' = [initializing EXCEPT ![u] = FALSE]
  /\ UNCHANGED <<uav, power, request, flights>>

(* The loop of run_single_boot() is cancelled; after a reset the drone     *)
(* boots again, after a shutdown it leaves the object registry.            *)
Shutdown(u) ==
  /\ power[u] = "running" /\ request[u] # "none"
  /\ power' = [power EXCEPT ![u] = IF request[u] = "reset" THEN "booting" ELSE "off"]
  /\ request' = [request EXCEPT ![u] = "none"]
  /\ initializing' = [initializing EXCEPT ![u] = FALSE]
  /\ UNCHANGED <<uav, timers, flights>>

(***************************************************************************)
(* Signals and commands.                                                   *)
(***************************************************************************)
(* The request is for a registered drone and makes v of it.                *)
Handled(u, v) ==
  /\ power[u] # "off" /\ v # uav[u]
  /\ uav' = [uav EXCEPT ![u] = v]
  /\ UNCHANGED <<initializing, power, request, timers, flights>>

SendTakeoff(u) == Handled(u, Takeoff(uav[u]))
SendLanding(u) == Handled(u, Land(uav[u]))
SendHover(u) == Handled(u, HoldPosition(uav[u]))

SetArmed(u, armed) ==
  uav[u].state = "LANDED" /\ Handled(u, [uav[u] EXCEPT !.armed = armed])

SendMotor(u, start) ==
  Handled(u, IF start THEN [uav[u] EXCEPT !.motors = TRUE] ELSE MotorsStopped(uav[u]))

(* The "test motor" command and its end three seconds later, which does    *)
(* not come if the command is cancelled.                                   *)
TestMotors(u) ==
  ~uav[u].testing /\ Handled(u, [uav[u] EXCEPT !.testing = TRUE, !.motors = TRUE])

TestEnds(u, cancelled) ==
  /\ uav[u].testing
  /\ LET v == [uav[u] EXCEPT !.testing = FALSE]
     IN uav' = [uav EXCEPT ![u] = IF cancelled THEN v ELSE MotorsStopped(v)]
  /\ UNCHANGED <<initializing, power, request, timers, flights>>

(* Return to home, at the present altitude.                                *)
ReturnToHome(u) ==
  /\ uav[u].state = "AIRBORNE"
  /\ Handled(u, [WithTarget(TrajectoryStopped(uav[u]), [place |-> Home, z |-> uav[u].z])
                   EXCEPT !.rth = TRUE])

(* The show may have no trajectory, but it always has a light program.     *)
UploadShow(u, show) ==
  /\ uav[u].state = "LANDED"
  /\ Handled(u, [uav[u] EXCEPT !.show = show, !.lights = "loaded"])

(* A request of one or more drones to fly to a place.  They share the      *)
(* target object, so its altitude, if missing, is the one that the first   *)
(* of them fills in: its own, or that of a take-off if it is landed.       *)
FlyTo(group, first, place, altitude) ==
  /\ flights < MaxFlights
  /\ \A u \in group : power[u] # "off"
  /\ LET z == IF altitude # Keep THEN altitude
              ELSE IF uav[first].state = "LANDED" THEN TakeoffAltitude
              ELSE uav[first].z
     IN uav' = [u \in Uavs |->
          IF u \in group
          THEN WithTarget(TrajectoryStopped(Takeoff(uav[u])), [place |-> place, z |-> z])
          ELSE uav[u]]
  /\ flights' = flights + 1
  /\ UNCHANGED <<initializing, power, request, timers>>

(* reset() and shutdown(): the last one that comes before the loop notices *)
(* is what counts.                                                         *)
RequestShutdown(u, reason) ==
  /\ power[u] = "running" /\ request[u] # reason
  /\ request' = [request EXCEPT ![u] = reason]
  /\ UNCHANGED <<uav, initializing, power, timers, flights>>

Next ==
  \/ \E u \in Uavs :
        \/ \E b \in BOOLEAN : \/ Step(u, b) \/ SetArmed(u, b)
                             \/ SendMotor(u, b) \/ TestEnds(u, b)
        \/ Boot(u) \/ AutopilotInitialized(u) \/ Shutdown(u)
        \/ SendTakeoff(u) \/ SendLanding(u) \/ SendHover(u)
        \/ TestMotors(u) \/ ReturnToHome(u)
        \/ \E show \in Shows \cup {NoShow} : UploadShow(u, show)
        \/ \E reason \in {"reset", "shutdown"} : RequestShutdown(u, reason)
  \/ \E group \in SUBSET Uavs : \E first \in group :
        \E place \in Places, altitude \in Altitudes \cup {Keep} :
           FlyTo(group, first, place, altitude)

Spec == Init /\ [][Next]_vars

(* The periodic steps and the boot loop keep running.                      *)
FairSpec ==
  /\ Spec
  /\ \A u \in Uavs : /\ WF_vars(\E b \in BOOLEAN : Step(u, b))
                     /\ WF_vars(Shutdown(u)) /\ WF_vars(Boot(u))
                     /\ WF_vars(AutopilotInitialized(u))

(***************************************************************************)
(* Properties.                                                             *)
(***************************************************************************)
(* The motors of a drone run whenever it is not on the ground, whoever     *)
(* stops them and whenever: the operator, the end of a motor test, or the  *)
(* landing that precedes the next take-off.                                *)
MotorsRunInFlight ==
  \A u \in Uavs : uav[u].state # "LANDED" => uav[u].motors

(* What belongs to a flight ends with it: the mission clock runs exactly   *)
(* while the drone is not landed, the light program is played only then,   *)
(* and "returning to home" is shown only by an airborne drone on its way.  *)
FlightsEnd ==
  \A u \in Uavs :
    /\ uav[u].clock # NotStarted <=> uav[u].state # "LANDED"
    /\ uav[u].lights = "playing" => uav[u].state # "LANDED"
    /\ uav[u].rth => uav[u].state = "AIRBORNE" /\ uav[u].target # NoTarget

(* The "autopilot initializing" error code is shown by a running drone     *)
(* only, and some timer is left to clear it, across any number of reboots. *)
InitializationEnds ==
  \A u \in Uavs : initializing[u] => power[u] = "running" /\ timers[u] > 0

(* A landing drone with a target comes down, unless it is rebooted or told *)
(* to hold its position.                                                   *)
LandingEnds ==
  \A u \in Uavs :
    (uav[u].state = "LANDING" /\ uav[u].target # NoTarget /\ power[u] = "running")
      ~> (uav[u].state # "LANDING" \/ power[u] # "running")

(* A drone that is airborne on its trajectory starts to land at its end.   *)
ShowsEnd ==
  \A u \in Uavs :
    (uav[u].state = "AIRBORNE" /\ uav[u].player # NoShow /\ power[u] = "running")
      ~> \/ uav[u].state # "AIRBORNE" \/ uav[u].player = NoShow
         \/ power[u] # "running"

(* No flight goes on for ever that should come to its end: landings and    *)
(* shows do, whatever the drone is told on the way.                        *)
FlightsFinish == LandingEnds /\ ShowsEnd
=============================================================================
