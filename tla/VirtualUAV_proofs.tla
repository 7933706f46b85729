------------------------- MODULE VirtualUAV_proofs --------------------------
(***************************************************************************)
(* Proofs about VirtualUAV.  Every action but those of the boot loop makes *)
(* one record of a drone out of another one, so the proofs are about the   *)
(* set of records that are fit: of the right type, and with everything     *)
(* that belongs to a flight in step with the state of the drone.           *)
(***************************************************************************)
EXTENDS VirtualUAV, TLAPS

Flight(v) ==
  /\ v.state # "LANDED" => v.motors = TRUE
  /\ v.clock # NotStarted <=> v.state # "LANDED"
  /\ v.lights = "playing" => v.state # "LANDED"
  /\ v.rth = TRUE => v.state = "AIRBORNE" /\ v.target # NoTarget

Fit == {v \in UavRecord : Flight(v)}

(***************************************************************************)
(* The operators on records.                                               *)
(***************************************************************************)
(* A point is a target, and never the missing one.                         *)
LEMMA PointsAreTargets ==
  \A t \in Points : t \in Points \cup {NoTarget} /\ t # NoTarget
BY DEF Points, NoTarget, Altitudes

LEMMA PointType ==
  ASSUME NEW place \in Places, NEW z \in Altitudes
  PROVE  [place |-> place, z |-> z] \in Points
BY DEF Points

LEMMA AltitudeFacts == 0 \in Altitudes /\ TakeoffAltitude \in Altitudes
BY ConstantsAssumption DEF Altitudes

LEMMA StoppedIsFit ==
  ASSUME NEW v \in Fit
  PROVE  /\ TrajectoryStopped(v) \in Fit
         /\ TrajectoryStopped(v).state = v.state
         /\ TrajectoryStopped(v).rth = v.rth
BY DEF Fit, Flight, TrajectoryStopped, UavRecord

LEMMA TargetIsFit ==
  ASSUME NEW v \in Fit, NEW t \in Points \cup {NoTarget}
  PROVE  WithTarget(v, t) \in Fit /\ WithTarget(v, t).state = v.state
BY DEF Fit, Flight, WithTarget, UavRecord

LEMMA AirborneIsFit ==
  ASSUME NEW v \in Fit, v.state # "LANDED"
  PROVE  Airborne(v) \in Fit
<1> DEFINE flying == [v EXCEPT !.state = "AIRBORNE", !.rth = FALSE, !.motors = TRUE]
<1>1. flying \in Fit
  BY DEF Fit, Flight, UavRecord, States
<1>2. TrajectoryStopped(flying) \in Fit
  <2> HIDE DEF flying
  <2> QED
    BY <1>1, StoppedIsFit
<1>3. Airborne(v) \in {v, flying, TrajectoryStopped(flying)}
  BY DEF Airborne
<1>4. QED
  BY <1>1, <1>2, <1>3

(* What the two operators that change the lights make of a record.         *)
LEMMA LandedType ==
  ASSUME NEW v \in UavRecord
  PROVE  /\ Landed(v) \in UavRecord
         /\ Landed(v).state = "LANDED" /\ Landed(v).lights # "playing"
<1> DEFINE lights == IF v.lights = "playing" THEN "loaded" ELSE v.lights
<1>1. lights \in {"none", "loaded", "playing"} /\ lights # "playing"
  BY DEF UavRecord
<1>2. Landed(v) = [v EXCEPT !.state = "LANDED", !.rth = FALSE, !.motors = FALSE,
                            !.lights = lights]
  BY DEF Landed, UavRecord
<1> HIDE DEF lights
<1>3. QED
  BY <1>1, <1>2 DEF UavRecord, States

LEMMA TakenOffIsFit ==
  ASSUME NEW v \in UavRecord, v.clock = 0
  PROVE  TakenOff(v) \in Fit
<1> DEFINE lights == IF v.lights = "none" THEN v.lights ELSE "playing"
           player == IF v.show # NoShow THEN v.show ELSE v.player
           ended == IF v.show # NoShow THEN FALSE ELSE v.ended
<1>1. lights \in {"none", "loaded", "playing"}
  BY DEF UavRecord
<1>2. player \in Shows \cup {NoShow} /\ ended \in BOOLEAN
  BY DEF UavRecord
<1>3. TakenOff(v) = [v EXCEPT !.state = "TAKEOFF", !.rth = FALSE, !.motors = TRUE,
                              !.player = player, !.ended = ended, !.lights = lights]
  BY DEF TakenOff
<1> HIDE DEF lights, player, ended
<1>4. TakenOff(v) \in UavRecord
  BY <1>1, <1>2, <1>3 DEF UavRecord, States
<1>5. /\ TakenOff(v).state = "TAKEOFF" /\ TakenOff(v).rth = FALSE
      /\ TakenOff(v).motors = TRUE /\ TakenOff(v).clock = 0
  BY <1>3 DEF UavRecord
<1>6. QED
  BY <1>4, <1>5 DEF Fit, Flight, NotStarted

LEMMA TakeoffIsFit ==
  ASSUME NEW v \in Fit
  PROVE  Takeoff(v) \in Fit
<1>1. CASE v.state # "LANDED" \/ ~v.armed
  BY <1>1 DEF Takeoff
<1>2. CASE v.state = "LANDED" /\ v.armed
  <2> DEFINE t == [place |-> IF v.target = NoTarget THEN v.place ELSE v.target.place,
                   z |-> TakeoffAltitude]
             w == [v EXCEPT !.clock = 0, !.target = t]
  <2>1. t \in Points
    BY AltitudeFacts, PointType DEF Fit, UavRecord, Points
  <2>2. w \in UavRecord /\ w.clock = 0
    BY <1>2, <2>1 DEF Fit, Flight, UavRecord
  <2>3. Takeoff(v) = TakenOff(w)
    BY <1>2 DEF Takeoff
  <2>4. TakenOff(w) \in Fit
    <3> HIDE DEF w
    <3> QED
      BY <2>2, TakenOffIsFit
  <2>5. QED
    BY <2>3, <2>4
<1>3. QED
  BY <1>1, <1>2

LEMMA LandIsFit ==
  ASSUME NEW v \in Fit
  PROVE  /\ Land(v) \in Fit
         /\ Land(v).state = v.state \/ (v.state = "AIRBORNE" /\ Land(v).state = "LANDING")
<1>1. CASE v.state # "AIRBORNE"
  BY <1>1 DEF Land
<1>2. CASE v.state = "AIRBORNE"
  <2> DEFINE t == [place |-> IF v.target = NoTarget THEN v.place ELSE v.target.place,
                   z |-> 0]
  <2>1. t \in Points
    BY AltitudeFacts, PointType DEF Fit, UavRecord, Points
  <2>2. Land(v) = [v EXCEPT !.state = "LANDING", !.rth = FALSE, !.motors = TRUE,
                            !.target = t]
    BY <1>2 DEF Land
  <2> HIDE DEF t
  <2>3. QED
    BY <1>2, <2>1, <2>2 DEF Fit, Flight, UavRecord, States
<1>3. QED
  BY <1>1, <1>2

LEMMA HoldIsFit ==
  ASSUME NEW v \in Fit
  PROVE  HoldPosition(v) \in Fit
<1>1. CASE v.state = "LANDED"
  BY <1>1 DEF HoldPosition
<1>2. CASE v.state # "LANDED"
  <2> DEFINE s == TrajectoryStopped(v)
             t == [place |-> v.place, z |-> v.z]
             w == [s EXCEPT !.target = t]
  <2>1. s \in Fit /\ s.state = v.state
    BY StoppedIsFit
  <2>2. t \in Points /\ t # NoTarget
    <3>1. t \in Points
      BY PointType DEF Fit, UavRecord
    <3>2. QED
      BY <3>1, PointsAreTargets
  <2>3. w \in Fit /\ w.state # "LANDED"
    <3> HIDE DEF s, t
    <3> QED
      BY <1>2, <2>1, <2>2 DEF Fit, Flight, UavRecord
  <2>4. HoldPosition(v) = Airborne(w)
    BY <1>2 DEF HoldPosition
  <2>5. Airborne(w) \in Fit
    <3> HIDE DEF w
    <3> QED
      BY <2>3, AirborneIsFit
  <2>6. QED
    BY <2>4, <2>5
<1>3. QED
  BY <1>1, <1>2

LEMMA MotorsStoppedIsFit ==
  ASSUME NEW v \in Fit
  PROVE  MotorsStopped(v) \in Fit
BY DEF Fit, Flight, MotorsStopped, UavRecord

(***************************************************************************)
(* step().                                                                 *)
(***************************************************************************)
(* The trajectory is evaluated within its bounds.                          *)
LEMMA PlayedPointType ==
  ASSUME NEW v \in Fit, v.player # NoShow, v.clock # NotStarted, ~BeforeTakeoff(v)
  PROVE  PlayedPoint(v) \in Points
<1> DEFINE path == Path[v.player]
           i == v.clock - TakeoffTime + 1
<1>1. path \in Seq(Points) \ {<< >>}
  BY ConstantsAssumption DEF Fit, UavRecord
<1>2. v.clock \in Nat /\ TakeoffTime \in Nat /\ v.clock >= TakeoffTime
  BY ConstantsAssumption DEF Fit, UavRecord, BeforeTakeoff
<1>3. i \in Nat /\ i >= 1
  BY <1>2
<1>4. PlayedPoint(v) = path[IF i > Len(path) THEN Len(path) ELSE i]
  BY DEF PlayedPoint
<1>5. QED
  <2> HIDE DEF path, i
  <2>1. Len(path) \in Nat /\ Len(path) >= 1
    BY <1>1
  <2>2. (IF i > Len(path) THEN Len(path) ELSE i) \in 1 .. Len(path)
    BY <1>3, <2>1
  <2>3. QED
    BY <1>1, <1>4, <2>2

LEMMA FollowedIsFit ==
  ASSUME NEW v \in Fit
  PROVE  /\ Followed(v) \in Fit
         /\ \/ Followed(v).state = v.state
            \/ v.state = "AIRBORNE" /\ Followed(v).state = "LANDING"
<1>1. CASE v.state \notin {"TAKEOFF", "AIRBORNE"} \/ v.player = NoShow
           \/ v.clock = NotStarted
  BY <1>1 DEF Followed
<1>2. CASE ~(v.state \notin {"TAKEOFF", "AIRBORNE"} \/ v.player = NoShow
             \/ v.clock = NotStarted)
  <2>1. CASE v.ended
    BY <1>2, <2>1, LandIsFit DEF Followed
  <2>2. CASE ~v.ended /\ BeforeTakeoff(v)
    BY <1>2, <2>2 DEF Followed
  <2>3. CASE ~v.ended /\ ~BeforeTakeoff(v)
    <3> DEFINE w == WithTarget(v, PlayedPoint(v))
               e == v.clock - TakeoffTime >= Len(Path[v.player])
    <3>1. w \in Fit /\ w.state = v.state
      BY <1>2, <2>3, PlayedPointType, PointsAreTargets, TargetIsFit
    <3>2. Followed(v) = [w EXCEPT !.ended = e]
      BY <1>2, <2>3 DEF Followed
    <3>3. e \in BOOLEAN
      OBVIOUS
    <3> HIDE DEF w, e
    <3>4. QED
      BY <3>1, <3>2, <3>3 DEF Fit, Flight, UavRecord
  <2>4. QED
    BY <2>1, <2>2, <2>3
<1>3. QED
  BY <1>1, <1>2

LEMMA ClimbedType ==
  ASSUME NEW z \in Altitudes, NEW goal \in Altitudes
  PROVE  Climbed(z, goal) \in Altitudes
BY ConstantsAssumption DEF Climbed, Altitudes

LEMMA MovedIsFit ==
  ASSUME NEW v \in Fit, NEW state \in States,
         state = v.state \/ (state = "AIRBORNE" /\ v.state = "LANDING")
  PROVE  Moved(state, v) \in Fit
<1>1. CASE v.target = NoTarget
  BY <1>1 DEF Moved
<1>2. CASE v.target # NoTarget
  <2> DEFINE waits == state = "TAKEOFF" /\ v.player # NoShow /\ BeforeTakeoff(v)
             goal == IF waits THEN v.z ELSE v.target.z
             away == state = "AIRBORNE" /\ v.place # v.target.place
             place == IF away THEN v.target.place ELSE v.place
             z == Climbed(v.z, goal)
             w == [v EXCEPT !.z = z, !.place = place]
  <2>1. place \in Places /\ v.z \in Altitudes /\ goal \in Altitudes
    BY <1>2 DEF Fit, UavRecord, Points
  <2>2. z \in Altitudes
    <3> HIDE DEF goal
    <3> QED
      BY <2>1, ClimbedType
  <2>3. w \in Fit /\ w.state = v.state
    <3> HIDE DEF z, place
    <3> QED
      BY <2>1, <2>2 DEF Fit, Flight, UavRecord
  <2>4. Moved(state, v) =
          CASE state = "TAKEOFF" /\ w.z >= TakeoffAltitude -> Airborne(w)
            [] state = "LANDING" /\ v.z = goal ->
                 [WithTarget(Landed(w), NoTarget) EXCEPT !.clock = NotStarted]
            [] state = "AIRBORNE" /\ v.z = goal /\ ~away -> WithTarget(w, NoTarget)
            [] OTHER -> w
    BY <1>2 DEF Moved
  <2>5. [WithTarget(Landed(w), NoTarget) EXCEPT !.clock = NotStarted] \in Fit
    <3> HIDE DEF w
    <3> DEFINE l == Landed(w)
    <3>1. l \in UavRecord /\ l.state = "LANDED" /\ l.lights # "playing"
      BY <2>3, LandedType DEF Fit
    <3> HIDE DEF l
    <3>2. [WithTarget(l, NoTarget) EXCEPT !.clock = NotStarted] \in Fit
      BY <3>1 DEF WithTarget, Fit, Flight, UavRecord
    <3>3. QED
      BY <3>2 DEF l
  <2>6. WithTarget(w, NoTarget) \in Fit
    <3> HIDE DEF w
    <3> QED
      BY <2>3, TargetIsFit
  <2>7. state = "TAKEOFF" => Airborne(w) \in Fit
    <3> HIDE DEF w
    <3> QED
      BY <2>3, AirborneIsFit
  <2>8. QED
    <3> HIDE DEF w, goal, away
    <3> QED
      BY <2>3, <2>4, <2>5, <2>6, <2>7
<1>3. QED
  BY <1>1, <1>2

LEMMA LaterIsFit ==
  ASSUME NEW v \in Fit
  PROVE  Later(v) \in Fit
BY DEF Later, Fit, Flight, UavRecord, NotStarted

(***************************************************************************)
(* The inductive invariant.                                                *)
(***************************************************************************)
Counted ==
  /\ initializing \in [Uavs -> BOOLEAN]
  /\ power \in [Uavs -> {"booting", "running", "off"}]
  /\ request \in [Uavs -> {"none", "reset", "shutdown"}]
  /\ timers \in [Uavs -> Nat]
  /\ flights \in 0 .. MaxFlights

IInv ==
  /\ uav \in [Uavs -> Fit]
  /\ Counted
  /\ InitializationEnds

LEMMA IInvImplies == IInv => TypeOK /\ MotorsRunInFlight /\ FlightsEnd
<1> SUFFICES ASSUME IInv PROVE TypeOK /\ MotorsRunInFlight /\ FlightsEnd
  OBVIOUS
<1>1. \A u \in Uavs : uav[u] \in UavRecord /\ Flight(uav[u])
  BY DEF IInv, Fit
<1>2. uav \in [Uavs -> UavRecord]
  BY <1>1 DEF IInv
<1>3. TypeOK
  BY <1>2 DEF IInv, Counted, TypeOK
<1>4. MotorsRunInFlight
  BY <1>1 DEF Flight, MotorsRunInFlight
<1>5. FlightsEnd
  BY <1>1 DEF Flight, FlightsEnd
<1>6. QED
  BY <1>3, <1>4, <1>5

LEMMA InitInv == Init => IInv
<1> SUFFICES ASSUME Init PROVE IInv
  OBVIOUS
<1>1. [place |-> Home, z |-> 0] \in Points
  BY ConstantsAssumption, AltitudeFacts, PointType
<1>2. NewUav \in Fit
  <2> DEFINE t == [place |-> Home, z |-> 0]
  <2>1. t \in Points
    BY <1>1
  <2>2. NewUav = [state |-> "LANDED", armed |-> TRUE, motors |-> FALSE,
                  testing |-> FALSE, place |-> Home, z |-> 0, target |-> t,
                  rth |-> FALSE, show |-> NoShow, player |-> NoShow, ended |-> FALSE, clock |-> NotStarted, lights |-> "none"]
    BY DEF NewUav
  <2> HIDE DEF t
  <2>3. QED
    BY <2>1, <2>2, ConstantsAssumption, AltitudeFacts
       DEF Fit, Flight, UavRecord, States
<1>3. QED
  BY <1>2, ConstantsAssumption DEF Init, IInv, Counted, InitializationEnds

(* A step that makes one fit record of another one, and leaves the boot    *)
(* loop alone.                                                             *)
LEMMA OneRecord ==
  ASSUME IInv, NEW u \in Uavs, NEW v \in Fit,
         uav' = [uav EXCEPT ![u] = v], UNCHANGED <<initializing, power, request, timers, flights>>
  PROVE  IInv'
<1>1. uav' \in [Uavs -> Fit]
  BY DEF IInv
<1>2. Counted'
  BY DEF IInv, Counted
<1>3. InitializationEnds'
  BY DEF IInv, InitializationEnds
<1>4. QED
  BY <1>1, <1>2, <1>3 DEF IInv

(***************************************************************************)
(* The steps.                                                              *)
(***************************************************************************)
(* The boot loop.                                                          *)
LEMMA BootLoopInv ==
  ASSUME IInv, NEW u \in Uavs, Boot(u) \/ AutopilotInitialized(u) \/ Shutdown(u)
  PROVE  IInv'
<1>1. uav' \in [Uavs -> Fit]
  <2>1. CASE Boot(u)
    <3> DEFINE v == [uav[u] EXCEPT !.armed = BootsArmed, !.show = NoShow,
                                   !.player = NoShow]
    <3>1. uav[u] \in Fit
      BY DEF IInv
    <3>2. v \in Fit
      BY <3>1, ConstantsAssumption DEF Fit, Flight, UavRecord
    <3>3. uav' = [uav EXCEPT ![u] = v]
      BY <2>1 DEF Boot
    <3> HIDE DEF v
    <3>4. QED
      BY <3>2, <3>3 DEF IInv
  <2>2. CASE AutopilotInitialized(u) \/ Shutdown(u)
    BY <2>2 DEF AutopilotInitialized, Shutdown, IInv
  <2>3. QED
    BY <2>1, <2>2
<1>2. Counted'
  <2>1. CASE Boot(u)
    BY <2>1 DEF Boot, IInv, Counted
  <2>2. CASE AutopilotInitialized(u)
    BY <2>2 DEF AutopilotInitialized, IInv, Counted
  <2>3. CASE Shutdown(u)
    BY <2>3 DEF Shutdown, IInv, Counted
  <2>4. QED
    BY <2>1, <2>2, <2>3
<1>3. InitializationEnds'
  BY DEF Boot, AutopilotInitialized, Shutdown, IInv, Counted, InitializationEnds
<1>4. QED
  BY <1>1, <1>2, <1>3 DEF IInv

(* A request that is handled by a method of the drone.                     *)
LEMMA HandledInv ==
  ASSUME IInv, NEW u \in Uavs, NEW v \in Fit, Handled(u, v)
  PROVE  IInv'
BY OneRecord DEF Handled

LEMMA StepInv ==
  ASSUME IInv, NEW u \in Uavs, NEW dark \in BOOLEAN, Step(u, dark)
  PROVE  IInv'
<1>0. /\ Followed(uav[u]) \in Fit
      /\ \/ Followed(uav[u]).state = uav[u].state
         \/ uav[u].state = "AIRBORNE" /\ Followed(uav[u]).state = "LANDING"
  <2>1. uav[u] \in Fit
    BY DEF IInv
  <2>2. QED
    BY <2>1, FollowedIsFit
<1> DEFINE f == Followed(uav[u])
           m == Moved(uav[u].state, f)
           l == Later(m)
           w == [l EXCEPT !.lights = IF dark /\ @ = "playing" THEN "loaded" ELSE @]
<1>1. uav[u] \in Fit /\ uav[u].state \in States
  BY DEF IInv, Fit, UavRecord
<1>2. /\ f \in Fit
      /\ \/ f.state = uav[u].state
         \/ uav[u].state = "AIRBORNE" /\ f.state = "LANDING"
  BY <1>0
<1>3. m \in Fit
  <2> HIDE DEF f
  <2> QED
    BY <1>1, <1>2, MovedIsFit
<1>4. l \in Fit
  <2> HIDE DEF m
  <2> QED
    BY <1>3, LaterIsFit
<1>5. w \in Fit
  <2> HIDE DEF l
  <2> DEFINE lights == IF dark /\ l.lights = "playing" THEN "loaded" ELSE l.lights
  <2>1. /\ lights \in {"none", "loaded", "playing"}
        /\ lights = "playing" => l.lights = "playing"
    BY <1>4 DEF Fit, UavRecord
  <2>2. w = [l EXCEPT !.lights = lights]
    BY <1>4 DEF Fit, UavRecord
  <2> HIDE DEF lights
  <2>3. [l EXCEPT !.lights = lights] \in Fit
    BY <1>4, <2>1 DEF Fit, Flight, UavRecord
  <2>4. QED
    BY <2>2, <2>3
<1>6. uav' = [uav EXCEPT ![u] = w]
  BY DEF Step
<1>7. UNCHANGED <<initializing, power, request, timers, flights>>
  BY DEF Step
<1> HIDE DEF w
<1>8. QED
  BY <1>5, <1>6, <1>7, OneRecord

(* Everything that operators ask of one drone.                             *)
LEMMA RequestInv ==
  ASSUME IInv, NEW u \in Uavs, NEW b \in BOOLEAN, NEW show \in Shows \cup {NoShow},
         \/ SetArmed(u, b) \/ SendMotor(u, b) \/ TestMotors(u)
         \/ SendTakeoff(u) \/ SendLanding(u) \/ SendHover(u)
         \/ ReturnToHome(u) \/ UploadShow(u, show)
  PROVE  IInv'
<1>0. uav[u] \in Fit
  BY DEF IInv
<1>1. CASE SetArmed(u, b)
  <2>1. [uav[u] EXCEPT !.armed = b] \in Fit
    BY <1>0 DEF Fit, Flight, UavRecord
  <2>2. QED
    BY <1>1, <2>1, HandledInv DEF SetArmed
<1>2. CASE SendMotor(u, b)
  <2>1. [uav[u] EXCEPT !.motors = TRUE] \in Fit
    BY <1>0 DEF Fit, Flight, UavRecord
  <2>2. MotorsStopped(uav[u]) \in Fit
    BY <1>0, MotorsStoppedIsFit
  <2>3. QED
    BY <1>2, <2>1, <2>2, HandledInv DEF SendMotor
<1>3. CASE TestMotors(u)
  <2>1. [uav[u] EXCEPT !.testing = TRUE, !.motors = TRUE] \in Fit
    BY <1>0 DEF Fit, Flight, UavRecord
  <2>2. QED
    BY <1>3, <2>1, HandledInv DEF TestMotors
<1>4. CASE SendTakeoff(u)
  BY <1>0, <1>4, TakeoffIsFit, HandledInv DEF SendTakeoff
<1>5. CASE SendLanding(u)
  BY <1>0, <1>5, LandIsFit, HandledInv DEF SendLanding
<1>6. CASE SendHover(u)
  BY <1>0, <1>6, HoldIsFit, HandledInv DEF SendHover
<1>7. CASE ReturnToHome(u)
  <2> DEFINE s == TrajectoryStopped(uav[u])
             t == [place |-> Home, z |-> uav[u].z]
             w == WithTarget(s, t)
  <2>1. s \in Fit /\ s.state = "AIRBORNE"
    BY <1>0, <1>7, StoppedIsFit DEF ReturnToHome
  <2>2. t \in Points /\ t # NoTarget
    <3>1. t \in Points
      BY <1>0, ConstantsAssumption, PointType DEF Fit, UavRecord
    <3>2. QED
      BY <3>1, PointsAreTargets
  <2>3. [w EXCEPT !.rth = TRUE] \in Fit
    <3> HIDE DEF s, t
    <3> QED
      BY <2>1, <2>2 DEF WithTarget, Fit, Flight, UavRecord
  <2>4. Handled(u, [w EXCEPT !.rth = TRUE])
    BY <1>7 DEF ReturnToHome
  <2> HIDE DEF w
  <2>5. QED
    BY <2>3, <2>4, HandledInv
<1>8. CASE UploadShow(u, show)
  <2>1. [uav[u] EXCEPT !.show = show, !.lights = "loaded"] \in Fit
    BY <1>0 DEF Fit, Flight, UavRecord
  <2>2. QED
    BY <1>8, <2>1, HandledInv DEF UploadShow
<1>9. QED
  BY <1>1, <1>2, <1>3, <1>4, <1>5, <1>6, <1>7, <1>8

LEMMA TestEndsInv ==
  ASSUME IInv, NEW u \in Uavs, NEW cancelled \in BOOLEAN, TestEnds(u, cancelled)
  PROVE  IInv'
<1> DEFINE v == [uav[u] EXCEPT !.testing = FALSE]
<1>1. v \in Fit
  <2>1. uav[u] \in Fit
    BY DEF IInv
  <2>2. QED
    BY <2>1 DEF Fit, Flight, UavRecord
<1>2. uav' = [uav EXCEPT ![u] = IF cancelled THEN v ELSE MotorsStopped(v)]
  BY DEF TestEnds
<1>3. UNCHANGED <<initializing, power, request, timers, flights>>
  BY DEF TestEnds
<1> HIDE DEF v
<1>4. (IF cancelled THEN v ELSE MotorsStopped(v)) \in Fit
  BY <1>1, MotorsStoppedIsFit
<1>5. QED
  BY <1>2, <1>3, <1>4, OneRecord

LEMMA FlyToInv ==
  ASSUME IInv, NEW group \in SUBSET Uavs, NEW first \in group, NEW place \in Places,
         NEW altitude \in Altitudes \cup {Keep}, FlyTo(group, first, place, altitude)
  PROVE  IInv'
<1> DEFINE z == IF altitude # Keep THEN altitude
                ELSE IF uav[first].state = "LANDED" THEN TakeoffAltitude
                ELSE uav[first].z
           t == [place |-> place, z |-> z]
<1>1. t \in Points
  <2>1. z \in Altitudes
    BY AltitudeFacts DEF IInv, Fit, UavRecord
  <2> HIDE DEF z
  <2>2. QED
    BY <2>1, PointType
<1>2. uav' = [u \in Uavs |-> IF u \in group
                             THEN WithTarget(TrajectoryStopped(Takeoff(uav[u])), t)
                             ELSE uav[u]]
  BY DEF FlyTo
<1> HIDE DEF t
<1>3. ASSUME NEW u \in Uavs
      PROVE  WithTarget(TrajectoryStopped(Takeoff(uav[u])), t) \in Fit
  <2>1. Takeoff(uav[u]) \in Fit
    BY TakeoffIsFit DEF IInv
  <2>2. TrajectoryStopped(Takeoff(uav[u])) \in Fit
    BY <2>1, StoppedIsFit
  <2>3. QED
    BY <1>1, <2>2, TargetIsFit
<1>4. uav' \in [Uavs -> Fit]
  BY <1>2, <1>3 DEF IInv
<1>5. Counted' /\ InitializationEnds'
  BY ConstantsAssumption DEF FlyTo, IInv, Counted, InitializationEnds
<1>6. QED
  BY <1>4, <1>5 DEF IInv

LEMMA NextInv == IInv /\ [Next]_vars => IInv'
<1> SUFFICES ASSUME IInv, [Next]_vars PROVE IInv'
  OBVIOUS
<1>1. ASSUME NEW u \in Uavs, NEW reason \in {"reset", "shutdown"},
             RequestShutdown(u, reason)
      PROVE  IInv'
  BY <1>1 DEF RequestShutdown, IInv, Counted, InitializationEnds
<1>2. CASE UNCHANGED vars
  BY <1>2 DEF vars, IInv, Counted, InitializationEnds
<1>3. QED
  BY <1>1, <1>2, StepInv, BootLoopInv, RequestInv, TestEndsInv, FlyToInv DEF Next

LEMMA Invariant == Spec => []IInv
<1>1. QED
  BY InitInv, NextInv, PTL DEF Spec

(* The records of the drones keep their types; in particular a trajectory  *)
(* is never read past its end, and no altitude leaves its range.           *)
THEOREM TypeCorrect == Spec => []TypeOK
<1>1. QED
  BY Invariant, IInvImplies, PTL

(* Motors run in flight, for any trajectories and any number of drones.    *)
THEOREM MotorsRun == Spec => []MotorsRunInFlight
<1>1. QED
  BY Invariant, IInvImplies, PTL

(* The clock, the lights and the return to home end with the flight.       *)
THEOREM FlightsAreOver == Spec => []FlightsEnd
<1>1. QED
  BY Invariant, IInvImplies, PTL

(* A drone that shows that its autopilot initializes has a timer left.     *)
THEOREM TimersSuffice == Spec => []InitializationEnds
<1>1. IInv => InitializationEnds
  BY DEF IInv
<1>2. QED
  BY Invariant, <1>1, PTL
=============================================================================
