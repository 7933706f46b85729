--------------------------- MODULE Missions_proofs ---------------------------
(***************************************************************************)
(* Proofs about Missions: its type invariant, the agreement of missions    *)
(* and scheduler, the consent a start needs, the life cycle, and the news  *)
(* of the clients, for any number of missions, any length of the update    *)
(* queue and any time bound.                                               *)
(***************************************************************************)
EXTENDS Missions, SequenceTheorems, TLAPS

(***************************************************************************)
(* The inductive invariant: a mission and its job agree.                   *)
(***************************************************************************)
(* What the fields of a mission say of each other.                         *)
Consistent(mi) ==
  /\ mi.exists = FALSE => mi.state = "NEW"
  /\ mi.state \in Waiting <=> mi.started = FALSE
  /\ mi.state \in Finished <=> mi.finished = TRUE
  /\ mi.state = "NEW" => mi.authorized = FALSE
  /\ mi.state = "AUTHORIZED_TO_START" =>
       mi.authorized = TRUE /\ mi.params = mi.approved
  /\ mi.state = "ONGOING" => mi.authorized = TRUE /\ mi.startsAt # NoTime

(* What a job says of its mission.                                         *)
Agrees(mi, j) ==
  /\ j.entry = "waiting" =>
       /\ mi.state = "AUTHORIZED_TO_START" /\ j.task = "none"
       /\ mi.startsAt = j.due /\ j.due # NoTime
  /\ mi.state = "ONGOING" <=> j.task # "none"
  /\ j.task = "running" => j.entry = "started" /\ mi.cancel = FALSE

Sound(mi, j) ==
  /\ mi \in MissionRecord /\ j \in JobRecord
  /\ Consistent(mi) /\ Agrees(mi, j)

MissionsSound == \A m \in Ids : Sound(mission[m], job[m])

IInv == TypeOK /\ MissionsSound

(* A job of a mission that was not started yet, after the mission changed. *)
LEMMA JobForWaiting ==
  ASSUME now \in Times, NEW mi \in MissionRecord, NEW j \in JobRecord,
         Consistent(mi), mi.state \in Waiting, j.task = "none"
  PROVE  Sound(mi, JobFor(mi, j))
<1>1. mi.finished = FALSE
  BY DEF Consistent, Waiting, Finished, MissionRecord
<1>2. CASE mi.authorized = FALSE \/ mi.startsAt = NoTime
  <2>1. JobFor(mi, j) = Unscheduled(j)
    BY <1>1, <1>2 DEF JobFor
  <2>2. QED
    BY <2>1 DEF Unscheduled, Running, Sound, Agrees, Waiting, JobRecord
<1>3. CASE mi.authorized = TRUE /\ mi.startsAt # NoTime
  <2>1. \/ JobFor(mi, j) = Unscheduled(j)
        \/ JobFor(mi, j) = [entry |-> "waiting", due |-> mi.startsAt, task |-> "none"]
    BY <1>1, <1>3 DEF JobFor, Running
  <2>2. mi.state = "AUTHORIZED_TO_START"
    BY <1>3 DEF Consistent, Waiting
  <2>3. mi.startsAt \in Times \cup {NoTime}
    BY DEF MissionRecord
  <2>4. QED
    BY <1>3, <2>1, <2>2, <2>3 DEF Unscheduled, Running, Sound, Agrees, JobRecord
<1>4. QED
  BY <1>2, <1>3 DEF MissionRecord

(* The job of a mission that runs or that has ended and is cancelled.      *)
LEMMA JobForStarted ==
  ASSUME NEW mi, NEW j, Sound(mi, j), mi.state \notin Waiting,
         NEW mc, mc = [mi EXCEPT !.cancel = TRUE]
  PROVE  Sound(mc, JobFor(mc, j))
<1>1. mc \in MissionRecord /\ j \in JobRecord
  BY DEF Sound, MissionRecord
<1>2. Consistent(mc)
  BY DEF Sound, Consistent, MissionRecord
<1>3. mc.cancel = TRUE /\ mc.state = mi.state /\ mc.state \notin Waiting
  BY DEF Sound, MissionRecord
<1>4. JobFor(mc, j) = Unscheduled(j)
  <2>1. CASE mc.state = "ONGOING"
    <3>1. Running(j)
      BY <1>3, <2>1 DEF Sound, Agrees, Running
    <3>2. QED
      BY <1>3, <3>1 DEF JobFor
  <2>2. CASE mc.state # "ONGOING"
    <3>1. mc.finished = TRUE
      BY <1>1, <1>2, <1>3, <2>2 DEF Consistent, MissionRecord, States, Waiting
    <3>2. QED
      BY <3>1 DEF JobFor
  <2>3. QED
    BY <2>1, <2>2
<1>5. Unscheduled(j) \in JobRecord
  BY DEF Unscheduled, JobRecord
<1>6. Agrees(mc, Unscheduled(j))
  BY <1>3 DEF Unscheduled, Running, Agrees, Sound, Waiting
<1>7. QED
  BY <1>1, <1>2, <1>4, <1>5, <1>6 DEF Sound

(* The changes of missions.                                                *)
LEMMA AuthorizedConsistent ==
  ASSUME NEW mi \in MissionRecord, Consistent(mi), mi.state \in Waiting, mi.exists = TRUE
  PROVE  /\ Authorized(mi) \in MissionRecord
         /\ Consistent(Authorized(mi)) /\ Authorized(mi).state \in Waiting
BY DEF Authorized, Consistent, Waiting, Finished, States, MissionRecord

LEMMA StartedConsistent ==
  ASSUME now \in Times, NEW mi \in MissionRecord, Consistent(mi),
         mi.state \in Waiting, mi.exists = TRUE
  PROVE  /\ Started(mi) \in MissionRecord
         /\ Consistent(Started(mi)) /\ Started(mi).state \in Waiting
<1> DEFINE timed == [mi EXCEPT !.startsAt = now, !.late_ok = TRUE]
<1>1. timed \in MissionRecord
  BY DEF MissionRecord
<1>2. Consistent(timed) /\ timed.state \in Waiting /\ timed.exists = TRUE
  BY DEF Consistent, Waiting, Finished, MissionRecord
<1>3. /\ Authorized(timed) \in MissionRecord
      /\ Consistent(Authorized(timed)) /\ Authorized(timed).state \in Waiting
  BY <1>1, <1>2, AuthorizedConsistent
<1>4. Started(mi) = timed \/ Started(mi) = Authorized(timed)
  BY DEF Started
<1>5. QED
  <2> HIDE DEF timed
  <2>1. QED
    BY <1>1, <1>2, <1>3, <1>4

LEMMA EndedSound ==
  ASSUME NEW mi, NEW j, Sound(mi, j), mi.exists = TRUE, NEW state \in Finished,
         NEW k \in JobRecord, k.task = "none", k.entry # "waiting"
  PROVE  Sound(Ended(mi, state), k)
<1>1. Ended(mi, state) \in MissionRecord
  BY DEF Ended, Sound, MissionRecord, States, Finished
<1>2. /\ Ended(mi, state).state = state /\ Ended(mi, state).started = TRUE
      /\ Ended(mi, state).finished = TRUE /\ Ended(mi, state).exists = TRUE
  BY DEF Ended, Sound, MissionRecord
<1>3. state \notin Waiting /\ state \notin {"NEW", "AUTHORIZED_TO_START", "ONGOING"}
  BY DEF Waiting, Finished
<1>4. Consistent(Ended(mi, state))
  BY <1>2, <1>3 DEF Consistent
<1>5. Agrees(Ended(mi, state), k)
  BY <1>2, <1>3 DEF Agrees
<1>6. QED
  BY <1>1, <1>4, <1>5 DEF Sound

(***************************************************************************)
(* Each action keeps missions and jobs sound.                              *)
(***************************************************************************)
(* An action that changes one mission and its job only.                    *)
LEMMA OneMission ==
  ASSUME IInv, NEW m \in Ids, NEW mi, NEW j, Sound(mi, j),
         mission' = [mission EXCEPT ![m] = mi], job' = [job EXCEPT ![m] = j]
  PROVE  /\ MissionsSound'
         /\ mission' \in [Ids -> MissionRecord] /\ job' \in [Ids -> JobRecord]
<1>1. mi \in MissionRecord /\ j \in JobRecord
  BY DEF Sound
<1>2. \A n \in Ids : Sound(mission'[n], job'[n])
  BY DEF IInv, TypeOK, MissionsSound
<1>3. QED
  BY <1>1, <1>2 DEF IInv, TypeOK, MissionsSound

LEMMA PushedFacts ==
  ASSUME NEW q \in Seq(Ids), Len(q) <= QueueSize, NEW m \in Ids
  PROVE  /\ Pushed(q, m) \in Seq(Ids) /\ Len(Pushed(q, m)) <= QueueSize
         /\ InQueue(q) \subseteq InQueue(Pushed(q, m))
         /\ m \in InQueue(Pushed(q, m)) \/ Len(q) = QueueSize
         /\ Len(q) = QueueSize => Pushed(q, m) = q
<1>0. QueueSize \in Nat
  BY ConstantsAssumption
<1>1. CASE Len(q) < QueueSize
  <2>1. Pushed(q, m) = Append(q, m)
    BY <1>1 DEF Pushed
  <2>2. /\ Append(q, m) \in Seq(Ids) /\ Len(Append(q, m)) = Len(q) + 1
        /\ \A i \in 1 .. Len(q) : Append(q, m)[i] = q[i]
        /\ Append(q, m)[Len(q) + 1] = m
    BY AppendProperties
  <2>3. DOMAIN q = 1 .. Len(q) /\ DOMAIN Append(q, m) = 1 .. Len(q) + 1 /\ Len(q) \in Nat
    BY <2>2
  <2>4. InQueue(q) \subseteq InQueue(Append(q, m))
    BY <2>2, <2>3 DEF InQueue
  <2>5. m \in InQueue(Append(q, m))
    <3>1. Len(q) + 1 \in DOMAIN Append(q, m)
      BY <2>3
    <3>2. QED
      BY <2>2, <3>1 DEF InQueue
  <2>6. Len(q) # QueueSize /\ Len(q) + 1 <= QueueSize
    <3> DEFINE l == Len(q)
    <3>1. l \in Nat /\ l < QueueSize
      BY <1>1, LenProperties
    <3> HIDE DEF l
    <3>2. l # QueueSize /\ l + 1 <= QueueSize
      BY <1>0, <3>1
    <3>3. QED
      BY <3>2 DEF l
  <2> DEFINE r == Append(q, m)
  <2>7. r = Pushed(q, m) /\ r \in Seq(Ids) /\ Len(r) <= QueueSize
    BY <2>1, <2>2, <2>6
  <2>8. InQueue(q) \subseteq InQueue(r) /\ m \in InQueue(r)
    BY <2>4, <2>5
  <2> HIDE DEF r
  <2>9. QED
    BY <2>6, <2>7, <2>8
<1>2. CASE ~(Len(q) < QueueSize)
  <2>1. Pushed(q, m) = q /\ Len(q) = QueueSize
    BY <1>0, <1>2, LenProperties DEF Pushed
  <2>2. QED
    BY <2>1
<1>3. QED
  BY <1>1, <1>2

(* An update keeps what is in the queue and puts the mission in it, or     *)
(* records that the mission was dropped.                                   *)
LEMMA UpdatedFacts ==
  ASSUME IInv, NEW m \in Ids, NEW times, Updated(m, times)
  PROVE  /\ queue' \in Seq(Ids) /\ Len(queue') <= QueueSize /\ lost' \subseteq Ids
         /\ InQueue(queue) \subseteq InQueue(queue') /\ lost \subseteq lost'
         /\ m \in InQueue(queue') \cup lost'
<1>1. queue \in Seq(Ids) /\ Len(queue) <= QueueSize /\ lost \subseteq Ids
  BY DEF IInv, TypeOK
<1> DEFINE one == Pushed(queue, m)
           two == Pushed(one, m)
<1>2. /\ one \in Seq(Ids) /\ Len(one) <= QueueSize
      /\ InQueue(queue) \subseteq InQueue(one)
      /\ m \in InQueue(one) \/ Len(queue) = QueueSize
      /\ Len(queue) = QueueSize => one = queue
  BY <1>1, PushedFacts
<1> HIDE DEF one
<1>3. /\ two \in Seq(Ids) /\ Len(two) <= QueueSize
      /\ InQueue(one) \subseteq InQueue(two)
      /\ Len(one) = QueueSize => two = one
  BY <1>2, PushedFacts
<1> HIDE DEF two
<1>4. queue' = one \/ queue' = two
  BY DEF Updated, one, two
<1>5. lost' = IF Len(queue) = QueueSize /\ m \notin InQueue(queue)
              THEN lost \cup {m} ELSE lost
  BY DEF Updated
<1>6. InQueue(one) \subseteq InQueue(queue')
  BY <1>3, <1>4
<1>7. m \in InQueue(queue') \cup lost'
  <2>1. CASE m \in InQueue(one)
    BY <1>6, <2>1
  <2>2. CASE m \notin InQueue(one)
    BY <1>2, <1>5, <2>2
  <2>3. QED
    BY <2>1, <2>2
<1>8. QED
  BY <1>1, <1>2, <1>3, <1>4, <1>5, <1>6, <1>7

(* The actions of the user on missions that were not started yet share a   *)
(* shape: the mission changes and the scheduler is told.                   *)
LEMMA WaitingStep ==
  ASSUME IInv, NEW m \in Ids, mission[m].state \in Waiting,
         NEW mi \in MissionRecord, Consistent(mi), mi.state \in Waiting,
         mission' = [mission EXCEPT ![m] = mi],
         job' = [job EXCEPT ![m] = JobFor(mi, @)]
  PROVE  /\ MissionsSound'
         /\ mission' \in [Ids -> MissionRecord] /\ job' \in [Ids -> JobRecord]
<1>1. Sound(mission[m], job[m]) /\ now \in Times
  BY DEF IInv, TypeOK, MissionsSound
<1>2. job[m] \in JobRecord /\ job[m].task = "none"
  BY <1>1 DEF Sound, Agrees, Waiting
<1>3. Sound(mi, JobFor(mi, job[m]))
  BY <1>1, <1>2, JobForWaiting
<1>4. QED
  BY <1>3, OneMission

(* Every action keeps missions and jobs sound.                             *)
LEMMA StepSound ==
  ASSUME IInv, [Next]_vars
  PROVE  /\ MissionsSound'
         /\ mission' \in [Ids -> MissionRecord] /\ job' \in [Ids -> JobRecord]
<1>t. /\ mission \in [Ids -> MissionRecord] /\ job \in [Ids -> JobRecord]
      /\ now \in Times /\ \A m \in Ids : Sound(mission[m], job[m])
  BY DEF IInv, TypeOK, MissionsSound
<1> DEFINE Goal == /\ MissionsSound'
                   /\ mission' \in [Ids -> MissionRecord] /\ job' \in [Ids -> JobRecord]
<1>s. ASSUME mission' = mission, job' = job PROVE Goal
  BY <1>s, <1>t DEF MissionsSound
<1>1. ASSUME NEW m \in Ids, New(m) PROVE Goal
  <2>1. NewMission \in MissionRecord /\ Consistent(NewMission)
    BY DEF NewMission, MissionRecord, Consistent, States, Waiting, Finished
  <2>2. mission[m].exists = FALSE /\ Sound(mission[m], job[m])
    BY <1>1, <1>t DEF New, MissionRecord
  <2>3. job[m] \in JobRecord /\ job[m].entry # "waiting" /\ job[m].task = "none"
    BY <2>2 DEF Sound, Consistent, Agrees, JobRecord
  <2>4. Sound(NewMission, job[m])
    BY <2>1, <2>3 DEF Sound, Agrees, NewMission
  <2>5. mission' = [mission EXCEPT ![m] = NewMission] /\ job' = [job EXCEPT ![m] = job[m]]
    BY <1>1, <1>t DEF New
  <2>6. QED
    BY <2>4, <2>5, OneMission
<1>2. ASSUME NEW m \in Ids, UpdateParameters(m) PROVE Goal
  <2> DEFINE mi == [mission[m] EXCEPT !.params = ~@]
  <2>1. Sound(mission[m], job[m]) /\ mission[m].state = "NEW"
    BY <1>2, <1>t DEF UpdateParameters
  <2>2. mi \in MissionRecord
    BY <2>1 DEF Sound, MissionRecord
  <2>3. Consistent(mi) /\ Agrees(mi, job[m])
    BY <2>1 DEF Sound, Consistent, Agrees, MissionRecord
  <2>4. Sound(mi, job[m])
    BY <2>1, <2>2, <2>3 DEF Sound
  <2>5. mission' = [mission EXCEPT ![m] = mi] /\ job' = [job EXCEPT ![m] = job[m]]
    BY <1>2, <1>t DEF UpdateParameters
  <2>6. QED
    <3> HIDE DEF mi
    <3>1. QED
      BY <2>4, <2>5, OneMission
<1>3. ASSUME NEW m \in Ids, AuthorizeToStart(m) PROVE Goal
  <2>1. Sound(mission[m], job[m]) /\ mission[m].state \in Waiting /\ mission[m].exists = TRUE
    BY <1>3, <1>t DEF AuthorizeToStart, NotStartedYet, MissionRecord
  <2>2. /\ Authorized(mission[m]) \in MissionRecord
        /\ Consistent(Authorized(mission[m])) /\ Authorized(mission[m]).state \in Waiting
    BY <2>1, AuthorizedConsistent DEF Sound
  <2>3. /\ mission' = [mission EXCEPT ![m] = Authorized(mission[m])]
        /\ job' = [job EXCEPT ![m] = JobFor(Authorized(mission[m]), @)]
    BY <1>3, <1>t DEF AuthorizeToStart
  <2>4. QED
    BY <2>1, <2>2, <2>3, WaitingStep
<1>4. ASSUME NEW m \in Ids, RevokeAuthorization(m) PROVE Goal
  <2> DEFINE mi == [mission[m] EXCEPT !.authorized = FALSE, !.state = "NEW"]
  <2>1. Sound(mission[m], job[m]) /\ mission[m].state \in Waiting
    BY <1>4, <1>t DEF RevokeAuthorization, NotStartedYet
  <2>2. mi \in MissionRecord /\ mi.state \in Waiting
    BY <2>1 DEF Sound, MissionRecord, States, Waiting
  <2>3. Consistent(mi)
    BY <2>1 DEF Sound, Consistent, MissionRecord, Waiting, Finished
  <2>4. mission' = [mission EXCEPT ![m] = mi] /\ job' = [job EXCEPT ![m] = JobFor(mi, @)]
    BY <1>4, <1>t DEF RevokeAuthorization
  <2>5. QED
    <3> HIDE DEF mi
    <3>1. QED
      BY <2>1, <2>2, <2>3, <2>4, WaitingStep
<1>5. ASSUME NEW m \in Ids, NEW t \in Times \cup {NoTime}, UpdateStartTime(m, t) PROVE Goal
  <2> DEFINE mi == [mission[m] EXCEPT !.startsAt = t]
  <2>1. Sound(mission[m], job[m]) /\ mission[m].state \in Waiting
    BY <1>5, <1>t DEF UpdateStartTime, NotStartedYet
  <2>2. mi \in MissionRecord /\ mi.state \in Waiting
    BY <2>1 DEF Sound, MissionRecord
  <2>3. Consistent(mi)
    BY <2>1 DEF Sound, Consistent, MissionRecord, Waiting
  <2>4. mission' = [mission EXCEPT ![m] = mi] /\ job' = [job EXCEPT ![m] = JobFor(mi, @)]
    BY <1>5, <1>t DEF UpdateStartTime
  <2>5. QED
    <3> HIDE DEF mi
    <3>1. QED
      BY <2>1, <2>2, <2>3, <2>4, WaitingStep
<1>6. ASSUME NEW m \in Ids, StartNow(m) PROVE Goal
  <2>1. Sound(mission[m], job[m]) /\ mission[m].state \in Waiting /\ mission[m].exists = TRUE
    BY <1>6, <1>t DEF StartNow, NotStartedYet, MissionRecord
  <2>2. /\ Started(mission[m]) \in MissionRecord
        /\ Consistent(Started(mission[m])) /\ Started(mission[m]).state \in Waiting
    BY <1>t, <2>1, StartedConsistent DEF Sound
  <2>3. /\ mission' = [mission EXCEPT ![m] = Started(mission[m])]
        /\ job' = [job EXCEPT ![m] = JobFor(Started(mission[m]), @)]
    BY <1>6, <1>t DEF StartNow
  <2>4. QED
    BY <2>1, <2>2, <2>3, WaitingStep
<1>7. ASSUME NEW m \in Ids, Cancel(m) PROVE Goal
  <2>1. Sound(mission[m], job[m]) /\ mission[m].exists = TRUE
    BY <1>7, <1>t DEF Cancel, MissionRecord
  <2>2. CASE mission[m].started
    <3> DEFINE mi == [mission[m] EXCEPT !.cancel = TRUE]
    <3>1. mission[m].state \notin Waiting
      BY <2>1, <2>2 DEF Sound, Consistent
    <3>2. Sound(mi, JobFor(mi, job[m]))
      BY <2>1, <3>1, JobForStarted
    <3>3. mission' = [mission EXCEPT ![m] = mi] /\ job' = [job EXCEPT ![m] = JobFor(mi, job[m])]
      BY <1>7, <1>t, <2>2 DEF Cancel
    <3>4. QED
      <4> HIDE DEF mi
      <4>1. QED
        BY <3>2, <3>3, OneMission
  <2>3. CASE ~mission[m].started
    <3> DEFINE st == Started(mission[m])
               mi == [st EXCEPT !.cancel = TRUE]
    <3>1. mission[m].state \in Waiting
      BY <2>1, <2>3 DEF Sound, Consistent, MissionRecord
    <3>2. st \in MissionRecord /\ Consistent(st) /\ st.state \in Waiting
      BY <1>t, <2>1, <3>1, StartedConsistent DEF Sound
    <3>3. mission' = [mission EXCEPT ![m] = mi] /\ job' = [job EXCEPT ![m] = JobFor(mi, @)]
      BY <1>7, <1>t, <2>3 DEF Cancel
    <3> HIDE DEF st
    <3>4. mi \in MissionRecord /\ Consistent(mi) /\ mi.state \in Waiting
      BY <3>2 DEF Consistent, MissionRecord
    <3> HIDE DEF mi
    <3>5. QED
      BY <3>1, <3>3, <3>4, WaitingStep
  <2>4. QED
    BY <2>2, <2>3
<1>8. ASSUME NEW m \in Ids, Run(m) PROVE Goal
  <2>1. /\ Sound(mission[m], job[m]) /\ mission[m].state = "AUTHORIZED_TO_START"
        /\ job[m].entry = "waiting"
    BY <1>8, <1>t DEF Run
  <2>2. /\ mission[m].exists = TRUE /\ mission[m].authorized = TRUE
        /\ mission[m].startsAt # NoTime /\ job[m].task = "none"
    BY <2>1 DEF Sound, Consistent, Agrees, MissionRecord
  <2>3. CASE mission[m].cancel
    <3> DEFINE k == [job[m] EXCEPT !.entry = "started"]
    <3>1. k \in JobRecord /\ k.task = "none" /\ k.entry # "waiting"
      BY <2>1, <2>2 DEF Sound, JobRecord
    <3>2. /\ mission' = [mission EXCEPT ![m] = Ended(mission[m], "CANCELLED")]
          /\ job' = [job EXCEPT ![m] = k]
      BY <1>8, <1>t, <2>3 DEF Run
    <3> HIDE DEF k
    <3>3. Sound(Ended(mission[m], "CANCELLED"), k)
      BY <2>1, <2>2, <3>1, EndedSound DEF Finished
    <3>4. QED
      BY <3>2, <3>3, OneMission
  <2>4. CASE ~mission[m].cancel
    <3> DEFINE mi == [mission[m] EXCEPT !.state = "ONGOING", !.started = TRUE]
               k == [job[m] EXCEPT !.entry = "started", !.task = "running"]
    <3>1. mi \in MissionRecord /\ k \in JobRecord
      BY <2>1 DEF Sound, MissionRecord, JobRecord, States
    <3>2. Consistent(mi)
      BY <2>1, <2>2 DEF Sound, Consistent, MissionRecord, Waiting, Finished
    <3>3. Agrees(mi, k)
      BY <2>1, <2>4 DEF Sound, Agrees, MissionRecord, JobRecord
    <3>4. Sound(mi, k)
      BY <3>1, <3>2, <3>3 DEF Sound
    <3>5. mission' = [mission EXCEPT ![m] = mi] /\ job' = [job EXCEPT ![m] = k]
      BY <1>8, <1>t, <2>4 DEF Run
    <3>6. QED
      <4> HIDE DEF mi, k
      <4>1. QED
        BY <3>4, <3>5, OneMission
  <2>5. QED
    BY <2>3, <2>4
<1>9. ASSUME NEW m \in Ids, DeliverCancel(m) \/ \E success \in BOOLEAN : Finish(m, success)
      PROVE  Goal
  <2> DEFINE k == [job[m] EXCEPT !.task = "none"]
  <2>1. Sound(mission[m], job[m]) /\ job[m].task # "none"
    BY <1>9, <1>t DEF DeliverCancel, Finish, Running
  <2>2. mission[m].exists = TRUE /\ job[m].entry # "waiting"
    BY <2>1 DEF Sound, Consistent, Agrees, MissionRecord
  <2>3. k \in JobRecord /\ k.task = "none" /\ k.entry # "waiting"
    BY <2>1, <2>2 DEF Sound, JobRecord
  <2>4. job' = [job EXCEPT ![m] = k]
    BY <1>9, <1>t DEF DeliverCancel, Finish
  <2>5. PICK state \in Finished : mission' = [mission EXCEPT ![m] = Ended(mission[m], state)]
    BY <1>9, <1>t DEF DeliverCancel, Finish, Finished
  <2> HIDE DEF k
  <2>6. Sound(Ended(mission[m], state), k)
    BY <2>1, <2>2, <2>3, EndedSound
  <2>7. QED
    BY <2>4, <2>5, <2>6, OneMission
<1>10. ASSUME Stop PROVE Goal
  <2>1. mission' = mission /\ job' = [m \in Ids |-> Unscheduled(job[m])]
    BY <1>10 DEF Stop
  <2>2. ASSUME NEW m \in Ids PROVE Sound(mission[m], Unscheduled(job[m]))
    <3>1. Sound(mission[m], job[m])
      BY <1>t
    <3>2. Unscheduled(job[m]) \in JobRecord
      BY DEF Unscheduled, JobRecord
    <3>3. QED
      BY <3>1, <3>2 DEF Sound, Agrees, Unscheduled, Running
  <2>3. job' \in [Ids -> JobRecord]
    BY <2>1, <2>2 DEF Sound
  <2>4. QED
    BY <1>t, <2>1, <2>2, <2>3 DEF MissionsSound
<1>11. CASE Broadcast \/ Tick \/ UNCHANGED vars
  BY <1>11, <1>s DEF Broadcast, Tick, vars
<1>12. QED
  BY <1>1, <1>2, <1>3, <1>4, <1>5, <1>6, <1>7, <1>8, <1>9, <1>10, <1>11 DEF Next

(***************************************************************************)
(* Types, and the agreement of missions and jobs.                          *)
(***************************************************************************)
LEMMA InitInv == Init => IInv
<1> SUFFICES ASSUME Init PROVE IInv
  OBVIOUS
<1> DEFINE none == [NewMission EXCEPT !.exists = FALSE]
<1>1. none \in MissionRecord /\ Consistent(none)
  BY DEF NewMission, MissionRecord, Consistent, States, Waiting, Finished
<1>2. NoJob \in JobRecord /\ Agrees(none, NoJob)
  BY DEF NoJob, JobRecord, Agrees, NewMission
<1>3. Sound(none, NoJob)
  BY <1>1, <1>2 DEF Sound
<1>4. mission = [m \in Ids |-> none] /\ job = [m \in Ids |-> NoJob]
  BY DEF Init
<1>5. /\ queue = << >> /\ queue \in Seq(Ids) /\ Len(queue) <= QueueSize
      /\ now \in Times /\ DOMAIN view = Ids /\ lost = {} /\ up = TRUE
  BY ConstantsAssumption DEF Init, Times
<1> HIDE DEF none
<1>6. QED
  BY <1>1, <1>2, <1>3, <1>4, <1>5 DEF IInv, TypeOK, MissionsSound

(* What a step does to the queue, the clock and the clients' view.         *)
LEMMA StepQueue ==
  ASSUME IInv, [Next]_vars
  PROVE  /\ queue' \in Seq(Ids) /\ Len(queue') <= QueueSize /\ lost' \subseteq Ids
         /\ DOMAIN view' = Ids /\ now' \in Times /\ up' \in BOOLEAN
<1>t. /\ queue \in Seq(Ids) /\ Len(queue) <= QueueSize /\ lost \subseteq Ids
      /\ DOMAIN view = Ids /\ now \in Times /\ up \in BOOLEAN
  BY DEF IInv, TypeOK
<1> DEFINE Goal == /\ queue' \in Seq(Ids) /\ Len(queue') <= QueueSize /\ lost' \subseteq Ids
                   /\ DOMAIN view' = Ids /\ now' \in Times /\ up' \in BOOLEAN
<1>1. ASSUME NEW m \in Ids, NEW times, Updated(m, times), UNCHANGED <<view, now, up>>
      PROVE  Goal
  BY <1>1, <1>t, UpdatedFacts
<1>2. ASSUME NEW m \in Ids,
             \/ New(m) \/ UpdateParameters(m) \/ AuthorizeToStart(m)
             \/ RevokeAuthorization(m) \/ StartNow(m) \/ Run(m) \/ DeliverCancel(m)
             \/ \E t \in Times \cup {NoTime} : UpdateStartTime(m, t)
             \/ \E success \in BOOLEAN : Finish(m, success)
      PROVE  Goal
  <2>1. UNCHANGED <<view, now, up>> /\ \E times : Updated(m, times)
    BY <1>2 DEF New, UpdateParameters, AuthorizeToStart, RevokeAuthorization, StartNow,
                Run, DeliverCancel, UpdateStartTime, Finish
  <2>2. QED
    BY <1>1, <2>1
<1>3. ASSUME NEW m \in Ids, Cancel(m) PROVE Goal
  <2>1. UNCHANGED <<view, now, up>>
    BY <1>3 DEF Cancel
  <2>2. UNCHANGED <<queue, lost>> \/ Updated(m, Notices(mission[m]))
    BY <1>3 DEF Cancel
  <2>3. QED
    BY <1>1, <1>t, <2>1, <2>2
<1>4. ASSUME Broadcast PROVE Goal
  <2>1. Tail(queue) \in Seq(Ids) /\ Len(Tail(queue)) <= QueueSize
    BY <1>4, <1>t, ConstantsAssumption DEF Broadcast
  <2>2. DOMAIN view' = Ids
    BY <1>4, <1>t DEF Broadcast
  <2>3. QED
    BY <1>4, <1>t, <2>1, <2>2 DEF Broadcast
<1>5. ASSUME Tick PROVE Goal
  BY <1>5, <1>t, ConstantsAssumption DEF Tick, Times
<1>6. CASE Stop \/ UNCHANGED vars
  BY <1>6, <1>t DEF Stop, vars
<1>7. QED
  BY <1>2, <1>3, <1>4, <1>5, <1>6 DEF Next

LEMMA StepInv == IInv /\ [Next]_vars => IInv'
BY StepSound, StepQueue DEF IInv, TypeOK

LEMMA Invariance == Spec => []IInv
<1>1. QED
  BY InitInv, StepInv, PTL DEF Spec

(* Every variable keeps its type; in particular the queue of the notifier  *)
(* never exceeds its capacity.                                             *)
THEOREM TypeCorrect == Spec => []TypeOK
<1>1. IInv => TypeOK
  BY DEF IInv
<1>2. QED
  BY <1>1, Invariance, PTL

(* A waiting job belongs to a mission that may start at the time of the    *)
(* job: the scheduler never calls run() on any other mission.              *)
THEOREM JobsMatch == Spec => []JobsMatchMissions
<1>1. IInv => JobsMatchMissions
  BY DEF IInv, MissionsSound, Sound, Agrees, Consistent, JobsMatchMissions
<1>2. QED
  BY <1>1, Invariance, PTL

(* A mission that runs has a job through which it can be cancelled.        *)
THEOREM Reachable == Spec => []OngoingIsReachable
<1>1. IInv => OngoingIsReachable
  <2> SUFFICES ASSUME IInv, NEW m \in Ids
               PROVE  /\ mission[m].state = "ONGOING" <=> Running(job[m])
                      /\ Running(job[m]) =>
                           \/ job[m].task = "cancelled"
                           \/ job[m].entry = "started" /\ ~mission[m].cancel
    BY DEF OngoingIsReachable
  <2>1. Sound(mission[m], job[m])
    BY DEF IInv, MissionsSound
  <2>2. QED
    BY <2>1 DEF Sound, Agrees, Running, JobRecord
<1>2. QED
  BY <1>1, Invariance, PTL

(* The scheduler agrees with the missions whatever users ask for.          *)
THEOREM SchedulerAgrees == Spec => []JobsAgree
<1>1. JobsAgree <=> JobsMatchMissions /\ OngoingIsReachable
  BY DEF JobsAgree
<1>2. QED
  BY <1>1, JobsMatch, Reachable, PTL

(***************************************************************************)
(* Steps of the state.                                                     *)
(***************************************************************************)
(* How the state of one mission moves in a step.                           *)
LEMMA Moves ==
  ASSUME IInv, [Next]_vars, NEW n \in Ids, mission'[n].state # mission[n].state
  PROVE  \/ mission[n].state = "NEW" /\ mission'[n].state = "AUTHORIZED_TO_START"
         \/ mission[n].state = "AUTHORIZED_TO_START" /\ mission'[n].state = "NEW"
         \/ mission[n].state = "AUTHORIZED_TO_START" /\ mission'[n].state = "CANCELLED"
         \/ mission[n].state = "ONGOING" /\ mission'[n].state \in Finished
         \/ /\ mission[n].state = "AUTHORIZED_TO_START" /\ mission'[n].state = "ONGOING"
            /\ Run(n) /\ ~mission[n].cancel
<1>t. /\ mission \in [Ids -> MissionRecord]
      /\ \A m \in Ids : Sound(mission[m], job[m])
  BY DEF IInv, TypeOK, MissionsSound
<1> DEFINE Goal ==
         \/ mission[n].state = "NEW" /\ mission'[n].state = "AUTHORIZED_TO_START"
         \/ mission[n].state = "AUTHORIZED_TO_START" /\ mission'[n].state = "NEW"
         \/ mission[n].state = "AUTHORIZED_TO_START" /\ mission'[n].state = "CANCELLED"
         \/ mission[n].state = "ONGOING" /\ mission'[n].state \in Finished
         \/ /\ mission[n].state = "AUTHORIZED_TO_START" /\ mission'[n].state = "ONGOING"
            /\ Run(n) /\ ~mission[n].cancel
<1>m. mission[n] \in MissionRecord
  BY <1>t
<1>a. ASSUME NEW m \in Ids, NEW mi, mission' = [mission EXCEPT ![m] = mi]
      PROVE  m = n /\ mission'[n] = mi
  BY <1>a, <1>t
<1>1. ASSUME NEW m \in Ids, New(m) PROVE Goal
  <2>1. m = n /\ mission'[n] = NewMission
    BY <1>1, <1>a DEF New
  <2>2. mission[n].state = "NEW"
    BY <1>1, <1>m, <1>t, <2>1 DEF New, Sound, Consistent, MissionRecord
  <2>3. QED
    BY <2>1, <2>2 DEF NewMission
<1>2. ASSUME NEW m \in Ids, UpdateParameters(m) PROVE FALSE
  BY <1>2, <1>m, <1>t DEF UpdateParameters, MissionRecord
<1>3. ASSUME NEW m \in Ids, AuthorizeToStart(m) PROVE Goal
  <2>1. m = n /\ mission'[n] = Authorized(mission[n])
    BY <1>3, <1>a DEF AuthorizeToStart
  <2>2. mission[n].state \in Waiting /\ mission'[n].state = "AUTHORIZED_TO_START"
    BY <1>3, <1>m, <2>1 DEF AuthorizeToStart, NotStartedYet, Authorized, MissionRecord
  <2>3. QED
    BY <2>2 DEF Waiting
<1>4. ASSUME NEW m \in Ids, RevokeAuthorization(m) PROVE Goal
  <2>1. m = n /\ mission[n].state \in Waiting /\ mission'[n].state = "NEW"
    BY <1>4, <1>m, <1>t DEF RevokeAuthorization, NotStartedYet, MissionRecord
  <2>2. QED
    BY <2>1 DEF Waiting
<1>5. ASSUME NEW m \in Ids, NEW t \in Times \cup {NoTime}, UpdateStartTime(m, t) PROVE FALSE
  BY <1>5, <1>m, <1>t DEF UpdateStartTime, MissionRecord
<1>b. \A mi \in MissionRecord : mi.state \in Waiting =>
        Started(mi).state \in {mi.state, "AUTHORIZED_TO_START"}
  BY DEF Started, Authorized, MissionRecord
<1>6. ASSUME NEW m \in Ids, StartNow(m) PROVE Goal
  <2>1. m = n /\ mission'[n] = Started(mission[n]) /\ mission[n].state \in Waiting
    BY <1>6, <1>a DEF StartNow, NotStartedYet
  <2>2. mission'[n].state = "AUTHORIZED_TO_START"
    BY <1>b, <1>m, <2>1
  <2>3. QED
    BY <2>1, <2>2 DEF Waiting
<1>7. ASSUME NEW m \in Ids, Cancel(m) PROVE Goal
  <2>1. CASE mission[m].started
    BY <1>7, <1>m, <1>t, <2>1 DEF Cancel, MissionRecord
  <2>2. CASE ~mission[m].started
    <3>1. m = n /\ mission'[n] = [Started(mission[n]) EXCEPT !.cancel = TRUE]
      BY <1>7, <1>a, <2>2 DEF Cancel
    <3>2. mission[n].state \in Waiting
      BY <1>m, <1>t, <2>2, <3>1 DEF Sound, Consistent, MissionRecord
    <3>3. mission'[n].state = Started(mission[n]).state
      BY <1>m, <3>1 DEF Started, Authorized, MissionRecord
    <3>4. mission'[n].state = "AUTHORIZED_TO_START"
      BY <1>b, <1>m, <3>2, <3>3
    <3>5. QED
      BY <3>2, <3>4 DEF Waiting
  <2>3. QED
    BY <2>1, <2>2
<1>8. ASSUME NEW m \in Ids, Run(m) PROVE Goal
  <2>0. mission[m].state = "AUTHORIZED_TO_START"
    BY <1>8 DEF Run
  <2>1. CASE mission[m].cancel
    <3>1. m = n /\ mission'[n] = Ended(mission[n], "CANCELLED")
      BY <1>8, <1>a, <2>1 DEF Run
    <3>2. QED
      BY <1>m, <2>0, <3>1 DEF Ended, MissionRecord
  <2>2. CASE ~mission[m].cancel
    <3>1. mission' = [mission EXCEPT ![m].state = "ONGOING", ![m].started = TRUE]
      BY <1>8, <2>2 DEF Run
    <3>2. m = n /\ mission'[n].state = "ONGOING"
      BY <1>m, <1>t, <3>1 DEF MissionRecord
    <3>3. QED
      BY <1>8, <2>0, <2>2, <3>2
  <2>3. QED
    BY <2>1, <2>2
<1>9. ASSUME NEW m \in Ids, DeliverCancel(m) \/ \E success \in BOOLEAN : Finish(m, success)
      PROVE  Goal
  <2>1. job[m].task # "none"
    BY <1>9 DEF DeliverCancel, Finish, Running
  <2>2. PICK state \in Finished : mission' = [mission EXCEPT ![m] = Ended(mission[m], state)]
    BY <1>9, <1>t DEF DeliverCancel, Finish, Finished
  <2>3. m = n /\ mission'[n] = Ended(mission[n], state)
    BY <1>a, <2>2
  <2>4. mission[n].state = "ONGOING"
    BY <1>t, <2>1, <2>3 DEF Sound, Agrees
  <2>5. mission'[n].state = state
    BY <1>m, <2>3 DEF Ended, MissionRecord
  <2>6. QED
    BY <2>4, <2>5
<1>10. CASE Stop \/ Broadcast \/ Tick \/ UNCHANGED vars
  BY <1>10 DEF Stop, Broadcast, Tick, vars
<1>11. QED
  BY <1>1, <1>2, <1>3, <1>4, <1>5, <1>6, <1>7, <1>8, <1>9, <1>10 DEF Next

(* A mission starts its task only with a valid authorization of its        *)
(* current parameters, in time, and never after it was cancelled.          *)
THEOREM ConsentGiven == Spec => StartsByConsent
<1>1. ASSUME IInv, [Next]_vars, NEW m \in Ids,
             mission'[m].state = "ONGOING", mission[m].state # "ONGOING"
      PROVE  /\ mission[m].authorized /\ ~mission[m].cancel
             /\ mission[m].params = mission[m].approved
             /\ mission[m].startsAt # NoTime /\ mission[m].startsAt <= now
  <2>1. Run(m) /\ ~mission[m].cancel
    BY <1>1, Moves DEF Finished
  <2>2. Sound(mission[m], job[m])
    BY <1>1 DEF IInv, MissionsSound
  <2>3. QED
    BY <2>1, <2>2 DEF Run, Sound, Consistent, Agrees
<1>2. IInv /\ [Next]_vars =>
        \A m \in Ids :
          (mission'[m].state = "ONGOING" /\ mission[m].state # "ONGOING") =>
             /\ mission[m].authorized /\ ~mission[m].cancel
             /\ mission[m].params = mission[m].approved
             /\ mission[m].startsAt # NoTime /\ mission[m].startsAt <= now
  BY <1>1
<1>3. QED
  BY <1>2, Invariance, PTL DEF Spec, StartsByConsent

(* The state of a mission moves along its life cycle, whatever the order   *)
(* of requests, jobs and cancellations; the end of a mission is final.     *)
THEOREM LifeCycleKept == Spec => LifeCycle
<1> DEFINE Legal(m) == mission'[m].state # mission[m].state =>
       <<mission[m].state, mission'[m].state>> \in
          {<<"NEW", "AUTHORIZED_TO_START">>, <<"AUTHORIZED_TO_START", "NEW">>,
           <<"AUTHORIZED_TO_START", "ONGOING">>,
           <<"AUTHORIZED_TO_START", "CANCELLED">>}
          \cup ({"ONGOING"} \X Finished)
<1>1. ASSUME IInv, [Next]_vars, NEW m \in Ids PROVE Legal(m)
  BY <1>1, Moves
<1>2. IInv /\ [Next]_vars => \A m \in Ids : Legal(m)
  BY <1>1
<1>3. QED
  BY <1>2, Invariance, PTL DEF Spec, LifeCycle

(***************************************************************************)
(* The news of the clients.                                                *)
(***************************************************************************)
(* What the clients do not know of is on its way, or was dropped.          *)
Fresh(m) ==
  mission[m].exists = TRUE =>
    view[m] = Snapshot(mission[m]) \/ m \in InQueue(queue) \/ m \in lost

(* A step that changes a mission m only, and tells the notifier of it.     *)
LEMMA UpdatedFresh ==
  ASSUME IInv, NEW m \in Ids, NEW times, Updated(m, times), view' = view,
         \A n \in Ids \ {m} : mission'[n] = mission[n],
         \A n \in Ids : Fresh(n)
  PROVE  \A n \in Ids : Fresh(n)'
<1>1. /\ InQueue(queue) \subseteq InQueue(queue') /\ lost \subseteq lost'
      /\ m \in InQueue(queue') \cup lost'
  BY UpdatedFacts
<1>2. SUFFICES ASSUME NEW n \in Ids PROVE Fresh(n)'
  OBVIOUS
<1>3. CASE n = m
  BY <1>1, <1>3 DEF Fresh
<1>4. CASE n # m
  <2>1. mission'[n] = mission[n] /\ Fresh(n)
    BY <1>4
  <2>2. QED
    BY <1>1, <2>1 DEF Fresh, Snapshot
<1>5. QED
  BY <1>3, <1>4

(* An item that is in the queue and not at its head stays in it.           *)
LEMMA TailKeeps ==
  ASSUME NEW q \in Seq(Ids), q # << >>, NEW m \in InQueue(q), m # Head(q)
  PROVE  m \in InQueue(Tail(q))
<1>1. PICK i \in DOMAIN q : q[i] = m
  BY DEF InQueue
<1>2. Len(q) \in Nat /\ DOMAIN q = 1 .. Len(q) /\ Head(q) = q[1]
  BY HeadTailProperties, LenProperties
<1>3. i \in 2 .. Len(q)
  BY <1>1, <1>2
<1>4. /\ DOMAIN Tail(q) = 1 .. Len(q) - 1
      /\ Tail(q)[i - 1] = q[i]
  BY <1>2, <1>3
<1>5. i - 1 \in DOMAIN Tail(q)
  BY <1>2, <1>3, <1>4
<1>6. QED
  BY <1>1, <1>4, <1>5 DEF InQueue

LEMMA StepFresh ==
  ASSUME IInv, [Next]_vars, \A m \in Ids : Fresh(m)
  PROVE  \A m \in Ids : Fresh(m)'
<1>t. mission \in [Ids -> MissionRecord] /\ DOMAIN view = Ids /\ queue \in Seq(Ids)
  BY DEF IInv, TypeOK
<1>1. ASSUME NEW m \in Ids,
             \/ New(m) \/ UpdateParameters(m) \/ AuthorizeToStart(m)
             \/ RevokeAuthorization(m) \/ StartNow(m) \/ Run(m) \/ DeliverCancel(m)
             \/ \E t \in Times \cup {NoTime} : UpdateStartTime(m, t)
             \/ \E success \in BOOLEAN : Finish(m, success)
      PROVE  \A n \in Ids : Fresh(n)'
  <2>1. view' = view /\ \E times : Updated(m, times)
    BY <1>1 DEF New, UpdateParameters, AuthorizeToStart, RevokeAuthorization, StartNow,
                Run, DeliverCancel, UpdateStartTime, Finish
  <2>2. \A n \in Ids \ {m} : mission'[n] = mission[n]
    BY <1>1, <1>t DEF New, UpdateParameters, AuthorizeToStart, RevokeAuthorization,
                StartNow, Run, DeliverCancel, UpdateStartTime, Finish
  <2>3. QED
    BY <2>1, <2>2, UpdatedFresh
<1>2. ASSUME NEW m \in Ids, Cancel(m) PROVE \A n \in Ids : Fresh(n)'
  <2>1. view' = view /\ \A n \in Ids \ {m} : mission'[n] = mission[n]
    BY <1>2, <1>t DEF Cancel
  <2>2. CASE ~mission[m].started
    <3>1. Updated(m, Notices(mission[m]))
      BY <1>2, <2>2 DEF Cancel
    <3>2. QED
      BY <2>1, <3>1, UpdatedFresh
  <2>3. CASE mission[m].started
    <3>1. /\ mission' = [mission EXCEPT ![m].cancel = TRUE]
          /\ queue' = queue /\ lost' = lost
      BY <1>2, <2>3 DEF Cancel
    <3>2. mission'[m].exists = mission[m].exists /\ Snapshot(mission'[m]) = Snapshot(mission[m])
      BY <1>t, <3>1 DEF Snapshot, MissionRecord
    <3>3. ASSUME NEW n \in Ids PROVE Fresh(n)'
      <4>1. mission'[n].exists = mission[n].exists /\ Snapshot(mission'[n]) = Snapshot(mission[n])
        BY <2>1, <3>2
      <4>2. Fresh(n)
        OBVIOUS
      <4>3. QED
        BY <2>1, <3>1, <4>1, <4>2 DEF Fresh, Snapshot
    <3>4. QED
      BY <3>3
  <2>4. QED
    BY <2>2, <2>3
<1>3. ASSUME Broadcast PROVE \A n \in Ids : Fresh(n)'
  <2> DEFINE h == Head(queue)
  <2>1. /\ queue # << >> /\ queue' = Tail(queue) /\ mission' = mission
        /\ view' = [view EXCEPT ![h] = Snapshot(mission[h])] /\ lost' = lost \ {h}
    BY <1>3 DEF Broadcast
  <2> HIDE DEF h
  <2>2. ASSUME NEW n \in Ids PROVE Fresh(n)'
    <3>1. CASE n = h
      <4>1. view'[n] = Snapshot(mission'[n])
        BY <1>t, <2>1, <3>1 DEF Snapshot
      <4>2. QED
        BY <4>1 DEF Fresh, Snapshot
    <3>2. CASE n # h
      <4>1. view'[n] = view[n] /\ mission'[n] = mission[n]
        BY <1>t, <2>1, <3>2
      <4>2. n \in InQueue(queue) => n \in InQueue(queue')
        BY <1>t, <2>1, <3>2, TailKeeps DEF h
      <4>3. n \in lost => n \in lost'
        BY <2>1, <3>2
      <4>4. Fresh(n)
        OBVIOUS
      <4>5. QED
        BY <4>1, <4>2, <4>3, <4>4 DEF Fresh, Snapshot
    <3>3. QED
      BY <3>1, <3>2
  <2>3. QED
    BY <2>2
<1>4. CASE Stop \/ Tick \/ UNCHANGED vars
  BY <1>4 DEF Stop, Tick, vars, Fresh, Snapshot, InQueue
<1>5. QED
  BY <1>1, <1>2, <1>3, <1>4 DEF Next

(* What the clients were last told of a mission is current, or another     *)
(* broadcast is due, or the update was dropped with no other update of the *)
(* mission in the queue.                                                   *)
THEOREM ClientsHear == Spec => []NewsIsOnItsWay
<1> DEFINE AllFresh == \A m \in Ids : Fresh(m)
<1>1. Init => IInv /\ AllFresh
  <2>1. Init => AllFresh
    BY DEF Init, Fresh, NewMission
  <2>2. QED
    BY <2>1, InitInv
<1>2. IInv /\ AllFresh /\ [Next]_vars => IInv' /\ AllFresh'
  BY StepInv, StepFresh
<1>3. IInv /\ AllFresh => NewsIsOnItsWay
  BY DEF Fresh, NewsIsOnItsWay
<1>4. QED
  BY <1>1, <1>2, <1>3, PTL DEF Spec
=============================================================================
