------------------------------ MODULE Missions ------------------------------
(***************************************************************************)
(* The mission extension (ext/missions): missions with their life cycle    *)
(* (model.py), the task that keeps a job in the scheduler for each mission *)
(* that is to start, the task that tells the clients about updated         *)
(* missions (tasks.py), and the X-MSN-... requests that drive them         *)
(* (extension.py).                                                         *)
(*                                                                         *)
(* Time is counted in ticks.  time() is read anew by every operation, so a *)
(* start time that was just set to "now" is in the past when the scheduler *)
(* looks at it.                                                            *)
(***************************************************************************)
EXTENDS Integers, Sequences, FiniteSets

CONSTANTS
  Ids,          \* identifiers of the missions
  MaxTime,      \* bound: the last tick
  QueueSize     \* items the update queue of the notifier can hold (16)

ASSUME ConstantsAssumption == MaxTime \in Nat /\ QueueSize \in Nat \ {0}

NoTime == -1
Times == 0 .. MaxTime

VARIABLES
  mission,    \* the Mission objects
  job,        \* _missions_to_jobs and the jobs in the scheduler
  queue,      \* update queue of the notifier, oldest first
  view,       \* (history) the mission as it was last broadcast to the clients
  lost,       \* (history) missions with an update dropped from the full queue
              \* while no other update of theirs was in it
  now,        \* the wall clock
  up          \* whether the extension is running

vars == <<mission, job, queue, view, lost, now, up>>

Waiting == {"NEW", "AUTHORIZED_TO_START"}
Finished == {"CANCELLED", "SUCCESSFUL", "FAILED"}
States == Waiting \cup {"ONGOING"} \cup Finished

(* The fields of a mission; "params" and "approved" stand for the version  *)
(* of its parameters and for the version that was authorized last.  The    *)
(* timestamps that only record that something happened are flags.          *)
MissionRecord ==
  [exists : BOOLEAN, state : States, authorized : BOOLEAN,
   startsAt : Times \cup {NoTime}, late_ok : BOOLEAN, cancel : BOOLEAN,
   started : BOOLEAN, finished : BOOLEAN, params : BOOLEAN, approved : BOOLEAN]

NewMission ==
  [exists |-> TRUE, state |-> "NEW", authorized |-> FALSE, startsAt |-> NoTime,
   late_ok |-> FALSE, cancel |-> FALSE, started |-> FALSE, finished |-> FALSE,
   params |-> FALSE, approved |-> FALSE]

(* A job: whether _missions_to_jobs has it and it waits for its start time *)
(* or was started, that start time, and the state of its task.             *)
JobRecord ==
  [entry : {"none", "waiting", "started"}, due : Times \cup {NoTime},
   task : {"none", "running", "cancelled"}]

NoJob == [entry |-> "none", due |-> NoTime, task |-> "none"]

(* What the clients see of a mission (its JSON representation).            *)
Snapshot(mi) ==
  [state |-> mi.state, authorized |-> mi.authorized, startsAt |-> mi.startsAt,
   started |-> mi.started, finished |-> mi.finished, params |-> mi.params]

InQueue(q) == {q[i] : i \in DOMAIN q}

TypeOK ==
  /\ mission \in [Ids -> MissionRecord]
  /\ job \in [Ids -> JobRecord]
  /\ queue \in Seq(Ids) /\ Len(queue) <= QueueSize
  /\ DOMAIN view = Ids
  /\ lost \subseteq Ids
  /\ now \in Times
  /\ up \in BOOLEAN

Init ==
  /\ mission = [m \in Ids |-> [NewMission EXCEPT !.exists = FALSE]]
  /\ job = [m \in Ids |-> NoJob]
  /\ queue = << >>
  /\ view = [m \in Ids |-> Snapshot(NewMission)]
  /\ lost = {}
  /\ now = 0
  /\ up = TRUE

(***************************************************************************)
(* The scheduler task.                                                     *)
(***************************************************************************)
Running(j) == j.task # "none"

(* _unschedule_mission(): Scheduler.cancel() takes a waiting job off its   *)
(* queue and cancels the scope of a running one.                           *)
Unscheduled(j) ==
  [entry |-> "none", due |-> NoTime,
   task |-> IF Running(j) THEN "cancelled" ELSE "none"]

\* Mutant: a mission that lost its start time or authorization keeps its job.
JobFor_KeepsJob(mi, j) ==
  IF mi.finished \/ ~mi.authorized \/ mi.startsAt = NoTime THEN j
  ELSE IF Running(j) THEN IF mi.cancel THEN Unscheduled(j) ELSE j
  ELSE IF mi.startsAt <= now /\ ~mi.late_ok THEN Unscheduled(j)
  ELSE [entry |-> "waiting", due |-> mi.startsAt, task |-> "none"]

\* Mutant: a running job is not looked at.
JobFor_IgnoresCancel(mi, j) ==
  IF mi.finished \/ ~mi.authorized \/ mi.startsAt = NoTime THEN Unscheduled(j)
  ELSE IF Running(j) THEN j
  ELSE IF mi.startsAt <= now /\ ~mi.late_ok THEN Unscheduled(j)
  ELSE [entry |-> "waiting", due |-> mi.startsAt, task |-> "none"]

(* _update_mission_in_scheduler(): the job of a mission after a signal of  *)
(* the mission.  A start time in the past is refused, by schedule_at() as  *)
(* by reschedule_to(), unless the mission is allowed to start late.        *)
JobFor(mi, j) ==
  IF mi.finished \/ ~mi.authorized \/ mi.startsAt = NoTime THEN Unscheduled(j)
  ELSE IF Running(j) THEN IF mi.cancel THEN Unscheduled(j) ELSE j
  ELSE IF mi.startsAt <= now /\ ~mi.late_ok THEN Unscheduled(j)
  ELSE [entry |-> "waiting", due |-> mi.startsAt, task |-> "none"]

(***************************************************************************)
(* The notifier task.                                                      *)
(***************************************************************************)
\* Mutant: an update is dropped one place too early.
Pushed_Early(q, m) == IF Len(q) < QueueSize - 1 THEN Append(q, m) ELSE q

(* _on_mission_updated() drops the update if the queue is full.            *)
Pushed(q, m) == IF Len(q) < QueueSize THEN Append(q, m) ELSE q

(* notify_updated() is called "times" times in one go.                     *)
Updated(m, times) ==
  /\ queue' = IF times = 1 THEN Pushed(queue, m) ELSE Pushed(Pushed(queue, m), m)
  /\ lost' = IF Len(queue) = QueueSize /\ m \notin InQueue(queue)
             THEN lost \cup {m} ELSE lost

(* The loop of the notifier: the message is built from the mission as it   *)
(* is when its turn comes.                                                 *)
Broadcast ==
  /\ up /\ queue # << >>
  /\ view' = [view EXCEPT ![Head(queue)] = Snapshot(mission[Head(queue)])]
  /\ lost' = lost \ {Head(queue)}
  /\ queue' = Tail(queue)
  /\ UNCHANGED <<mission, job, now, up>>

(***************************************************************************)
(* Requests.  One that is refused has no effect.                           *)
(***************************************************************************)
(* X-MSN-NEW whose parameters are accepted; otherwise the mission is taken *)
(* out of the registry again before anything else can happen.              *)
New(m) ==
  /\ up /\ ~mission[m].exists
  /\ mission' = [mission EXCEPT ![m] = NewMission]
  /\ Updated(m, 1)
  /\ UNCHANGED <<job, view, now, up>>

NotStartedYet(m) == up /\ mission[m].exists /\ mission[m].state \in Waiting

(* X-MSN-PARAM.                                                            *)
UpdateParameters(m) ==
  /\ up /\ mission[m].exists /\ mission[m].state = "NEW"
  /\ mission' = [mission EXCEPT ![m].params = ~@]
  /\ Updated(m, 1)
  /\ UNCHANGED <<job, view, now, up>>

Authorized(mi) ==
  [mi EXCEPT !.authorized = TRUE, !.state = "AUTHORIZED_TO_START",
             !.approved = mi.params]

(* X-MSN-AUTH: a second authorization changes nothing.                     *)
AuthorizeToStart(m) ==
  /\ NotStartedYet(m) /\ ~mission[m].authorized
  /\ mission' = [mission EXCEPT ![m] = Authorized(@)]
  /\ job' = [job EXCEPT ![m] = JobFor(mission'[m], @)]
  /\ Updated(m, 1)
  /\ UNCHANGED <<view, now, up>>

(* X-MSN-AUTH that takes the authorization back.                           *)
RevokeAuthorization(m) ==
  /\ NotStartedYet(m)
  /\ mission[m].state # "NEW" \/ mission[m].authorized
  /\ mission' = [mission EXCEPT ![m].authorized = FALSE, ![m].state = "NEW"]
  /\ job' = [job EXCEPT ![m] = JobFor(mission'[m], @)]
  /\ Updated(m, 1)
  /\ UNCHANGED <<view, now, up>>

(* X-MSN-SCHED sets or clears the start time.                              *)
UpdateStartTime(m, t) ==
  /\ NotStartedYet(m) /\ mission[m].startsAt # t
  /\ mission' = [mission EXCEPT ![m].startsAt = t]
  /\ job' = [job EXCEPT ![m] = JobFor(mission'[m], @)]
  /\ Updated(m, 1)
  /\ UNCHANGED <<view, now, up>>

(* start_now(): the start time changes, which is signalled, and then the   *)
(* authorization, unless the mission has it already.                       *)
Started(mi) ==
  LET timed == [mi EXCEPT !.startsAt = now, !.late_ok = TRUE]
  IN IF mi.authorized THEN timed ELSE Authorized(timed)
Notices(mi) == IF mi.authorized THEN 1 ELSE 2

(* X-MSN-START.                                                            *)
StartNow(m) ==
  /\ NotStartedYet(m) /\ ~mission[m].started
  /\ mission' = [mission EXCEPT ![m] = Started(@)]
  /\ job' = [job EXCEPT ![m] = JobFor(mission'[m], @)]
  /\ Updated(m, Notices(mission[m]))
  /\ UNCHANGED <<view, now, up>>

(* X-MSN-CANCEL: a mission that was not started is started at once, to be  *)
(* cancelled when it runs.  A second request has no effect.                *)
Cancel(m) ==
  /\ up /\ mission[m].exists /\ ~mission[m].cancel
  /\ IF mission[m].started
     THEN /\ mission' = [mission EXCEPT ![m].cancel = TRUE]
          /\ UNCHANGED <<queue, lost>>
     ELSE /\ mission' = [mission EXCEPT ![m] = [Started(@) EXCEPT !.cancel = TRUE]]
          /\ Updated(m, Notices(mission[m]))
  /\ job' = [job EXCEPT ![m] = JobFor(mission'[m], @)]
  /\ UNCHANGED <<view, now, up>>

(***************************************************************************)
(* Running missions.                                                       *)
(***************************************************************************)
Ended(mi, state) == [mi EXCEPT !.state = state, !.started = TRUE, !.finished = TRUE]

\* Mutant: the mission runs although it was cancelled.
Run_IgnoresCancel(m) ==
  /\ up /\ job[m].entry = "waiting" /\ job[m].due <= now
  /\ mission[m].state = "AUTHORIZED_TO_START"
  /\ mission' = [mission EXCEPT ![m].state = "ONGOING", ![m].started = TRUE]
  /\ job' = [job EXCEPT ![m].entry = "started", ![m].task = "running"]
  /\ Updated(m, 1)
  /\ UNCHANGED <<view, now, up>>

(* The scheduler starts a job when its time has come, and Mission.run()    *)
(* begins; a mission that is cancelled already ends there.                 *)
Run(m) ==
  /\ up /\ job[m].entry = "waiting" /\ job[m].due <= now
  /\ mission[m].state = "AUTHORIZED_TO_START"
  /\ IF mission[m].cancel
     THEN /\ mission' = [mission EXCEPT ![m] = Ended(@, "CANCELLED")]
          /\ job' = [job EXCEPT ![m].entry = "started"]
     ELSE /\ mission' = [mission EXCEPT ![m].state = "ONGOING", ![m].started = TRUE]
          /\ job' = [job EXCEPT ![m].entry = "started", ![m].task = "running"]
  /\ Updated(m, 1)
  /\ UNCHANGED <<view, now, up>>

(* The task of the mission returns or fails; it may do so although it was  *)
(* cancelled, if it does not wait for anything any more.                   *)
Finish(m, success) ==
  /\ Running(job[m])
  /\ mission' = [mission EXCEPT ![m] =
       Ended(@, IF ~success THEN "FAILED"
                ELSE IF @.cancel THEN "CANCELLED" ELSE "SUCCESSFUL")]
  /\ job' = [job EXCEPT ![m].task = "none"]
  /\ Updated(m, 1)
  /\ UNCHANGED <<view, now, up>>

(* The cancellation of the job reaches the task of the mission.            *)
DeliverCancel(m) ==
  /\ job[m].task = "cancelled"
  /\ mission' = [mission EXCEPT ![m] = Ended(@, "CANCELLED")]
  /\ job' = [job EXCEPT ![m].task = "none"]
  /\ Updated(m, 1)
  /\ UNCHANGED <<view, now, up>>

Tick ==
  /\ now < MaxTime
  /\ now' = now + 1
  /\ UNCHANGED <<mission, job, queue, view, lost, up>>

(* The extension is stopped: the scheduler, the notifier and everything in *)
(* them is cancelled.                                                      *)
Stop ==
  /\ up
  /\ up' = FALSE
  /\ job' = [m \in Ids |-> Unscheduled(job[m])]
  /\ UNCHANGED <<mission, queue, view, lost, now>>

Next ==
  \/ \E m \in Ids :
        \/ New(m) \/ UpdateParameters(m)
        \/ AuthorizeToStart(m) \/ RevokeAuthorization(m)
        \/ \E t \in Times \cup {NoTime} : UpdateStartTime(m, t)
        \/ StartNow(m) \/ Cancel(m)
        \/ Run(m) \/ DeliverCancel(m)
        \/ \E success \in BOOLEAN : Finish(m, success)
  \/ Broadcast
  \/ Tick
  \/ Stop

Spec == Init /\ [][Next]_vars

(* Time passes, and Trio runs the scheduler, the notifier and the tasks it *)
(* cancelled.                                                              *)
FairSpec ==
  /\ Spec
  /\ WF_vars(Tick) /\ WF_vars(Broadcast)
  /\ \A m \in Ids : WF_vars(Run(m)) /\ WF_vars(DeliverCancel(m))

(***************************************************************************)
(* Properties.                                                             *)
(***************************************************************************)
(* The scheduler and the missions agree: a job waits exactly for what the  *)
(* mission says and only as long as the mission may start, so that         *)
(* Mission.run(), which raises an error in any other state, is never       *)
(* started in vain.                                                        *)
JobsMatchMissions ==
  \A m \in Ids : job[m].entry = "waiting" =>
    /\ mission[m].state = "AUTHORIZED_TO_START" /\ mission[m].authorized
    /\ mission[m].startsAt = job[m].due /\ job[m].due # NoTime

(* A mission that runs can always be reached by a cancellation: its job is *)
(* registered, or was cancelled already; and one that the user cancelled   *)
(* is being cancelled.                                                     *)
OngoingIsReachable ==
  \A m \in Ids :
    /\ mission[m].state = "ONGOING" <=> Running(job[m])
    /\ Running(job[m]) =>
         \/ job[m].task = "cancelled"
         \/ job[m].entry = "started" /\ ~mission[m].cancel

(* The scheduler, the missions and the running tasks agree with each other *)
(* after any sequence of requests: none starts in vain or out of reach.    *)
JobsAgree == JobsMatchMissions /\ OngoingIsReachable

(* A mission starts its task only if it was authorized to, with the        *)
(* parameters that were authorized, not before its start time, and never   *)
(* after it was cancelled.                                                 *)
StartsByConsent ==
  [][\A m \in Ids :
       (mission'[m].state = "ONGOING" /\ mission[m].state # "ONGOING") =>
         /\ mission[m].authorized /\ ~mission[m].cancel
         /\ mission[m].params = mission[m].approved
         /\ mission[m].startsAt # NoTime /\ mission[m].startsAt <= now]_vars

(* The states follow the life cycle; in particular an end is final.        *)
LifeCycle ==
  [][\A m \in Ids : mission'[m].state # mission[m].state =>
       <<mission[m].state, mission'[m].state>> \in
          {<<"NEW", "AUTHORIZED_TO_START">>, <<"AUTHORIZED_TO_START", "NEW">>,
           <<"AUTHORIZED_TO_START", "ONGOING">>,
           <<"AUTHORIZED_TO_START", "CANCELLED">>}
          \cup ({"ONGOING"} \X Finished)]_vars

(* The clients' picture of a mission is current, or an update is on the    *)
(* way, or the full queue has dropped the update while it held updates of  *)
(* other missions only.  Dropping an update does no harm otherwise, as the *)
(* message is built when it is sent.                                       *)
NewsIsOnItsWay ==
  \A m \in Ids : mission[m].exists =>
    view[m] = Snapshot(mission[m]) \/ m \in InQueue(queue) \/ m \in lost

(* The user's cancellation of a running mission ends it.                   *)
CancelEndsOngoing ==
  \A m \in Ids :
    (mission[m].state = "ONGOING" /\ mission[m].cancel) ~> mission[m].finished
=============================================================================
