# Skybrush server: TLA+ models, model checking and proofs

This directory holds TLA+ models of the parts of the server (`src/src/flockwave/server`) that
keep protocol state, the TLC configurations that check them on small instances, and proofs of
their main properties for instances of any size. `PROJECT.json` maps every definition to the
lines it models. Paths below are relative to `src/src/flockwave/server` unless they start with
`src/`.

The server is a single-threaded Trio program. Tasks switch only at checkpoints (`await`s that
may block), so an action of a model is what one task does between two checkpoints, or one whole
handler that has none. Interleavings are those of tasks at checkpoints, not of threads.

## 1. The system

| Part | State | Operations | What is hard |
|---|---|---|---|
| asynchronous command manager (`commands.py`, `model/commands.py`, handlers in `app.py`) | registered receipts, deadline, cancel scope and suspension of each command | create, execute, cancel, resume, clean up | four tasks may end the same command; receipts must be sent before notices; deadlines are switched off and on |
| device tree (`model/devices.py`) | tree of nodes, subscribers of each, paths that clients wait for | objects come and go, DEV-SUB, DEV-UNSUB, clients leave | subscriptions move between nodes and the waiting lists in long sequences of legal calls |
| missions (`ext/missions`) | missions, their jobs in the scheduler, a queue of updates | create, authorize, revoke, set time, start, cancel, run, finish | the user changes a mission between its due time and its start; a bounded queue drops updates |
| virtual UAVs (`ext/virtual_uavs`) | state machine of a drone, target, trajectory, lights, motors, boot loop | operator signals, steps, resets, shutdowns | signals in any order, each after a sleep; timers that survive a reboot |
| connection status notifications (`message_hub.py`, `registries/connections.py`) | requests, an entry per connection that has begun a transition, a rendezvous channel | change of state, wait, settle, dispatch | three kinds of tasks race; news is held back, and notifications are made with a later state |
| message hub (`message_hub.py`) | outgoing queue, handlers, middleware | send, broadcast, acknowledge | one task per message, so messages overtake; dropped messages are never acknowledged |
| client sessions (`registries/clients.py`, `ext/connection_limits.py`, `ext/auto_shutdown.py`) | clients, deadlines, count | come, leave, authenticate, expire, be disconnected | a graceful disconnection against its timeout and against the client |
| registries (`registries`) | dictionaries with signals | add, remove, look up | order of signals; errors after half of the work |
| progress reporting (`tasks/progress.py`) | suspended, last progress, closed | notify, suspend, resume, iterate | one task consumes while another one feeds |
| show start and clocks (`ext/show`, `ext/clocks.py`) | show clock, its primary clock, start settings | synchronize, start, stop | clocks come and go while they are followed |
| MAVLink (`ext/mavlink`) | connection states of drones, pending replies, FTP sessions, log downloads, scheduled takeoff | packets, retries, configuration | lost, late and repeated packets; configuration changes during an upload |
| RTK (`ext/rtk`) | current preset and its connections, survey | switch, survey, hot plug | a switch requested during a switch |
| authentication, licensing | user of a client | check | little state |
| transports, web servers, frontends, sensors, remote controllers, discovery, logging | sockets and last values | I/O | outside of the program's own logic |
| swarm, search and split missions, cameras (`swarm.py`, `search.py`, `VTOL`, `Cam_Control`, ...) | global variables, files of coordinates | geometry, blocking I/O | floating-point numbers |
| gateway, proxy, simulator (`src/src/flockwave/gateway`, `proxy`, `simulator`) | a pool of worker processes | start, stop | separate programs |

How they interact: a transport registers a client (`ClientRegistry.use()`) and hands its
messages to the message hub, whose handlers in `app.py` call the component that owns the state.
A handler returns a response; a driver method that returned an awaitable becomes a command with
a receipt in the response, and the hub starts it after the response is sent. Components tell
others of changes with synchronous signals (objects added and removed, clients that come and
leave, missions updated, connections that change), and tell clients through the hub's queue,
directly or through rate limiters. Missions and commands use periodic tasks and deadlines.

What makes each part correct: a client that knows a receipt gets one verdict (commands); whoever
subscribed is told, and nobody else, and nothing is left of who is gone (device tree); no
mission starts without consent, all that was started or cancelled ends, and clients hear of it
(missions); motors, clock and lights agree with the flight, which ends (virtual UAVs); clients
see the true state of a connection in the end (connection news); limits hold, who is disconnected
leaves, and a broadcast reaches all and ends (sessions, hub); the show clock follows the
configuration and a show starts with consent, in time, or is called off (show); each drone gets the
last start time and authorization (scheduled takeoff); the server knows whether a drone is there
and makes it send its status (MAVLink drone); the preset that is shown is the one that runs (RTK);
a log that is declared downloaded is the right one (log download). Not modelled: no suspension is
lost (progress), registries agree with each other (registries).

## 2. What is modelled

### Asynchronous commands: `CommandExecution`, `CommandPromise`

`CommandExecution` has one action for each stretch of the code between checkpoints.
`BeginRequest`, `New`, `EnqueueResponse`, `SendResponse` and `LoseResponse` are the request
handler (`app.py`) with its response on the way through the hub; `ExecuteValue`, `ExecuteAsync`,
`Start` the executor and its spawning of tasks; `Complete`, `ReportProgress`,
`SuspendOperation`, `Wake...`, `DeliverCancel` the operation; `DeadlinePasses`, `TrioDeadline`,
`Cleanup` time; `Cancel` and `Resume` the client. `entries` is `_commands`, `outcome` the
timestamps of a status, `scope` its cancel scope, `timer` its deadline (ahead, passed, or
infinite), and `told` the notices sent to the client. `up` is false once the queue to the
executor has overflowed and `WouldBlock` has left the hub: everything stops then.

`CommandPromise` is the abstract specification: a command is open, then ended; a known one gets
exactly one verdict unless it was withdrawn. `CommandExecution` implements it under a refinement
mapping (`KeepsPromise`).

### Device tree: `DeviceSubscriptions`

The tree has an object node per registered object and its channels. `subs` is the counter of
each client at each node, `pending` the list of paths that do not exist yet. Objects either
return with their old nodes (`Lasting`: the same object is registered again) or with new ones.
`StructureChanged` is the resolution of pending paths, with the code's quirk that the *first*
entry of the list is dropped for each one found. `asked` and `told` are history variables.

### Missions: `Missions`

`mission` has the fields of the code's objects with booleans for timestamps that are only
compared with `None`; `job` is the scheduler's table together with the state of the job's task;
`queue` is the update queue. Every request is one action with all of its signals: `JobFor` is
the reaction of the scheduler task, `Updated` that of the notifier. `Tick`, `Run`, `Finish`,
`DeliverCancel`, `Broadcast` are time, the scheduler, missions, Trio and the notifier. `view` is
what clients were told last.

### Virtual UAVs: `VirtualUAV`

A drone is a record. Operators on records (`Takeoff`, `Land`, `WithTarget`, `Followed`, `Moved`,
...) are the methods of `VirtualUAV`; actions are signals (after their sleep), one call of
`step()`, and stations of the boot loop. A step moves the drone by at most one unit of altitude;
horizontally it is at one of a few places. Every drone has its own trajectory player; `timers`
counts the calls of `_notify_autopilot_initialized()` that are pending, those of earlier boots
included.

### Connection news: `ConnectionNews`

`requests` is the queue of `ConnectionStatusMessageRateLimiter`, `data` its entries, `blocked`
the tasks that are blocked in `dispatch_tx_queue.send()` (the channel has no buffer), `orphans`
the waiting tasks whose entry has been dropped. `HandleOddTransition`, `HandleTransition`,
`HandleReturn` and `HandleStable` are the four ways through the body of the loop, `SettleTimeOut` and
`OrphanTimeOut` the ends of `wait_to_see_if_settles()`, `Dispatch` and `Accept` the dispatcher.
The notification gets the state at the time it is created (`create_CONN_INF_message_for()`),
so `told` takes `conn`, not the state in the request. Connections change their state at any
time: `flockwave.connections` is an external package, and virtual and real connections do so.

### Client sessions and broadcasts: `ClientSessions`

`conn` is the connection of a client over TCP: `"open"`, `"closed"` while requests of it are still
handled and it stays in the registry, `"gone"`. `closers` counts the calls of
`disconnect_client()` that wait until their farewell is sent (`Close`) or give up (`TimeOut`);
they are begun by `Connect` when there are too many clients, by `DisconnectExpired`, again and
again, and by `CheckAuth`. `idle` is the timer of the automatic shutdown. `methods` is the list of
receivers that the hub keeps from one broadcast to the next and drops when somebody comes or
goes; `todo` is what is left of it for the task of a broadcast, which sends to one client after
the other and stops at a client that does not read.

### Start of a show: `ShowStart`

A clock is represented by the time at which it shows zero, so that a running clock needs no
action. `ClockChanged` is any start, stop or adjustment of a clock of another extension together
with what the two clocks of the show do about it (`Followed`). `Configure` is a whole update of
the configuration: settings, clocks, the cancellation and creation of the two tasks;
`ConfigureHalf` is an update that fails in the middle, at a clock that does not exist. `tasks` are
`start_show_when_needed()` and the countdown, with the stage of `wait_until()` they are in
(`"edge"`: the clock has to come back before the moment; `"wait"`: it runs towards it) and what
they remember: whether the clock ran, and whether a change has woken them. `ghosts` are cancelled
tasks that have not heard of it; `RunGhost` is their last step.

### Scheduled takeoff: `ScheduledTakeoff`

`Broadcast` and `Scan` are the two halves of one round of the loop, which awaits in between, so
that the scan uses the setting (`plan`) of the broadcast. What is awaited is a place in the outbound
queue (`comm.py:214`): the packet need not have been sent when the scan begins, nor when the plans
change. `outbound` is that queue with the senders that wait for a place in it. `Deliver` lets its
first packet reach one drone, any number of times for any number of drones, and changes the drone to
what was wanted when the packet was *made*; `PacketSent` takes the packet out of the queue
(`comm.py:445`), and drones that it has not reached have lost it.
`Begin` gives a queued update its turn, which reads the configuration *then*; `SetParameter` makes
its packet, `Answered` and `TimeOut` are the exchange with the drone, where a packet may be sent
long after its update has ended and an answer may belong to another request.
`recent` are the time stamps that keep the loop from updating a drone again for three seconds.
The environment moves start times, revokes authorizations, hands the start to the pilot (who may
set it with the remote controller), and lets drones come, go and report.
`late` and `backlog` are history: which drones have been given what is not wanted any more by a
packet made since the last change of what is wanted, and how many older packets are left. Nothing
in the code calls packets back, so the older ones give the former setting to any number of drones,
and no limit is claimed for these. `MCScheduledTakeoff` adds the symmetry of the drones.

### A MAVLink drone: `MAVLinkDrone`

`link` is the connection state, `heartbeat` the age and origin of the last heartbeat;
`CheckAlive` is one round of `check_uavs_alive()`. `HandleHeartbeat` includes the start of a task
that configures the data streams if SYS_STATUS is missing. A task sends three commands in turn;
`HandleAck` is one acknowledgment for *all* tasks that wait, as acknowledgments name the kind of a
command only, and `HandleUnsupported` the fallback to the older protocol. Commands and
acknowledgments are lost; a drone is switched off, sleeps or starts again at any time, also after
a reboot that was asked for (`Reboot`, `NotifyRebooted`).

### RTK presets: `RTKPresets`

A preset is an object, so that a receiver that is plugged in again has another one with the same
identifier (`generation`). Requests to switch come from users and hot-plug events; each spawns a
task (`spawned`), Trio runs those of a batch in any order (`Batch`), and a loop takes them one at
a time (`Switch`). A switch cancels the master task of the old preset and does not wait for it:
`masters` are all tasks with their state. `Begin`, `Started`, `Packet`, `Finish` and `Fail` are
such a task, and `listed`, `alert`, `watchdog`, `stats` what all of them share. `RequestSurvey`,
`TakeSurvey`, `StartSurvey`, `EndSurvey` are the loop that starts surveys. `excused` and
`overtaken` are history: reasons why the last choice of the user need not stand.

### Downloads of logs: `LogDownload`, `LogTransfer`

Packets that were sent are in `air` and arrive in any order, are lost, or arrive in the middle of a
later operation. A packet that arrives both resolves the future of a pending request (`reply`) and
goes to the channel of the operation. `AddChunk` and `NextEnd` are the `ChunkAssembler`; a unit of
`Sizes` stands for the data of one packet. `ReplyTimeout` and `ReadTimeout` are the two kinds of
timeouts, `End` and `Cancel` the two ways out, the latter without LOG_REQUEST_END. `lost` and
`stray` are history: what the properties make exceptions for.

`LogTransfer` is what those who ask for logs are promised, without packets and timeouts: one job at
a time, which only ever gathers more of what it is for and is done at the very moment when nothing
is missing, or fails, or is left. `KeepsTransfer` says that `LogDownload` implements it: `Gathered`
is what has been flushed of a log or the entries of the list that came in, `Outcome` what
is known of the end, `Spoiled` that data of another log came in, of which nothing is promised.

## 3. What the runs check

| Run | Instance | Shows |
|---|---|---|
| `commands_safety` | 2 requests, 2 receipts, 2 yields, queue without places | one verdict per command (`AtMostOneTerminal`), after its receipt (`NoticesFollowReceipt`); none for a command that was cancelled in time, some for any other that is gone (`AnsweredUnlessCancelled`); a command that waits for its client is not disturbed (`WaitingIsUndisturbed`); refinement of the promise (`KeepsPromise`); no command stays for ever (`NoLeak`) |
| `devices_safety` | 2 clients, one of them lazy; 2 objects, one lasting | nothing is left of clients that left (`GoneAreForgotten`), nobody hears of what he did not ask for (`OnlyAskedFor`), changes of the tree neither make nor lose subscriptions (`TreeChangesMove`) |
| `missions_safety` | 1 mission, 3 ticks, queue of 1 | scheduler and missions agree (`JobsAgree`); start only by consent (`StartsByConsent`); what clients know is current, on its way, or lost to a full queue (`NewsIsOnItsWay`); a running mission that is cancelled ends (`CancelEndsOngoing`) |
| `uavs_safety` | 1 drone, 2 shows | motors run in flight (`MotorsRunInFlight`); clock, lights and return to home end with it (`FlightsEnd`); initialization ends (`InitializationEnds`), and so do landings and shows (`FlightsFinish`) |
| `connections_told` | 1 connection, 4 pending | clients never end up with one stable state for the other (`QuietTruth`); a stable state, and a first transition that lasts, is told (`LastingTold`) |
| `takeoff_limit` | 2 drones, 1 worker, 1 packet, start by the pilot | packets made after a change of plans give what was asked for before to no more drones than updates run at a time (`FewLate`); packets in the queue at the change are not counted |
| `takeoff_followed` | 1 drone, both methods | a connected drone gets the last configuration, whatever packets from before are still sent (`Followed`) |
| `drone_link` | 2 tasks, 1 retry, 1 acknowledgment | the state of the connection changes for a reason only (`LinkHasReason`); a drone that is switched off or on is noticed (`PowerNoticed`); its status reports resume (`StatusResumes`) |
| `clients_limits` | 2 clients, room for 1, one message; sessions that expire or need authentication | the shutdown timer runs exactly while nobody is there (`IdleIsEmpty`); who is disconnected leaves (`LeaversLeave`); broadcasts go to all (`BroadcastsCover`) and end where sessions do (`BroadcastsEnd`) |
| `show_start` | 1 clock, 3 moments, a second of countdown | clocks follow the configuration (`ClocksFollow`); a start has consent and is in time (`StartsInTime`); a show that is waited for starts (`ShowsStart`); drones that count down are told when it is called off (`CountdownEnds`) |
| `rtk_presets` | 1 static preset, 1 port, 4 events | the preset shown is the one that runs (`ShownIsRunning`); tasks with the same preset keep out of each other's connections (`ListedByOwner`); what tasks share is right as long as they do not overlap (`SharedIsRight`); the last choice stands (`RequestsSettle`); no request for a survey is lost (`SurveyIsKept`) |
| `log_download` | logs of 4 and 1 units, ranges of 2, 1 retry, 2 operations | a finished log is the right one, whole and in order (`LogIsRight`); refinement of the transfer (`KeepsTransfer`); transfers end (`TransfersEnd`) |

The type invariant of every module is a theorem; no run is expected to fail.

Where several modules are proved about in one, the names of their specifications carry a prefix:
`ClientSpec` and `NewsSpec` (the message hub), `TakeoffSpec`, `LogSpec` and `DroneSpec` (the MAVLink
extension).

### Bounds and why they are enough

* Commands: every action touches one command, except the response with several receipts and the
  cleanup of several commands; two of each show both. Two yields per operation are a progress
  report and a suspension in either order. `QueueCapacity` = 0 leaves one place, the executor's
  hands, so that a response with two receipts overflows the queue; the code's 256 places behave
  like this at their limit and like an empty queue before.
* Device tree: clients do not see each other; two, of which one is lazy, show that one's requests
  leave the other alone. Two objects, of which one keeps its nodes, show a pending list with one
  path found and one still missing, in both orders. `MaxHeld` = 2 is a double subscription, which
  plain and forced unsubscription tell apart.
* Missions: missions share the clock and the queue only. One mission over three ticks can be
  scheduled, moved, missed and started at once, and its own updates fill a queue of one place.
* Virtual UAVs: drones share only the target of a group request. Altitudes 0 to 2 have the ground,
  a climb and the take-off altitude; one show lands at its end and the other ends in the air; two
  timers are the one of this boot and one of an earlier boot. `MaxFlights` bounds fly-to requests
  because otherwise a drone may be sent to and fro for ever.
* Connections: they share the loop, the channel and the dispatcher but no entry; another
  connection's request only delays, and delays are there in any case because the dispatcher may
  be busy for any time. Four pending are, for example, two transitions with their ends.
* Scheduled takeoff: drones share the limit of workers and the configuration. Two drones for one
  worker is the smallest instance where the limit matters; one drone suffices for liveness, as
  fairness speaks of each drone. A time and "cleared" are what the code distinguishes. `MaxOutbound`
  = 1 bounds the packets that are not sent yet: one is enough for plans to change while it waits and
  for its update to give up, and also, after older packets are gone, for an outdated update to make
  a new one. That an older packet is followed by a newer one is left to the proof, which holds for
  any length. The symmetry of the drones is sound as `takeoff_limit` checks an invariant only.
* MAVLink drone: two tasks overlap and take each other's acknowledgments; one retry is a first and a
  last attempt. Acknowledgments in flight beyond one are lost, which a drone's may be anyway.
* Sessions: two clients with room for one exceed the limit; two disconnections of one client are
  the limit and the expiry, or two periods of the expiry. Broadcasts share nothing but the list.
* Show: one clock that runs, stops and is set back, and the time itself; moments before, at and after
  the start. `MaxGhosts` = 0 says that tasks which an update of the configuration has cancelled
  take their last step before the next update, not before anything else; the proofs hold for any
  number of them.
* RTK: four events are, for example, a choice, an unplugged port, its return and another choice.
  Trio's batches are what makes two requests overtake each other; they need two requests.
* Logs: a log of four units needs two ranges of two, so that a gap, a chunk behind it, and the
  next range are there; the second log provides packets that do not belong to the first; two
  operations leave packets of one in the other.

None of the bounds is used by a proof, except that constants have their types.

### Fairness

`FairSpec` (`FairClientSpec`, `FairNewsSpec`, `FairTakeoffSpec`, `FairLogSpec`, `FairDroneSpec`)
assumes what Trio and the clock do: time goes on, a task that can run does run, the
periodic tasks come again, timeouts expire. Weak fairness is enough for these, as none is disabled
by another task again and again. No client, operation, user, or mission is assumed to do
anything. What is assumed of the outside is this:

* `ConnectionNews`: the message hub keeps taking messages from its queue, which `run()` does by
  handing each to a new task. Entries need not age, so the properties hold however time passes.
* `ScheduledTakeoff`: drones keep reporting. A drone that is updated again and again is sent packets
  again and again, as its updates do not all give up before a packet of theirs has a place in the
  queue; and of the packets of updates that would change a drone one reaches it in the end (strong
  fairness of `Deliver`). Broadcasts may all be lost. A queued update gets its turn although others
  compete for the limiter (strong fairness of `Begin`), as Trio's limiters serve in order.
* `MAVLinkDrone`: a drone that is on sends heartbeats, of which two in a row arrive in time again and
  again; some of the commands for SYS_STATUS that are sent again and again reach it.
* `LogDownload`: a packet that is sent again and again arrives some time. Users need not cancel.
* `ClientSessions`: requests of a client that has gone end, so that it leaves the registry.
* `ShowStart`: nothing but time and tasks; a countdown need not begin.
* `RTKPresets` has no fairness and no liveness property: it asks what holds once requests are served.

Deadlock checking is off where instances stop when the bounds are used up, or where the server may
stop or be idle for ever. `drone_link`, `takeoff_limit` and `takeoff_followed` check it.

## 4. What is proved

Proofs are in the modules `*_proofs`: one for each component, and one each for the parts of the
message hub (`MessageHub_proofs`) and of the MAVLink extension (`MAVLink_proofs`). Each proves
`Init => IInv`, `IInv /\ [Next]_vars => IInv'` and `IInv => Inv`, for arbitrary constants that
satisfy the modules' named assumptions: types of the constants, finite sets of clients, drones,
receipts or tasks, names that do not clash. Every invariant, every action property and every
refinement that a run checks is a theorem, and every type invariant is.

* `CommandExecution_proofs`: `TypeCorrect`, `OneVerdict`, `ReceiptFirst`, `SilentOrAnswered`,
  `WaitsInPeace`, and `Implements` (refinement of `CommandPromise`). The invariant says that the *entry of a command
  is the right to tell its end*: as long as it is registered nobody has told (`EntryIsUntold`);
  an unused receipt has no history (`FreshIsUnregistered`); an operation that was handed over has
  had its response sent (`StartedIsKnown`). Without the first part two tasks could tell the same
  end one after the other; the lemma `FinishSound` is the common end of all of them.
  `WaitsInPeace` adds that the deadline of a command that waits is off (`DeadlineIsOff`); its
  receipt was sent already, so the response does not disturb it either.
* `DeviceSubscriptions_proofs`: `TypeCorrect`, `Forgotten`, `ToldWhatWasAsked`, `ChangesMove`. The
  second is inductive together with the types; the work is in showing that the resolution of pending
  paths gives nothing to a client that waits for none. The third needs that the counters of such a
  client never exceed what it has asked for (`Accounted`): a subscription and its withdrawal
  change both alike, and nodes that are new start both from nothing. `ChangesMove` is about
  the number of subscriptions a client has at all nodes and in its list, which is a number because
  they are finitely many at any time (`FinitelyMany`). Its lemma `EntriesCounted` matches the
  entries of the list that resolve with the subscriptions made of them, one to one; the code drops
  as many entries as it found, and the proof does not ask which.
* `Missions_proofs`: `TypeCorrect`, `JobsMatch`, `Reachable`, `SchedulerAgrees`, `ConsentGiven`,
  `LifeCycleKept`, `ClientsHear`. The invariant (`Sound`, `Consistent`) relates each mission to its
  job: a waiting job only for an authorized mission at its time, a task exactly for one that is
  running. `ConsentGiven` and `LifeCycleKept` are action properties that follow from it.
* `VirtualUAV_proofs`: `TypeCorrect`, `MotorsRun`, `FlightsAreOver`, `TimersSuffice`. Records
  that satisfy the invariant are called `Fit`; each method has a lemma that it maps fit drones to
  fit drones. Motors, clock, lights and return to home are proved in step with the state together,
  because the same methods keep all of them so.
* `MessageHub_proofs`, connection news: `NewsTypeCorrect`, `QuietIsTrue`. The queue of requests is a
  *story* of each connection: each request begins where the one before ended and the last one ends
  at the present state (`StoryHasNoGaps`, `StoryIsCurrent`). An entry has the last stable state the
  loop has seen (`EntryIsRight`). If clients were told another stable state than this one, then either
  a dispatch is on the way or the story still tells what they were told (`NewsIsRight`): this
  excludes that a request is suppressed which the clients needed.
* `MessageHub_proofs`, client sessions: `ClientTypeCorrect`, `LimitIsKept` (no more clients than the
  limit are connected without being disconnected), `IdleServerIsEmpty`, `BroadcastsGoToAll`. The
  last one rests on `MethodsFresh`: the kept list, if there is one, is the present registry.
* `ShowStart_proofs`: `TypeCorrect`, `ClocksAreFollowed`, `StartIsInTime`. The clocks of the show are in
  step with the clocks they follow (`InSync`). A task for the start exists only with the consent of
  the last configuration (`Consent`), and what it remembers of the clock is true unless a signal is
  there that it has not seen yet (`Aware`); `StartsInTime` excepts just these signals and the
  tasks that were cancelled.
* `MAVLink_proofs`, scheduled takeoff: `TakeoffTypeCorrect`, `FewAreLate`. The drones that are late,
  those whose running update is outdated (`Outdated`) and those that a packet made since the change
  may still make late (`Owed`) are together (`Affected`) no more than the limiter admits
  (`FewOutdated`): when plans change nobody is late, no packet has been made since, and at most that
  many updates run; afterwards an update that begins is not outdated, a broadcast has what is
  wanted, and only an outdated update makes an outdated packet, for its own drone. An update may end
  before its packet is sent, which is why `Owed` is needed.
* `MAVLink_proofs`, log download: `LogTypeCorrect`, `DownloadIsRight`, `ListingIsWhole`, `Transfers`
  (refinement of `LogTransfer`). What has been
  flushed is a prefix of the log (`PrefixIsRight`, which also says that everything in the channel, in
  the assembler and in the future of the request is of this log). Chunks that wait lie behind the
  gap (`GapIsOpen`), so that flushing stops exactly at it; `AddChunkExtends` says that a chunk that
  fills the gap takes with it all that follow without another one. `StageFits` relates
  the stage to the log: a late reply of the right type is taken only where one is expected. No
  packet of another log may have come in (`stray`). `ListingIsWhole` says that a list that is
  declared complete is. `Transfers` needs that no request reaches beyond the end of the log
  (`RangeFits`), or an unfinished download could have gathered all there is; its lemmas say which
  step of the promise, or a stutter, each action is.
* `MAVLink_proofs`, drone: `DroneTypeCorrect`, whose types are inductive: a task never has fewer
  than no attempts left or another command to send than the three; and `LinkKeepsReason`, which
  needs that the last heartbeat of a sleeping drone said so (`Asleep`). What else is claimed of a
  drone is liveness.
* `RTKPresets_proofs`: `TypeCorrect`, `ShownRuns`, `RequestsDoSettle`, `SharedStaysRight`,
  `ListedStaysOwned`, `SurveyStaysKept`. There is at most one master task that is not cancelled, and the loop knows it
  (`OneTask`): it waits for it to start (`starting`) or has it as `selected`, never both, and the
  preset is current in either case. Because a switch does not wait for the old task's cleanup, the
  shared things have owners: a listed connection belongs to a task that has not ended and that
  is of a preset with this identifier (`ListedByOwner`); a task that began when none was left stays
  without company (`AloneIsAlone`). An extension that was ended by an error has no task and begins
  none (`EndsForGood`). For the choice of the user, the requests still to be served are considered
  from the last one backwards (`WishPending`), and a preset whose device has gone has its withdrawal
  still in the queue (`GivingUpPending`); `NothingOwedYet` is the start of the loop of surveys.

Model-checked only: the liveness properties (`NoLeak`, `CancelEndsOngoing`, `FlightsFinish`,
`LastingTold`, `Followed`, `PowerNoticed`, `StatusResumes`, `LeaversLeave`, `BroadcastsEnd`,
`ShowsStart`, `CountdownEnds`, `TransfersEnd`), as the prover reasons neither about fairness nor
about ENABLED. No module has a RECURSIVE operator. Where a proof needs induction, as for what the
chunk assembler flushes, it takes a smallest counterexample in the natural numbers; sums are counted
as sets, whose cardinality has theorems.

## 5. What the models show of the code

No property that is listed above fails. Where the code does something else than a comment says, or
than one would expect, the models contain it, and properties name it as an exception.

Against a comment or a docstring:

* `_cleanup()` (`commands.py:238`) reports expired commands whether or not their receipt was sent,
  so a time-out may come first; `message_hub.py:623` says that notifications come later.
  `NoticesFollowReceipt` excepts time-outs. The comment at `commands.py:143` expects no blocking, but
  a response with more receipts than the executor's queue holds raises `WouldBlock` (line 164).
* All `DeviceTreePath`s compare equal, so `list.remove()` drops the wrong pending path
  (`model/devices.py:1116`) and a path that exists may stay pending, contrary to line 937. A forced
  unsubscription from a path that does not exist drops the first pending entry only (line 1234).
* A mission that waits for its start is cancelled by the scheduler (`ext/missions/model.py:231`);
  revoking or rescheduling it in between leaves it without an end, and a second cancellation does
  nothing, contrary to line 222. `CancelEndsOngoing` is about running missions for that reason.
  `ABORTED` is documented for cancelled running missions (`ext/missions/types.py:30`) but they end
  `CANCELLED`.
* The target's missing altitude is filled into the object that all drones of a request share
  (`ext/virtual_uavs/driver.py:410`, contrary to `model/uav.py:894`).
* `broadcast_message()` says that it blocks until the message is sent (`message_hub.py:233`) but
  returns when it is queued. A client that does not read blocks a broadcast for good (line 1024)
  unless sessions expire, which is when `BroadcastsEnd` holds.
* The streams of a drone are configured again while SYS_STATUS is missing only
  (`ext/mavlink/driver.py:1705`); others that were lost stay off. `_configuring_data_streams`
  (lines 1170 to 1172) is set and never read, so that tasks overlap.
* Data of another log are compared, marked `# ignore`, and added to the log all the same
  (`ext/mavlink/log_download.py:172`); `LogIsRight` excepts downloads that such a packet reaches. An
  entry of the list that is lost is never asked for again and the listing hangs (line 227).

Without a comment that says otherwise:

* Commands: an operation that was scheduled already extends the deadline of a command which the
  cleanup has just expired (`commands.py:427`).
* Device tree: subscriptions of a client that leaves while an object is away come back with the
  object (`model/devices.py:1070`).
* Missions: a start time that has passed is refused but `start_now()` makes the mission start late
  (`ext/missions/model.py:335`).
* Virtual UAVs: a drone whose trajectory ends near the ground becomes LANDING with its target cleared
  and stays so; a disarmed LANDED drone climbs to a target with its motors off; a landing drone
  that is given a new target becomes LANDED there; a cancelled motor test leaves the motors on; a
  show without a trajectory plays the previous one; a fly-to below the take-off altitude keeps a
  starting drone in TAKEOFF.
* Connections: the entry of a connection that settled where it was is kept (`message_hub.py:1336`): a
  later transition finds it, starts no waiting task, and is not told if it lasts. As a notification
  has the state at its creation, it may tell a transition whose own request is suppressed later:
  clients keep seeing "connecting" of a stable connection. `QuietTruth` and `LastingTold` are what
  holds in spite of both.
* Takeoff: the time stamp that puts off the next update of a drone is taken when an update ends, also
  if the time stamps were cleared by a change meanwhile (`ext/mavlink/takeoff.py:365`); the change
  reaches the drone three seconds later then. A packet in the outbound queue is not called back when
  an authorization is revoked (`comm.py:214`, `comm.py:445`): a broadcast that is still there at the
  revocation authorizes every drone that it reaches, until a later packet corrects that.
* MAVLink drone: a sleeping drone that has others send heartbeats for it stays connected
  (`ext/mavlink/tasks.py:42`), and a drone that is back after a reboot is declared disconnected once
  more, until its next heartbeat.
* Show: a show that is authorized while its clock is stopped gets its task for the start only with the
  next update of the configuration (`ext/show/extension.py:190`); `ShowsStart` is about shows that
  are waited for. `wait_until()` does not look again whether the clock runs before it reads it
  (`tasks/alarm.py:51`), and a clock that is stopped shows zero; so an update of the configuration
  that stops the clock just before the start starts the show, even if it revokes the authorization.
  These are the exceptions of `StartsInTime`. In the last half second
  before the start nobody calls the countdown off (`extension.py:308`).
* RTK: a master task that is cancelled late disconnects the handler of the clock alert, puts a stale
  watchdog back, takes the connection of its successor off the list if both have the same preset,
  and leaves statistics cleared: `SharedIsRight` is about tasks that do not overlap. With
  `register_beacons` off, the beacon manager's context manager returns before it yields, which
  raises an error that ends the extension (`Fail`). A survey that is requested before a preset
  begins is replaced by its `auto_survey`.
* Registries: a proxy puts an object into its own table before the global registry refuses it
  (`registries/objects.py:257`).
* Logs: metadata of another log may be taken for those of this one (a late reply), which gives a wrong
  size; with one that is too large, the drone answers with empty packets for ever.

## 6. What is not modelled, and why

The component list of `PROJECT.json` has a note for each part. In short:

* Data: values of channels, mission types and parameters, physics, batteries, firmware, sensor
  errors, light programs, contents of corrections and statistics, positions; no property
  distinguishes them. Read-only requests change nothing.
* Parts with protocol state that have no model: FTP sessions and the transfer of missions and
  geofences over MAVLink, progress reporting, the rate limiters of batches and of UAV-INF, the
  registries as such (only their effects), the Crazyflie driver (its sessions are in an external
  package), the ends of the extensions, and removal of a connection while its news is under way.
* Geometry and blocking I/O of the swarm and search scripts, vendored code, web pages, hardware
  drivers, gateway, proxy and simulator: they have no protocol state of their own, depend on
  external programs, or are floating-point computations out of a model checker's reach.

These parts are most of the repository's lines, so the models cover a small share of its text: the
share that keeps state between events.

## 7. Plan

Done: the modules above, in this order: commands (with abstract specification and refinement),
device tree, missions, virtual UAVs, connection news, scheduled takeoff, MAVLink drone, client
sessions, show start, RTK presets, log download.

Next, most important first:

1. FTP sessions and mission transfers (`ext/mavlink/ftp.py`, `mission.py`): retries and sequence
   numbers over the same link as `LogDownload`, whose `air`, `reply` and assembler could become a
   module that both use.
2. `ProgressReporter` (`tasks/progress.py`) implementing an abstract register with suspension;
   composed with `CommandExecution` as the operation.
3. Composition of `ShowStart` with `ScheduledTakeoff`: a start that is revoked, from the
   configuration to the drone.
4. Proofs: that `ClientSessions` implements an abstract limit, as `CommandExecution` does its promise
   and `LogDownload` its transfer; the parts of liveness that are invariants, such as that whoever
   waits has a timer.
