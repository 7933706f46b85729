------------------------------- MODULE ShowStart -------------------------------
(***************************************************************************)
(* The start of a show (ext/show): its configuration, the show clock and   *)
(* the end-of-show clock, which may follow another clock, and the two      *)
(* tasks that wait for the start and count down to it (tasks/alarm.py).    *)
(*                                                                         *)
(* A clock that runs is told by the time when it shows zero; a clock that  *)
(* is stopped shows zero as well.  A moment lies between two values of     *)
(* `now', so that it has passed when `now' is greater.                     *)
(***************************************************************************)
EXTENDS Integers, FiniteSets

CONSTANTS
  None,       \* no time, or no clock
  Clocks,     \* clocks of other extensions, which may run or not
  Zeros,      \* times when they may show zero
  Times,      \* times of the start in configurations
  Duration,   \* the duration of the show
  Lead,       \* how long before the start the countdown begins
  MaxTime,    \* bound: the time ends there
  MaxGhosts   \* bound: cancelled tasks that may be left at a request

ASSUME ZerosAssumption == Zeros \subseteq Int
ASSUME TimesAssumption == Times \subseteq Int
ASSUME DurationAssumption == Duration \in Nat
ASSUME LeadAssumption == Lead \in Nat
ASSUME MaxTimeAssumption == MaxTime \in Nat /\ MaxGhosts \in Nat

Unix == "unix"         \* no clock is named: the time is absolute
Unknown == "unknown"   \* the name of a clock that is not registered
ASSUME NamesAssumption == {Unix, Unknown, None} \cap Clocks = {} /\ None \notin Int

Config == [authorized : BOOLEAN, method : {"auto", "rc"},
           clock : Clocks \cup {Unix, Unknown}, time : Times \cup {None}]

VARIABLES
  now,
  primary,    \* of each clock of another extension: when it shows zero
  config,     \* _config
  announced,  \* the configuration that the last show:config_updated told
  sync,       \* _clock_sync and _end_clock_sync
  ref,        \* when the two clocks of the show are zero (reference_time)
  tasks,      \* the task that starts the show, and the countdown
  ghosts,     \* cancelled tasks that will run once more
  last,       \* last_seconds of the countdown
  fleet       \* what the drones were told last

vars == <<now, primary, config, announced, sync, ref, tasks, ghosts, last, fleet>>

Shows == {"start", "end"}     \* the clocks of the show
Tasks == {"start", "countdown"}
Step == {"none", "new", "edge", "wait", "busy", "loop"}
Sync == [clock : Clocks \cup {None}, offset : Int]

NoTask == [step |-> "none", running |-> FALSE, woken |-> FALSE]
NoSync == [clock |-> None, offset |-> 0]

TypeOK ==
  /\ now \in 0 .. MaxTime
  /\ primary \in [Clocks -> Zeros \cup {None}]
  /\ config \in Config /\ announced \in Config
  /\ sync \in [Shows -> Sync]
  /\ ref \in [Shows -> Int \cup {None}]
  /\ tasks \in [Tasks -> [step : Step, running : BOOLEAN, woken : BOOLEAN]]
  /\ ghosts \subseteq [task : Tasks, step : {"new", "edge", "wait", "loop"}, running : BOOLEAN]
  /\ last \in Int \cup {None}
  /\ fleet \in {"idle", "counting", "started"}

Init ==
  /\ now = 0
  /\ primary \in [Clocks -> Zeros \cup {None}]
  /\ config \in {c \in Config : c.clock = Unix /\ c.time = None /\ ~c.authorized}
  /\ announced = config
  /\ sync = [w \in Shows |-> NoSync]
  /\ ref = [w \in Shows |-> None]
  /\ tasks = [t \in Tasks |-> NoTask]
  /\ ghosts = {}
  /\ last = None
  /\ fleet = "idle"

(***************************************************************************)
(* Clocks.                                                                 *)
(***************************************************************************)
\* Mutant: the tasks that wait are not told.
Signalled_Nobody(ts, changed) == ts

(* A setter of reference_time signals a change to all tasks that wait.     *)
Signalled(ts, changed) ==
  [t \in Tasks |-> IF changed /\ ts[t].step \in {"edge", "wait", "busy"}
                   THEN [ts[t] EXCEPT !.woken = TRUE] ELSE ts[t]]

(* _calculate_desired_state_of_secondary_clock()                           *)
Desired(s, clocks) ==
  IF clocks[s.clock] = None THEN None ELSE clocks[s.clock] + s.offset

(* A clock of another extension is started, stopped or adjusted; the       *)
(* clocks of the show that follow it do the same.                          *)
ClockChanged(c) ==
  /\ \E zero \in (Zeros \cup {None}) \ {primary[c]} : primary' = [primary EXCEPT ![c] = zero]
  /\ ref' = [w \in Shows |-> IF sync[w].clock = c THEN Desired(sync[w], primary') ELSE ref[w]]
  /\ tasks' = Signalled(tasks, ref'["start"] # ref["start"])
  /\ UNCHANGED <<now, config, announced, sync, ghosts, last, fleet>>

Tick ==
  /\ now < MaxTime
  /\ now' = now + 1
  /\ UNCHANGED <<primary, config, announced, sync, ref, tasks, ghosts, last, fleet>>

(***************************************************************************)
(* The configuration.                                                      *)
(***************************************************************************)
(* _should_run_countdown                                                   *)
ShouldRun(c, r) == c.authorized /\ c.method = "auto" /\ r["start"] # None

\* Mutant: a clock that is not followed any more still sends its signals.
Followed_StaysSubscribed(c) ==
  [w \in Shows |-> IF c.clock \in Clocks /\ c.time # None
                   THEN [clock |-> c.clock,
                         offset |-> IF w = "end" THEN c.time + Duration ELSE c.time]
                   ELSE sync[w]]

(* The clock to follow, if there is one, and the offsets from its zero.    *)
Followed(c) ==
  [w \in Shows |-> IF c.clock \in Clocks /\ c.time # None
                   THEN [clock |-> c.clock,
                         offset |-> IF w = "end" THEN c.time + Duration ELSE c.time]
                   ELSE NoSync]

(* _sync_show_clocks_to(): when the two clocks of the show are zero then.  *)
Synced(c) ==
  [w \in Shows |->
     IF c.time = None \/ c.clock = Unknown THEN None
     ELSE IF c.clock = Unix THEN IF w = "end" THEN c.time + Duration ELSE c.time
     ELSE Desired(Followed(c)[w], primary)]

(* A task that is cancelled ends where it waits.  If an event has just     *)
(* woken it, it runs up to where it would wait again, as a countdown does  *)
(* that has just begun; one under way ends with its `finally' clause.      *)
Cancelled(ts) ==
  {[task |-> t, step |-> ts[t].step, running |-> ts[t].running] :
     t \in {u \in Tasks : \/ ts[u].step \in {"edge", "wait"} /\ ts[u].woken
                          \/ u = "countdown" /\ ts[u].step \in {"new", "loop"}}}

(* SHOW-SETCFG, _on_config_updated(): the clocks first, then the tasks.    *)
Configure ==
  /\ Cardinality(ghosts) <= MaxGhosts
  /\ config' \in Config
  /\ announced' = config'
  /\ sync' = Followed(config')
  /\ ref' = Synced(config')
  /\ ghosts' = ghosts \cup Cancelled(Signalled(tasks, ref'["start"] # ref["start"]))
  /\ tasks' = [t \in Tasks |-> IF ShouldRun(config', ref')
                               THEN [NoTask EXCEPT !.step = "new"] ELSE NoTask]
  /\ last' = None
  /\ UNCHANGED <<now, primary, fleet>>

(* SHOW-SETCFG with a start method that does not exist: what comes before  *)
(* it in update_from_json() has been assigned, and nobody is told.         *)
ConfigureHalf ==
  /\ \E c \in Config :
       config' = [config EXCEPT !.authorized = c.authorized, !.time = c.time]
  /\ config' # config
  /\ UNCHANGED <<now, primary, announced, sync, ref, tasks, ghosts, last, fleet>>

(***************************************************************************)
(* Alarms: wait_until() for the start, and for the countdown to begin.     *)
(***************************************************************************)
Running == ref["start"] # None
Moment(t) == IF t = "start" THEN ref["start"] ELSE ref["start"] - Lead
Reached(t) == now > Moment(t)

\* Mutant: a task that found its clock stopped does not see it start again.
Awake_StaysStopped(t, k) ==
  IF k.step = "new" THEN [step |-> IF t = "start" THEN "edge" ELSE "wait",
                          running |-> t = "start" => Running]
  ELSE [step |-> k.step, running |-> k.running /\ (k.step = "wait" /\ k.woken => Running)]

(* What a task goes on with when it runs, the clock in particular: one     *)
(* that is edge triggered does not look again whether that runs.           *)
Awake(t, k) ==
  IF k.step = "new" THEN [step |-> IF t = "start" THEN "edge" ELSE "wait",
                          running |-> t = "start" => Running]
  ELSE [step |-> k.step, running |-> IF k.step = "wait" /\ k.woken THEN Running ELSE k.running]

(* It waits here for the clock to be set back to before the moment.        *)
Held(t, k) == k.step = "edge" /\ (k.running => Running /\ Reached(t))

(* The moment is there, as the task sees it: it takes a stopped clock, if  *)
(* it has not noticed yet that it is stopped, for one that shows zero.     *)
Due(t, k) == ~Held(t, k) /\ k.running /\ (Running => Reached(t))

(* Where it waits next if the moment is not there.  Shortly before, it     *)
(* does not wait for events but looks at the clock all the time.           *)
Waiting(t, k) ==
  IF Held(t, k) THEN {"edge"}
  ELSE IF k.running /\ now = Moment(t) THEN {"wait", "busy"} ELSE {"wait"}

CanRun(t) ==
  LET k == tasks[t] IN
  \/ k.step \in {"new", "busy"} \/ k.woken
  \/ k.step = "wait" /\ k.running /\ (Running => now >= Moment(t))

KeepWaiting(t) ==
  LET k == Awake(t, tasks[t]) IN
  /\ CanRun(t) /\ ~Due(t, k)
  /\ \E s \in Waiting(t, k) :
       tasks' = [tasks EXCEPT ![t] = [step |-> s, running |-> k.running, woken |-> FALSE]]
  /\ UNCHANGED <<now, primary, config, announced, sync, ref, ghosts, last, fleet>>

(* _start_uavs_if_needed(): the drones are told to take off.               *)
Start ==
  /\ CanRun("start") /\ Due("start", Awake("start", tasks["start"]))
  /\ tasks' = [tasks EXCEPT !["start"] = NoTask]
  /\ fleet' = "started"
  /\ UNCHANGED <<now, primary, config, announced, sync, ref, ghosts, last>>

(***************************************************************************)
(* The countdown.                                                          *)
(***************************************************************************)
Seconds == now - ref["start"]
SetBack(since) == since # None /\ since > Seconds

\* Mutant: the drones are not told that the countdown is off.
Counted_Silent(since, goesOn) ==
  \/ /\ ~ShouldRun(config, ref) /\ ~goesOn
     /\ UNCHANGED fleet
  \/ /\ ShouldRun(config, ref) /\ SetBack(since) /\ goesOn
     /\ fleet' = "idle"
  \/ /\ ShouldRun(config, ref) /\ ~SetBack(since) /\ Seconds >= 0 /\ ~goesOn
     /\ UNCHANGED fleet
  \/ /\ ShouldRun(config, ref) /\ ~SetBack(since) /\ Seconds <= 0 /\ goesOn
     /\ fleet' = "counting"

(* One iteration of the countdown, `since' being what it told last: it is  *)
(* off, it is suspended as the clock was set back, it ends half a second   *)
(* before the start, or the drones are told how much time is left.         *)
Counted(since, goesOn) ==
  \/ /\ ~ShouldRun(config, ref) /\ ~goesOn
     /\ fleet' = "idle"
  \/ /\ ShouldRun(config, ref) /\ SetBack(since) /\ goesOn
     /\ fleet' = "idle"
  \/ /\ ShouldRun(config, ref) /\ ~SetBack(since) /\ Seconds >= 0 /\ ~goesOn
     /\ UNCHANGED fleet
  \/ /\ ShouldRun(config, ref) /\ ~SetBack(since) /\ Seconds <= 0 /\ goesOn
     /\ fleet' = "counting"

Iterated(since) ==
  \E goesOn \in BOOLEAN :
    /\ Counted(since, goesOn)
    /\ tasks' = [tasks EXCEPT !["countdown"] =
                   IF goesOn THEN [NoTask EXCEPT !.step = "loop"] ELSE NoTask]
    /\ last' = IF ~goesOn THEN None ELSE IF SetBack(since) THEN since ELSE Seconds
    /\ UNCHANGED <<now, primary, config, announced, sync, ref, ghosts>>

BeginCountdown ==
  /\ CanRun("countdown") /\ Due("countdown", Awake("countdown", tasks["countdown"]))
  /\ Iterated(None)

Count ==
  /\ tasks["countdown"].step = "loop"
  /\ Iterated(last)

(***************************************************************************)
(* Cancelled tasks that were about to run, and drones that have landed.    *)
(***************************************************************************)
(* A cancelled task runs up to where it would wait; a countdown tells the  *)
(* drones if it is off.                                                    *)
RunGhost(g) ==
  LET k == Awake(g.task, [step |-> g.step, running |-> g.running, woken |-> TRUE]) IN
  /\ g \in ghosts
  /\ ghosts' = ghosts \ {g}
  /\ \/ /\ g.step = "loop"
        /\ fleet' = IF ShouldRun(config, ref) THEN fleet ELSE "idle"
     \/ /\ g.step # "loop" /\ ~Due(g.task, k)
        /\ UNCHANGED fleet
     \/ /\ g.task = "start" /\ Due("start", k)
        /\ fleet' = "started"
     \/ /\ g.task = "countdown" /\ g.step # "loop" /\ Due("countdown", k)
        /\ \E goesOn \in BOOLEAN : Counted(None, goesOn)
  /\ UNCHANGED <<now, primary, config, announced, sync, ref, tasks, last>>

Land ==
  /\ fleet = "started"
  /\ fleet' = "idle"
  /\ UNCHANGED <<now, primary, config, announced, sync, ref, tasks, ghosts, last>>

Next ==
  \/ Tick \/ Configure \/ ConfigureHalf \/ Start \/ BeginCountdown \/ Count \/ Land
  \/ \E c \in Clocks : ClockChanged(c)
  \/ \E t \in Tasks : KeepWaiting(t)
  \/ \E g \in ghosts : RunGhost(g)

Spec == Init /\ [][Next]_vars

(* Time goes on and tasks run; a countdown need not begin.                 *)
FairSpec ==
  /\ Spec
  /\ WF_vars(Tick) /\ WF_vars(Start) /\ WF_vars(KeepWaiting("start"))
  /\ WF_vars(Count) /\ WF_vars(\E g \in ghosts : RunGhost(g))

(***************************************************************************)
(* Properties.                                                             *)
(***************************************************************************)
(* The clocks of the show follow the configuration that was told last: the *)
(* clock that it names whenever that runs, and no other one, or the time   *)
(* itself; and the end is the duration of the show after its start.        *)
ClocksFollow ==
  /\ ref["start"] = IF announced.time = None \/ announced.clock = Unknown THEN None
                    ELSE IF announced.clock = Unix THEN announced.time
                    ELSE IF primary[announced.clock] = None THEN None
                    ELSE primary[announced.clock] + announced.time
  /\ ref["end"] = IF ref["start"] = None THEN None ELSE ref["start"] + Duration

(* A show is started with the consent of the last configuration and at the *)
(* time of the show clock, unless the clock was changed a moment before.   *)
Disturbed ==
  \/ \E g \in ghosts : g.task = "start"
  \/ tasks["start"].woken
StartsInTime ==
  [][fleet # "started" /\ fleet' = "started"
       => Disturbed \/ (ShouldRun(announced, ref) /\ Reached("start"))]_vars

(* A show that is waited for starts when its time comes, unless its clock  *)
(* is changed or another configuration comes first.                        *)
Instants == Times \cup {z + t : z \in Zeros, t \in Times}
ShowsStart ==
  \A r \in Instants :
    tasks["start"].step \in {"wait", "busy"} /\ ref["start"] = r /\ now <= r
      ~> fleet = "started" \/ ref["start"] # r \/ tasks["start"].step \in {"new", "none"}

(* Drones that count down are told when the show is called off, by a task  *)
(* that counts or by one that was cancelled.                               *)
CallingOff == tasks["countdown"].step = "loop" \/ \E g \in ghosts : g.step = "loop"
CountdownEnds ==
  fleet = "counting" /\ CallingOff /\ ~ShouldRun(config, ref)
    ~> fleet # "counting" \/ ShouldRun(config, ref)
=============================================================================
