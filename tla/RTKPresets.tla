------------------------------ MODULE RTKPresets ------------------------------
(***************************************************************************)
(* The choice of the source of RTK corrections (ext/rtk): presets from the *)
(* configuration and from serial ports that come and go, the requests to   *)
(* switch from one to another, and the master tasks that run presets.      *)
(*                                                                         *)
(* A switch cancels the master task of the old preset and starts the one   *)
(* of the new preset without waiting for the old one to end, so the tasks  *)
(* overlap and share what the extension has only one of: the statistics,   *)
(* the signal handlers, the watchdog, the names of connections.            *)
(*                                                                         *)
(* A preset is an object: the preset of a port that was away is another    *)
(* object with the same identifier, which "generation" tells apart.  Trio  *)
(* runs the tasks of a batch in any order, but batch after batch.          *)
(***************************************************************************)
EXTENDS Naturals, FiniteSets, Sequences, SequencesExt

CONSTANTS
    Static,       \* identifiers of presets from the configuration
    Ports,        \* identifiers of presets of serial ports
    Surveyable,   \* static presets whose format allows a survey
    AutoSurvey,   \* static presets that start a survey when they are chosen
    None,         \* no preset
    MaxEvents     \* bound on what users, ports and receivers do in a behaviour

ASSUME PresetsAssumption ==
    /\ Static \cap Ports = {}
    /\ None \notin Static \cup Ports
    /\ Surveyable \cup AutoSurvey \subseteq Static
    /\ MaxEvents \in Nat

VARIABLES
    beacons,    \* _rtk_beacon_manager.enabled
    up,         \* run() of the extension is running
    plugged,    \* serial ports that the operating system lists
    registry,   \* _registry: the generation of each preset, 0 if it has none
    current,    \* _current_preset
    selected,   \* the master task of _rtk_preset_task_cancel_scope, 0 if None
    wish,       \* _last_preset_request_from_user, None once it is too old
    spawned,    \* requests whose background tasks have not run yet
    queue,      \* requests that wait in the channel, in the order of their tasks
    starting,   \* the master task that run() waits for in nursery.start(), or 0
    masters,    \* the master tasks, in the order of their creation
    trigger,    \* _rtk_survey_trigger
    listed,     \* the master whose connection the registry of connections lists
    alert,      \* whether the warning about the clocks has its handler
    watchdog,   \* the master whose watchdog is in _watchdog, or 0
    stats,      \* masters whose packets the statistics contain
    budget,     \* what is left of MaxEvents
    excused,    \* why the choice of the user may not stand (history)
    overtaken   \* whether a preset was chosen after its port had gone (history)

vars == <<beacons, up, plugged, registry, current, selected, wish, spawned,
          queue, starting, masters, trigger, listed, alert, watchdog, stats,
          budget, excused, overtaken>>
requestVars == <<wish, spawned, excused>>
sharedVars == <<listed, alert, watchdog, stats>>
taskVars == <<masters, trigger>>

Ids == Static \cup Ports

Preset(i, g) == [id |-> i, gen |-> g]
NoPreset == Preset(None, 0)
Presets == {NoPreset} \cup {Preset(i, g) : i \in Ids, g \in 1..(MaxEvents + 1)}

(* The object that find_preset_by_id() returns.                            *)
Found(i) == IF registry[i] = 0 THEN NoPreset ELSE Preset(i, registry[i])

(* A master task: "starting" until it is scheduled, "running" until it is  *)
(* cancelled, "cancelled" until it has cleaned up.  "owns" says that its   *)
(* connection is the one that is listed, "saved" is the watchdog that it   *)
(* puts back, "alone" that no other one was left when it began (history),  *)
(* "owed" that its loop has not taken a request of a user for a survey yet *)
(* (history), and "pausing" that the loop has taken one.                   *)
Master(p) == [preset |-> p, state |-> "starting", owns |-> FALSE, saved |-> 0,
              alone |-> FALSE, owed |-> FALSE, pausing |-> FALSE,
              surveying |-> FALSE]
Ended(t) == [Master(t.preset) EXCEPT !.state = "ended"]

Tasks == DOMAIN masters
Unfinished == {m \in Tasks : masters[m].state \in {"running", "cancelled"}}

TypeOK ==
    /\ beacons \in BOOLEAN
    /\ up \in BOOLEAN
    /\ plugged \subseteq Ports
    /\ registry \in [Ids -> 0..(MaxEvents + 1)]
    /\ current \in Presets
    /\ wish \in Ids \cup {None}
    /\ spawned \in Seq(Presets) /\ queue \in Seq(Presets)
    /\ {selected, starting, watchdog} \subseteq {0} \cup Tasks
    /\ masters \in Seq([preset : Presets \ {NoPreset},
                        state : {"starting", "running", "cancelled", "ended"},
                        owns : BOOLEAN, saved : {0} \cup Tasks,
                        alone : BOOLEAN, owed : BOOLEAN,
                        pausing : BOOLEAN, surveying : BOOLEAN])
    /\ trigger \in BOOLEAN /\ alert \in BOOLEAN
    /\ listed \in [Ids -> {0} \cup Tasks]
    /\ stats \subseteq Tasks
    /\ budget \in 0..MaxEvents
    /\ excused \in BOOLEAN /\ overtaken \in BOOLEAN

(* run() up to its loop: the static presets and those of the ports are in  *)
(* the registry, and the first preset that is to be selected automatically *)
(* is requested.                                                           *)
Init ==
    /\ beacons \in BOOLEAN
    /\ up = TRUE
    /\ plugged \in SUBSET Ports
    /\ registry = [i \in Ids |-> IF i \in Static \cup plugged THEN 1 ELSE 0]
    /\ current = NoPreset
    /\ selected = 0
    /\ wish = None
    /\ \/ spawned = <<>>
       \/ \E i \in Static : spawned = <<Preset(i, 1)>>
    /\ queue = <<>>
    /\ starting = 0
    /\ masters = <<>>
    /\ trigger = FALSE
    /\ listed = [i \in Ids |-> 0]
    /\ alert = FALSE
    /\ watchdog = 0
    /\ stats = {}
    /\ budget = MaxEvents
    /\ excused = FALSE
    /\ overtaken = FALSE

Spend == budget > 0 /\ budget' = budget - 1

(* _request_preset_switch_later(): a background task sends the request.    *)
(* Two tasks of one batch may send in either order, which may excuse that  *)
(* the last choice does not stand.                                         *)
Later(p) == spawned' = Append(spawned, p)

\* Mutant: a choice of none does not forget the choice before.
Wished_Kept(p) == IF p = NoPreset THEN wish ELSE p.id

(* What is remembered of a choice.                                         *)
Wished(p) == p.id

(* handle_RTK_SOURCE(): the user chooses a preset that is registered, or   *)
(* none.                                                                   *)
Choose(p) ==
    /\ up /\ Spend
    /\ Later(p)
    /\ wish' = Wished(p)
    /\ excused' = (spawned # <<>>)
    /\ UNCHANGED <<beacons, up, plugged, registry, current, selected, queue,
                   starting, taskVars, sharedVars, overtaken>>

(* The request is too old to be remembered (RTKPresetRequest.age).         *)
ForgetWish ==
    /\ wish # None
    /\ wish' = None
    /\ UNCHANGED <<beacons, up, plugged, registry, current, selected, spawned,
                   queue, starting, taskVars, sharedVars, budget, excused,
                   overtaken>>

(* A device is plugged in or unplugged; the server hears of it later.      *)
ChangePort(p) ==
    /\ Spend
    /\ plugged' = IF p \in plugged THEN plugged \ {p} ELSE plugged \cup {p}
    /\ UNCHANGED <<beacons, up, registry, current, selected, requestVars, queue,
                   starting, taskVars, sharedVars, overtaken>>

(* _update_dynamic_presets() on an event from the bus: presets of new      *)
(* ports are added as new objects and those of missing ports are removed.  *)
(* Then a current preset that is gone is given up, and without a current   *)
(* preset the last wish is taken up again, both by a request.              *)
Generation == MaxEvents + 1 - budget

HotplugEvent ==
    /\ up /\ Spend
    /\ registry' = [i \in Ids |->
            IF i \in Static THEN 1
            ELSE IF i \notin plugged THEN 0
            ELSE IF registry[i] # 0 THEN registry[i]
            ELSE Generation]
    /\ \/ /\ current # NoPreset
          /\ registry'[current.id] = 0
          /\ Later(NoPreset)
          /\ excused' = TRUE
       \/ /\ current # NoPreset
          /\ registry'[current.id] # 0
          /\ UNCHANGED <<spawned, excused>>
       \/ /\ current = NoPreset
          /\ wish # None
          /\ registry'[wish] # 0
          /\ Later(Preset(wish, registry'[wish]))
          /\ UNCHANGED excused
       \/ /\ current = NoPreset
          /\ wish # None => registry'[wish] = 0
          /\ excused' = (excused \/ wish # None)
          /\ UNCHANGED spawned
    /\ UNCHANGED <<beacons, up, plugged, current, selected, wish, queue,
                   starting, taskVars, sharedVars, overtaken>>

(* The background tasks of a batch send their requests into the channel.   *)
Batch ==
    /\ spawned # <<>>
    /\ \E f \in Bijection(DOMAIN spawned, DOMAIN spawned) :
          queue' = IF up THEN queue \o [i \in DOMAIN spawned |-> spawned[f[i]]]
                   ELSE queue
    /\ spawned' = <<>>
    /\ UNCHANGED <<beacons, up, plugged, registry, current, selected, wish,
                   starting, taskVars, sharedVars, budget, excused, overtaken>>

\* Mutant: the task of the old preset goes on.
Cancelled_Not == masters

(* _perform_preset_switch() up to its end or to nursery.start(): the old   *)
(* master task is cancelled, not awaited.                                  *)
Cancelled == [m \in Tasks |->
    IF m = selected THEN [masters[m] EXCEPT !.state = "cancelled"]
    ELSE masters[m]]

Switch ==
    /\ up /\ starting = 0 /\ queue # <<>>
    /\ queue' = Tail(queue)
    /\ \/ /\ Head(queue) = current
          /\ UNCHANGED <<current, selected, starting, masters, overtaken>>
       \/ /\ Head(queue) # current
          /\ current' = Head(queue)
          /\ selected' = 0
          /\ \/ /\ current' = NoPreset
                /\ masters' = Cancelled
                /\ starting' = 0
                /\ overtaken' = FALSE
             \/ /\ current' # NoPreset
                /\ masters' = Append(Cancelled, Master(current'))
                /\ starting' = Len(masters')
                /\ overtaken' = (registry[current'.id] = 0)
    /\ UNCHANGED <<beacons, up, plugged, registry, requestVars, trigger,
                   sharedVars, budget>>

(* _run_connections_for_preset() up to its first wait.  A connection of    *)
(* which the registry has the name is not listed (ConnectionRegistry.use); *)
(* a survey request that was made before is replaced.                      *)
Begin ==
    /\ beacons
    /\ starting # 0
    /\ masters[starting].state = "starting"
    /\ LET i == masters[starting].preset.id IN
       /\ masters' = [masters EXCEPT ![starting] =
              [@ EXCEPT !.state = "running", !.owns = (listed[i] = 0),
                        !.saved = watchdog, !.alone = (Unfinished = {})]]
       /\ listed' = [listed EXCEPT ![i] = IF @ = 0 THEN starting ELSE @]
       /\ trigger' = (i \in Ports \cup AutoSurvey)
    /\ alert' = TRUE
    /\ watchdog' = starting
    /\ stats' = {}
    /\ UNCHANGED <<beacons, up, plugged, registry, current, selected,
                   requestVars, queue, starting, budget, overtaken>>

(* Without beacons RTKBeaconManager.use() returns before it yields, which  *)
(* is an error that ends run() of the extension.                           *)
Fail ==
    /\ ~beacons
    /\ starting # 0
    /\ up' = FALSE
    /\ masters' = [masters EXCEPT ![starting] = Ended(@)]
    /\ starting' = 0
    /\ current' = NoPreset
    /\ UNCHANGED <<beacons, plugged, registry, selected, requestVars, queue,
                   trigger, sharedVars, budget, overtaken>>

(* nursery.start() returns the scope of the new master task.               *)
Started ==
    /\ starting # 0
    /\ masters[starting].state = "running"
    /\ selected' = starting
    /\ starting' = 0
    /\ UNCHANGED <<beacons, up, plugged, registry, current, requestVars, queue,
                   taskVars, sharedVars, budget, overtaken>>

(* A packet is counted in the statistics; one that arrived before its task *)
(* was cancelled can be counted after that.                                *)
Packet(m) ==
    /\ m \in Unfinished \ stats
    /\ stats' = stats \cup {m}
    /\ UNCHANGED <<beacons, up, plugged, registry, current, selected,
                   requestVars, queue, starting, taskVars, listed, alert,
                   watchdog, budget, overtaken>>

\* Mutant: connections stay in the registry.
Unlisted_Not(m) == listed

\* Mutant: a connection that was not listed is removed all the same.
Unlisted_ByName(m) == [listed EXCEPT ![masters[m].preset.id] = 0]

(* A cancelled master task leaves its contexts: it removes what it listed, *)
(* disconnects the handler, puts the watchdog back that it has found, and  *)
(* clears the statistics, those of its successor too.                      *)
Unlisted(m) == IF masters[m].owns
               THEN [listed EXCEPT ![masters[m].preset.id] = 0]
               ELSE listed

Finish(m) ==
    /\ masters[m].state = "cancelled"
    /\ masters' = [masters EXCEPT ![m] = Ended(@)]
    /\ listed' = Unlisted(m)
    /\ alert' = FALSE
    /\ watchdog' = masters[m].saved
    /\ stats' = {}
    /\ UNCHANGED <<beacons, up, plugged, registry, current, selected,
                   requestVars, queue, starting, trigger, budget, overtaken>>

-------------------------------------------------------------------------------
(* Surveys.  handle_RTK_SURVEY() with valid settings sets the trigger, for *)
(* whichever master task waits for it.                                     *)
Supported(p) == p.id \in Ports \cup Surveyable

RequestSurvey ==
    /\ up /\ Spend
    /\ trigger' = TRUE
    /\ masters' = [m \in Tasks |-> [masters[m] EXCEPT
            !.owed = @ \/ (masters[m].state = "running" /\ Supported(masters[m].preset))]]
    /\ UNCHANGED <<beacons, up, plugged, registry, current, selected,
                   requestVars, queue, starting, sharedVars, overtaken>>

surveyUnchanged == <<beacons, up, plugged, registry, current, selected,
                     requestVars, queue, starting, listed, alert, watchdog,
                     budget, overtaken>>

(* The loop of the master task takes the request and cancels the survey    *)
(* that it has started before.                                             *)
TakeSurvey(m) ==
    /\ masters[m].state = "running"
    /\ trigger /\ ~masters[m].pausing
    /\ trigger' = FALSE
    /\ masters' = [masters EXCEPT ![m].pausing = TRUE, ![m].owed = FALSE,
                        ![m].surveying = FALSE]
    /\ UNCHANGED <<surveyUnchanged, stats>>

\* Mutant: the request is taken when the pause is over.
StartSurvey_Resetting(m) ==
    /\ masters[m].state = "running"
    /\ masters[m].pausing
    /\ trigger' = FALSE
    /\ masters' = [masters EXCEPT ![m].pausing = FALSE,
                        ![m].surveying = Supported(masters[m].preset)]
    /\ UNCHANGED <<surveyUnchanged, stats>>

(* After a pause, the loop starts the survey if the preset supports it.    *)
StartSurvey(m) ==
    /\ masters[m].state = "running"
    /\ masters[m].pausing
    /\ masters' = [masters EXCEPT ![m].pausing = FALSE,
                        ![m].surveying = Supported(masters[m].preset)]
    /\ UNCHANGED <<surveyUnchanged, trigger, stats>>

(* The receiver has got its settings, or has failed to; a receiver at a    *)
(* fixed position sets the status of the survey in the statistics.         *)
EndSurvey(m) ==
    /\ masters[m].state = "running"
    /\ masters[m].surveying
    /\ masters' = [masters EXCEPT ![m].surveying = FALSE]
    /\ stats' \in {stats, stats \cup {m}}
    /\ UNCHANGED <<surveyUnchanged, trigger>>

Next ==
    \/ \E p \in {NoPreset} \cup {Found(i) : i \in Ids} : Choose(p)
    \/ ForgetWish
    \/ \E p \in Ports : ChangePort(p)
    \/ HotplugEvent
    \/ Batch
    \/ Switch
    \/ Begin
    \/ Fail
    \/ Started
    \/ RequestSurvey
    \/ \E m \in Tasks : Packet(m) \/ Finish(m) \/ TakeSurvey(m)
                           \/ StartSurvey(m) \/ EndSurvey(m)

Spec == Init /\ [][Next]_vars

-------------------------------------------------------------------------------
(* The preset that users are shown is the one that runs: a master task     *)
(* that is not cancelled is the one of the current preset and the one that *)
(* the next switch will cancel, and a current preset has such a task.      *)
Live == {m \in Tasks : masters[m].state \in {"starting", "running"}}

ShownIsRunning ==
    up => /\ \A m \in Live : masters[m].preset = current /\ m \in {starting, selected}
          /\ current # NoPreset <=> Cardinality(Live) = 1

(* Of what there is only one, nothing goes wrong as long as tasks do not   *)
(* overlap: a preset that began to run when the one before had ended has   *)
(* its connection listed, its warnings handled and its beacon watched.     *)
(* (One that began earlier loses all three when the other one ends.)       *)
(* However they overlap, the statistics have no packets of a source whose  *)
(* task has ended.                                                         *)
SharedIsRight ==
    /\ stats \subseteq Unfinished
    /\ \A m \in Tasks : masters[m].state = "running" /\ masters[m].alone =>
          listed[masters[m].preset.id] = m /\ alert /\ watchdog = m

(* What users are shown in the list of connections are the connections of  *)
(* master tasks, running or cleaning up, each under the name of its        *)
(* preset; and nobody else takes the connection of such a task from the    *)
(* list, not even a task with the same preset, of which the name was taken *)
(* when it began, and which leaves it alone when it ends.                  *)
ListedByOwner ==
    /\ \A i \in Ids : listed[i] # 0 =>
          /\ listed[i] \in Unfinished /\ masters[listed[i]].owns
          /\ masters[listed[i]].preset.id = i
    /\ \A m \in Unfinished : masters[m].owns => listed[masters[m].preset.id] = m

(* Once all requests are served, the current preset is the one that the    *)
(* user has chosen last, unless another request was made in the same batch *)
(* or the device was found to be gone; and no preset stays current after   *)
(* its device was found to be gone, unless it was chosen before that and   *)
(* its turn came after.                                                    *)
RequestsSettle ==
    up /\ spawned = <<>> /\ queue = <<>> /\ starting = 0 =>
        /\ wish # None /\ ~excused => current.id = wish
        /\ current # NoPreset /\ registry[current.id] = 0 => overtaken

(* A survey that a user asked for while a preset was running is not lost   *)
(* as long as the preset runs, also if it was asked for while the loop     *)
(* pauses to let the survey before it end.                                 *)
SurveyIsKept ==
    \A m \in Tasks : masters[m].state = "running" /\ masters[m].owed => trigger
===============================================================================
