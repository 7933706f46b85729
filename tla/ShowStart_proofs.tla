---------------------------- MODULE ShowStart_proofs ----------------------------
(***************************************************************************)
(* Proofs about ShowStart, for any clocks and times: its type invariant,   *)
(* that the clocks of the show follow the configuration, and that a show   *)
(* starts in time unless its clock was changed a moment before.            *)
(***************************************************************************)
EXTENDS ShowStart, TLAPS

(***************************************************************************)
(* Types.                                                                  *)
(***************************************************************************)
TaskState == [step : Step, running : BOOLEAN, woken : BOOLEAN]
Ghost == [task : Tasks, step : {"new", "edge", "wait", "loop"}, running : BOOLEAN]

LEMMA ConfigTyped ==
  ASSUME NEW c \in Config
  PROVE  /\ c.time = None \/ c.time \in Int
         /\ c.clock \in Clocks \cup {Unix, Unknown}
BY TimesAssumption DEF Config

LEMMA FollowedTyped ==
  ASSUME NEW c \in Config
  PROVE  Followed(c) \in [Shows -> Sync]
<1>. SUFFICES ASSUME NEW w \in Shows PROVE Followed(c)[w] \in Sync
  BY DEF Followed
<1>1. CASE c.clock \in Clocks /\ c.time # None
  BY <1>1, ConfigTyped, DurationAssumption DEF Followed, Sync
<1>2. CASE ~(c.clock \in Clocks /\ c.time # None)
  BY <1>2 DEF Followed, NoSync, Sync
<1>. QED BY <1>1, <1>2

LEMMA DesiredTyped ==
  ASSUME NEW s \in Sync, NEW clocks \in [Clocks -> Zeros \cup {None}], s.clock \in Clocks
  PROVE  Desired(s, clocks) \in Int \cup {None}
<1>1. clocks[s.clock] \in Zeros \cup {None}
  OBVIOUS
<1>2. s.offset \in Int
  BY DEF Sync
<1>3. clocks[s.clock] = None \/ clocks[s.clock] \in Int
  BY <1>1, ZerosAssumption
<1>4. CASE clocks[s.clock] = None
  BY <1>4 DEF Desired
<1>5. CASE clocks[s.clock] # None /\ clocks[s.clock] \in Int
  <2>1. Desired(s, clocks) = clocks[s.clock] + s.offset
    BY <1>5 DEF Desired
  <2>. QED BY <2>1, <1>2, <1>5
<1>. QED BY <1>3, <1>4, <1>5

LEMMA SyncedTyped ==
  ASSUME TypeOK, NEW c \in Config
  PROVE  Synced(c) \in [Shows -> Int \cup {None}]
<1>. SUFFICES ASSUME NEW w \in Shows PROVE Synced(c)[w] \in Int \cup {None}
  BY DEF Synced
<1>1. CASE c.time = None \/ c.clock = Unknown
  BY <1>1 DEF Synced
<1>2. CASE c.time # None /\ c.clock = Unix
  BY <1>2, ConfigTyped, DurationAssumption DEF Synced, Unix, Unknown
<1>3. CASE c.time # None /\ c.clock \in Clocks
  <2>1. c.clock # Unix /\ c.clock # Unknown
    BY <1>3, NamesAssumption
  <2>2. Synced(c)[w] = Desired(Followed(c)[w], primary)
    BY <1>3, <2>1 DEF Synced
  <2>3. Followed(c)[w] \in Sync /\ Followed(c)[w].clock \in Clocks
    BY <1>3, FollowedTyped DEF Followed
  <2>4. primary \in [Clocks -> Zeros \cup {None}]
    BY DEF TypeOK
  <2>. QED BY <2>2, <2>3, <2>4, DesiredTyped
<1>. QED BY <1>1, <1>2, <1>3, ConfigTyped

LEMMA SignalledTyped ==
  ASSUME NEW ts \in [Tasks -> TaskState], NEW changed \in BOOLEAN
  PROVE  Signalled(ts, changed) \in [Tasks -> TaskState]
<1>. SUFFICES ASSUME NEW t \in Tasks PROVE Signalled(ts, changed)[t] \in TaskState
  BY DEF Signalled
<1>1. ts[t] \in TaskState
  OBVIOUS
<1>. QED BY <1>1 DEF Signalled, TaskState

LEMMA CancelledTyped ==
  ASSUME NEW ts \in [Tasks -> TaskState]
  PROVE  Cancelled(ts) \subseteq Ghost
<1>. SUFFICES ASSUME NEW t \in Tasks,
                     \/ ts[t].step \in {"edge", "wait"} /\ ts[t].woken
                     \/ t = "countdown" /\ ts[t].step \in {"new", "loop"}
              PROVE  [task |-> t, step |-> ts[t].step, running |-> ts[t].running] \in Ghost
  BY DEF Cancelled
<1>1. ts[t] \in TaskState
  OBVIOUS
<1>. QED BY <1>1 DEF TaskState, Ghost

LEMMA TypedParts ==
  TypeOK <=> /\ now \in 0 .. MaxTime
             /\ primary \in [Clocks -> Zeros \cup {None}]
             /\ config \in Config /\ announced \in Config
             /\ sync \in [Shows -> Sync]
             /\ ref \in [Shows -> Int \cup {None}]
             /\ tasks \in [Tasks -> TaskState]
             /\ ghosts \subseteq Ghost
             /\ last \in Int \cup {None}
             /\ fleet \in {"idle", "counting", "started"}
BY DEF TypeOK, TaskState, Ghost

LEMMA InitTyped == Init => TypeOK
<1>. SUFFICES ASSUME Init PROVE TypeOK
  OBVIOUS
<1>1. NoSync \in Sync
  BY DEF NoSync, Sync
<1>2. NoTask \in TaskState
  BY DEF NoTask, TaskState, Step
<1>. QED BY <1>1, <1>2, TypedParts, MaxTimeAssumption DEF Init

LEMMA ClockChangedTyped ==
  ASSUME TypeOK, NEW c \in Clocks, ClockChanged(c)
  PROVE  TypeOK'
<1>1. primary' \in [Clocks -> Zeros \cup {None}]
  BY DEF TypeOK, ClockChanged
<1>2. ref' \in [Shows -> Int \cup {None}]
  <2>. SUFFICES ASSUME NEW w \in Shows PROVE ref'[w] \in Int \cup {None}
    BY DEF ClockChanged
  <2>1. sync[w] \in Sync /\ ref[w] \in Int \cup {None}
    BY DEF TypeOK
  <2>2. CASE sync[w].clock = c
    <3>1. ref'[w] = Desired(sync[w], primary')
      BY <2>2 DEF ClockChanged
    <3>. QED BY <3>1, <2>1, <2>2, <1>1, DesiredTyped
  <2>3. CASE sync[w].clock # c
    BY <2>1, <2>3 DEF ClockChanged
  <2>. QED BY <2>2, <2>3
<1>3. tasks' \in [Tasks -> TaskState]
  BY SignalledTyped, TypedParts DEF ClockChanged
<1>. QED
  <2>1. UNCHANGED <<now, config, announced, sync, ghosts, last, fleet>>
    BY DEF ClockChanged
  <2>. QED BY <1>1, <1>2, <1>3, <2>1 DEF TypeOK, TaskState

LEMMA ConfigureTyped ==
  ASSUME TypeOK, Configure
  PROVE  TypeOK'
<1>1. config' \in Config /\ announced' \in Config
  BY DEF Configure
<1>2. sync' \in [Shows -> Sync]
  BY <1>1, FollowedTyped DEF Configure
<1>3. ref' \in [Shows -> Int \cup {None}]
  BY <1>1, SyncedTyped DEF Configure
<1>4. tasks' \in [Tasks -> TaskState]
  BY DEF Configure, NoTask, TaskState, Step
<1>5. ghosts' \subseteq Ghost
  <2>1. tasks \in [Tasks -> TaskState] /\ ghosts \subseteq Ghost
    BY TypedParts
  <2>2. Signalled(tasks, ref'["start"] # ref["start"]) \in [Tasks -> TaskState]
    BY <2>1, SignalledTyped
  <2>3. Cancelled(Signalled(tasks, ref'["start"] # ref["start"])) \subseteq Ghost
    BY <2>2, CancelledTyped
  <2>. QED BY <2>1, <2>3 DEF Configure
<1>6. last' \in Int \cup {None}
  BY DEF Configure
<1>7. UNCHANGED <<now, primary, fleet>>
  BY DEF Configure
<1>. QED BY <1>1, <1>2, <1>3, <1>4, <1>5, <1>6, <1>7 DEF TypeOK, TaskState, Ghost

LEMMA ConfigureHalfTyped ==
  ASSUME TypeOK, ConfigureHalf
  PROVE  TypeOK'
<1>1. config' \in Config
  BY DEF ConfigureHalf, TypeOK, Config
<1>. QED BY <1>1 DEF ConfigureHalf, TypeOK

(* A task that runs stays what it is.                                      *)
LEMMA AwakeTyped ==
  ASSUME NEW t \in Tasks, NEW k \in TaskState
  PROVE  /\ Awake(t, k).running \in BOOLEAN
         /\ Awake(t, k).step \in Step
<1>1. k.running \in BOOLEAN /\ k.step \in Step /\ k.woken \in BOOLEAN
  BY DEF TaskState
<1>2. Running \in BOOLEAN
  BY DEF Running
<1>. QED BY <1>1, <1>2 DEF Awake, Step

LEMMA KeepWaitingTyped ==
  ASSUME TypeOK, NEW t \in Tasks, KeepWaiting(t)
  PROVE  TypeOK'
<1>. DEFINE k == Awake(t, tasks[t])
<1>1. tasks[t] \in TaskState
  BY TypedParts
<1>2. k.running \in BOOLEAN
  BY <1>1, AwakeTyped
<1>3. PICK s \in Waiting(t, k) :
        tasks' = [tasks EXCEPT ![t] = [step |-> s, running |-> k.running, woken |-> FALSE]]
  BY DEF KeepWaiting
<1>4. s \in Step
  BY <1>3 DEF Waiting, Step
<1>5. [step |-> s, running |-> k.running, woken |-> FALSE] \in TaskState
  BY <1>2, <1>4 DEF TaskState
<1>6. tasks' \in [Tasks -> TaskState]
  <2>. HIDE DEF k
  <2>. QED BY <1>3, <1>5, TypedParts
<1>7. UNCHANGED <<now, primary, config, announced, sync, ref, ghosts, last, fleet>>
  BY DEF KeepWaiting
<1>. QED BY <1>6, <1>7 DEF TypeOK, TaskState

LEMMA StartTyped ==
  ASSUME TypeOK, Start
  PROVE  TypeOK'
<1>1. tasks' \in [Tasks -> TaskState]
  BY TypedParts DEF Start, NoTask, TaskState, Step, Tasks
<1>. QED BY <1>1 DEF Start, TypeOK, TaskState

LEMMA CountedTyped ==
  ASSUME TypeOK, NEW since, NEW goesOn \in BOOLEAN, Counted(since, goesOn)
  PROVE  /\ fleet' \in {fleet, "idle", "counting"}
         /\ goesOn => ref["start"] \in Int
<1>1. ref["start"] \in Int \cup {None}
  BY DEF TypeOK, Shows
<1>2. goesOn => ShouldRun(config, ref)
  BY DEF Counted
<1>. QED BY <1>1, <1>2 DEF Counted, ShouldRun

LEMMA IteratedTyped ==
  ASSUME TypeOK, NEW since \in Int \cup {None}, Iterated(since)
  PROVE  TypeOK'
<1>1. PICK goesOn \in BOOLEAN :
        /\ Counted(since, goesOn)
        /\ tasks' = [tasks EXCEPT !["countdown"] =
                       IF goesOn THEN [NoTask EXCEPT !.step = "loop"] ELSE NoTask]
        /\ last' = IF ~goesOn THEN None ELSE IF SetBack(since) THEN since ELSE Seconds
  BY DEF Iterated
<1>2. fleet' \in {fleet, "idle", "counting"} /\ (goesOn => ref["start"] \in Int)
  BY <1>1, CountedTyped
<1>3. now \in Int
  BY DEF TypeOK
<1>4. last' \in Int \cup {None}
  BY <1>1, <1>2, <1>3 DEF Seconds
<1>5. tasks' \in [Tasks -> TaskState]
  BY <1>1, TypedParts DEF NoTask, TaskState, Step, Tasks
<1>6. UNCHANGED <<now, primary, config, announced, sync, ref, ghosts>>
  BY DEF Iterated
<1>. QED BY <1>2, <1>4, <1>5, <1>6 DEF TypeOK, TaskState

LEMMA RunGhostTyped ==
  ASSUME TypeOK, NEW g \in ghosts, RunGhost(g)
  PROVE  TypeOK'
<1>1. fleet' \in {fleet, "idle", "counting", "started"}
  BY CountedTyped DEF RunGhost
<1>2. ghosts' \subseteq ghosts
  BY DEF RunGhost
<1>3. UNCHANGED <<now, primary, config, announced, sync, ref, tasks, last>>
  BY DEF RunGhost
<1>. QED BY <1>1, <1>2, <1>3 DEF TypeOK

LEMMA StepTyped == TypeOK /\ [Next]_vars => TypeOK'
<1>. SUFFICES ASSUME TypeOK, [Next]_vars PROVE TypeOK'
  OBVIOUS
<1>1. CASE Tick
  BY <1>1, MaxTimeAssumption DEF Tick, TypeOK
<1>2. CASE Configure
  BY <1>2, ConfigureTyped
<1>3. CASE ConfigureHalf
  BY <1>3, ConfigureHalfTyped
<1>4. CASE Start
  BY <1>4, StartTyped
<1>5. CASE BeginCountdown
  BY <1>5, IteratedTyped DEF BeginCountdown
<1>6. CASE Count
  <2>1. last \in Int \cup {None}
    BY DEF TypeOK
  <2>. QED BY <1>6, <2>1, IteratedTyped DEF Count
<1>7. CASE Land
  BY <1>7 DEF Land, TypeOK
<1>8. ASSUME NEW c \in Clocks, ClockChanged(c) PROVE TypeOK'
  BY <1>8, ClockChangedTyped
<1>9. ASSUME NEW t \in Tasks, KeepWaiting(t) PROVE TypeOK'
  BY <1>9, KeepWaitingTyped
<1>10. ASSUME NEW g \in ghosts, RunGhost(g) PROVE TypeOK'
  BY <1>10, RunGhostTyped
<1>11. CASE UNCHANGED vars
  BY <1>11 DEF vars, TypeOK
<1>. QED BY <1>1, <1>2, <1>3, <1>4, <1>5, <1>6, <1>7, <1>8, <1>9, <1>10, <1>11 DEF Next

(* Every variable keeps its type; in particular the clocks of the show are *)
(* stopped or have a time when they show zero, and a task that is cancelled *)
(* while it looks at the clock without a pause leaves nothing behind.      *)
THEOREM TypeCorrect == Spec => []TypeOK
BY InitTyped, StepTyped, PTL DEF Spec

(***************************************************************************)
(* The clocks of the show.                                                 *)
(***************************************************************************)
(* The clocks of the show are where the configuration and the clock that   *)
(* it names put them, and follow that clock and no other one.              *)
InSync == sync = Followed(announced) /\ ref = Synced(announced)

LEMMA InSyncFollows ==
  ASSUME TypeOK, InSync
  PROVE  ClocksFollow
<1>. DEFINE c == announced
<1>2. ref = [w \in Shows |->
               IF c.time = None \/ c.clock = Unknown THEN None
               ELSE IF c.clock = Unix THEN IF w = "end" THEN c.time + Duration ELSE c.time
               ELSE Desired(Followed(c)[w], primary)]
  BY DEF InSync, Synced
<1>3. "start" \in Shows /\ "end" \in Shows
  BY DEF Shows
<1>4. c \in Config /\ (c.time = None \/ c.time \in Int)
      /\ c.clock \in Clocks \cup {Unix, Unknown}
  BY ConfigTyped DEF TypeOK
<1>. HIDE DEF c
<1>5. CASE c.time = None \/ c.clock = Unknown
  <2>1. ref["start"] = None /\ ref["end"] = None
    BY <1>2, <1>3, <1>5
  <2>. QED BY <2>1, <1>5 DEF ClocksFollow, c
<1>6. CASE c.time # None /\ c.clock = Unix
  <2>1. ref["start"] = c.time /\ ref["end"] = c.time + Duration
    BY <1>2, <1>3, <1>6 DEF Unix, Unknown
  <2>2. c.time # None
    BY <1>6
  <2>. QED BY <2>1, <2>2, <1>6 DEF ClocksFollow, c, Unix, Unknown
<1>7. CASE c.time # None /\ c.clock \in Clocks
  <2>1. c.clock # Unix /\ c.clock # Unknown
    BY <1>7, NamesAssumption
  <2>2. Followed(c) = [w \in Shows |-> [clock |-> c.clock,
                        offset |-> IF w = "end" THEN c.time + Duration ELSE c.time]]
    BY <1>7 DEF Followed
  <2>3. ref["start"] = Desired(Followed(c)["start"], primary)
        /\ ref["end"] = Desired(Followed(c)["end"], primary)
    BY <1>2, <1>3, <1>7, <2>1
  <2>4. primary[c.clock] = None \/ primary[c.clock] \in Int
    BY <1>7, ZerosAssumption DEF TypeOK
  <2>5. /\ ref["start"] = IF primary[c.clock] = None THEN None ELSE primary[c.clock] + c.time
        /\ ref["end"] = IF primary[c.clock] = None THEN None
                         ELSE primary[c.clock] + (c.time + Duration)
    BY <2>2, <2>3, <1>3 DEF Desired
  <2>6. CASE primary[c.clock] = None
    BY <2>5, <2>6, <2>1, <1>7 DEF ClocksFollow, c
  <2>7. CASE primary[c.clock] # None /\ primary[c.clock] \in Int
    <3>1. ref["start"] = primary[c.clock] + c.time /\ ref["start"] # None
      BY <2>5, <2>7, <1>4, <1>7, NamesAssumption
    <3>2. ref["end"] = ref["start"] + Duration
      BY <2>5, <2>7, <1>4, <1>7, <3>1, DurationAssumption
    <3>. QED BY <3>1, <3>2, <2>7, <2>1, <1>7 DEF ClocksFollow, c
  <2>. QED BY <2>4, <2>6, <2>7
<1>. QED BY <1>4, <1>5, <1>6, <1>7

LEMMA InitInSync == Init => InSync
<1>. SUFFICES ASSUME Init PROVE InSync
  OBVIOUS
<1>1. announced.clock = Unix /\ announced.time = None
  BY DEF Init
<1>2. Followed(announced) = [w \in Shows |-> NoSync]
  BY <1>1 DEF Followed
<1>3. Synced(announced) = [w \in Shows |-> None]
  BY <1>1 DEF Synced
<1>. QED BY <1>2, <1>3 DEF Init, InSync

(* The clock that is followed changes, or one that is not.                 *)
LEMMA ClockChangedInSync ==
  ASSUME TypeOK, InSync, NEW c \in Clocks, ClockChanged(c)
  PROVE  InSync'
<1>. DEFINE a == announced
<1>1. announced' = a /\ sync' = sync /\ sync = Followed(a)
  BY DEF ClockChanged, InSync
<1>2. Followed(announced)' = Followed(a)
  BY <1>1 DEF Followed
<1>3. a \in Config /\ a.clock \in Clocks \cup {Unix, Unknown}
  BY ConfigTyped DEF TypeOK
<1>4. PICK zero \in Zeros \cup {None} : primary' = [primary EXCEPT ![c] = zero]
  BY DEF ClockChanged
<1>5. ref = [w \in Shows |->
               IF a.time = None \/ a.clock = Unknown THEN None
               ELSE IF a.clock = Unix THEN IF w = "end" THEN a.time + Duration ELSE a.time
               ELSE Desired(Followed(a)[w], primary)]
  BY DEF InSync, Synced
<1>6. Synced(announced)' =
        [w \in Shows |->
           IF a.time = None \/ a.clock = Unknown THEN None
           ELSE IF a.clock = Unix THEN IF w = "end" THEN a.time + Duration ELSE a.time
           ELSE Desired(Followed(a)[w], primary')]
  BY <1>1 DEF Synced, Followed, Desired
<1>7. ref' = [w \in Shows |-> IF sync[w].clock = c THEN Desired(sync[w], primary') ELSE ref[w]]
  BY DEF ClockChanged
<1>8. ref' = Synced(announced)'
  <2>. SUFFICES ASSUME NEW w \in Shows PROVE ref'[w] = Synced(announced)'[w]
    BY <1>6, <1>7
  <2>1. ref'[w] = IF sync[w].clock = c THEN Desired(sync[w], primary') ELSE ref[w]
    BY <1>7
  <2>2. CASE a.clock \in Clocks /\ a.time # None
    <3>1. a.clock # Unix /\ a.clock # Unknown
      BY <2>2, NamesAssumption
    <3>2. Followed(a)[w].clock = a.clock
      BY <2>2 DEF Followed
    <3>3. Synced(announced)'[w] = Desired(sync[w], primary')
      BY <1>6, <1>1, <2>2, <3>1
    <3>4. ref[w] = Desired(sync[w], primary)
      BY <1>5, <1>1, <2>2, <3>1
    <3>5. CASE a.clock = c
      BY <2>1, <3>2, <3>3, <3>5, <1>1
    <3>6. CASE a.clock # c
      <4>1. ref'[w] = ref[w]
        BY <2>1, <3>2, <3>6, <1>1
      <4>2. primary'[a.clock] = primary[a.clock]
        BY <1>4, <2>2, <3>6 DEF TypeOK
      <4>3. Desired(sync[w], primary') = Desired(sync[w], primary)
        BY <4>2, <3>2, <1>1 DEF Desired
      <4>. QED BY <4>1, <4>3, <3>3, <3>4
    <3>. QED BY <3>5, <3>6
  <2>3. CASE ~(a.clock \in Clocks /\ a.time # None)
    <3>1. sync[w].clock = None
      BY <2>3, <1>1 DEF Followed, NoSync
    <3>2. ref'[w] = ref[w]
      BY <2>1, <3>1, NamesAssumption
    <3>3. Synced(announced)'[w] = ref[w]
      BY <1>5, <1>6, <1>3, <2>3
    <3>. QED BY <3>2, <3>3
  <2>. QED BY <2>2, <2>3
<1>. QED BY <1>1, <1>2, <1>8 DEF InSync

LEMMA StepInSync == TypeOK /\ InSync /\ [Next]_vars => InSync'
<1>. SUFFICES ASSUME TypeOK, InSync, [Next]_vars PROVE InSync'
  OBVIOUS
<1>1. CASE Configure
  BY <1>1 DEF Configure, InSync, Followed, Synced, Desired
<1>2. ASSUME NEW c \in Clocks, ClockChanged(c) PROVE InSync'
  BY <1>2, ClockChangedInSync
<1>3. CASE UNCHANGED <<primary, announced, sync, ref>>
  BY <1>3 DEF InSync, Followed, Synced, Desired
<1>4. CASE \/ Tick \/ ConfigureHalf \/ Start \/ BeginCountdown \/ Count \/ Land
           \/ \E t \in Tasks : KeepWaiting(t)
           \/ \E g \in ghosts : RunGhost(g)
           \/ UNCHANGED vars
  BY <1>3, <1>4 DEF Tick, ConfigureHalf, Start, BeginCountdown, Count, Iterated, Land,
                    KeepWaiting, RunGhost, vars
<1>. QED BY <1>1, <1>2, <1>4 DEF Next

(* The clocks of the show follow the configuration that was told last and  *)
(* the clock that it names, whatever was followed before.                  *)
THEOREM ClocksAreFollowed == Spec => []ClocksFollow
<1>1. TypeOK /\ InSync => ClocksFollow
  BY InSyncFollows
<1>. QED BY InitTyped, StepTyped, InitInSync, StepInSync, <1>1, PTL DEF Spec

(***************************************************************************)
(* The start.                                                              *)
(***************************************************************************)
(* A task that is to start the show was made with the consent of the last  *)
(* configuration; and it knows when the clock is stopped, unless an event  *)
(* that it has not seen yet is there for it.                               *)
Consent ==
  tasks["start"].step # "none" => announced.authorized /\ announced.method = "auto"
Aware ==
  /\ tasks["start"].step \notin {"none", "new"}
  /\ ~tasks["start"].woken
  /\ tasks["start"].running
  => Running
Quiet ==
  /\ tasks["start"].step # "loop"
  /\ tasks["start"].step = "none" => ~tasks["start"].woken

StartInv == Consent /\ Aware /\ Quiet

LEMMA InitStart == Init => StartInv
BY DEF Init, StartInv, Consent, Aware, Quiet, NoTask, Tasks

LEMMA ClockChangedStart ==
  ASSUME TypeOK, StartInv, NEW c \in Clocks, ClockChanged(c)
  PROVE  StartInv'
<1>. DEFINE k == tasks["start"]
<1>1. "start" \in Tasks
  BY DEF Tasks
<1>2. k \in TaskState
  BY <1>1, TypedParts
<1>3. announced' = announced
  BY DEF ClockChanged
<1>4. tasks'["start"] = IF ref'["start"] # ref["start"] /\ k.step \in {"edge", "wait", "busy"}
                        THEN [k EXCEPT !.woken = TRUE] ELSE k
  BY <1>1 DEF ClockChanged, Signalled
<1>5. CASE ref'["start"] # ref["start"] /\ k.step \in {"edge", "wait", "busy"}
  <2>1. tasks'["start"].step = k.step /\ tasks'["start"].woken
    BY <1>2, <1>4, <1>5 DEF TaskState
  <2>. QED BY <2>1, <1>3, <1>5 DEF StartInv, Consent, Aware, Quiet
<1>6. CASE ~(k.step \in {"edge", "wait", "busy"})
  <2>1. tasks'["start"] = k
    BY <1>4, <1>6
  <2>2. k.step \in {"none", "new"}
    BY <1>2, <1>6 DEF TaskState, Step, StartInv, Quiet
  <2>. QED BY <2>1, <2>2, <1>3 DEF StartInv, Consent, Aware, Quiet
<1>7. CASE ref'["start"] = ref["start"]
  <2>1. tasks'["start"] = k
    BY <1>4, <1>7
  <2>. QED BY <2>1, <1>3, <1>7 DEF StartInv, Consent, Aware, Quiet, Running
<1>. QED BY <1>5, <1>6, <1>7

LEMMA KeepWaitingStart ==
  ASSUME TypeOK, StartInv, NEW t \in Tasks, KeepWaiting(t)
  PROVE  StartInv'
<1>. DEFINE k == Awake(t, tasks[t])
<1>1. UNCHANGED <<announced, ref, now>>
  BY DEF KeepWaiting
<1>2. tasks[t] \in TaskState /\ "start" \in Tasks
  BY TypedParts DEF Tasks
<1>3. PICK s \in Waiting(t, k) :
        tasks' = [tasks EXCEPT ![t] = [step |-> s, running |-> k.running, woken |-> FALSE]]
  BY DEF KeepWaiting
<1>4. CanRun(t) /\ ~Due(t, k)
  BY DEF KeepWaiting
<1>5. k.running => k.running = TRUE
  BY <1>2, AwakeTyped
<1>. HIDE DEF k
<1>6. CASE t # "start"
  <2>1. tasks'["start"] = tasks["start"]
    BY <1>3, <1>6
  <2>. QED BY <2>1, <1>1 DEF StartInv, Consent, Aware, Quiet, Running
<1>7. CASE t = "start"
  <2>1. tasks'["start"] = [step |-> s, running |-> k.running, woken |-> FALSE]
    BY <1>2, <1>3, <1>7 DEF TypeOK
  <2>2. tasks["start"].step # "none"
    BY <1>4, <1>7 DEF CanRun, StartInv, Quiet
  <2>3. s \in {"edge", "wait", "busy"}
    BY <1>3 DEF Waiting
  <2>4. k.running => Running
    <3>1. CASE Held(t, k)
      BY <3>1 DEF Held
    <3>2. CASE ~Held(t, k)
      BY <3>2, <1>4 DEF Due
    <3>. QED BY <3>1, <3>2
  <2>. QED BY <2>1, <2>2, <2>3, <2>4, <1>1 DEF StartInv, Consent, Aware, Quiet, Running
<1>. QED BY <1>6, <1>7

LEMMA ConfigureStart ==
  ASSUME TypeOK, Configure
  PROVE  StartInv'
<1>1. announced' = config' /\ "start" \in Tasks
  BY DEF Configure, Tasks
<1>2. CASE ShouldRun(config', ref')
  <2>1. tasks'["start"] = [NoTask EXCEPT !.step = "new"]
    BY <1>1, <1>2 DEF Configure
  <2>2. config'.authorized /\ config'.method = "auto"
    BY <1>2 DEF ShouldRun
  <2>. QED BY <2>1, <2>2, <1>1 DEF StartInv, Consent, Aware, Quiet, NoTask
<1>3. CASE ~ShouldRun(config', ref')
  <2>1. tasks'["start"] = NoTask
    BY <1>1, <1>3 DEF Configure
  <2>. QED BY <2>1 DEF StartInv, Consent, Aware, Quiet, NoTask
<1>. QED BY <1>2, <1>3

LEMMA StepStart == TypeOK /\ StartInv /\ [Next]_vars => StartInv'
<1>. SUFFICES ASSUME TypeOK, StartInv, [Next]_vars PROVE StartInv'
  OBVIOUS
<1>1. CASE Configure
  BY <1>1, ConfigureStart
<1>2. ASSUME NEW c \in Clocks, ClockChanged(c) PROVE StartInv'
  BY <1>2, ClockChangedStart
<1>3. ASSUME NEW t \in Tasks, KeepWaiting(t) PROVE StartInv'
  BY <1>3, KeepWaitingStart
<1>4. CASE Start
  <2>1. tasks'["start"] = NoTask
    BY <1>4 DEF Start, TypeOK, Tasks
  <2>. QED BY <2>1 DEF StartInv, Consent, Aware, Quiet, NoTask
<1>5. CASE UNCHANGED <<announced, ref, tasks["start"]>>
  BY <1>5 DEF StartInv, Consent, Aware, Quiet, Running
<1>6. CASE BeginCountdown \/ Count
  <2>1. UNCHANGED <<announced, ref, tasks["start"]>>
    BY <1>6 DEF BeginCountdown, Count, Iterated, TypeOK, Tasks
  <2>. QED BY <2>1, <1>5
<1>7. CASE \/ Tick \/ ConfigureHalf \/ Land
           \/ \E g \in ghosts : RunGhost(g)
           \/ UNCHANGED vars
  BY <1>5, <1>7 DEF Tick, ConfigureHalf, Land, RunGhost, vars
<1>. QED BY <1>1, <1>2, <1>3, <1>4, <1>6, <1>7 DEF Next

(* The task that starts the show does so when the clock says so, if it has *)
(* seen all that has happened to the clock.                                *)
LEMMA StartInTime ==
  ASSUME TypeOK, StartInv, Start
  PROVE  Disturbed \/ (ShouldRun(announced, ref) /\ Reached("start"))
<1>. SUFFICES ASSUME ~tasks["start"].woken
              PROVE  ShouldRun(announced, ref) /\ Reached("start")
  BY DEF Disturbed
<1>. DEFINE k == tasks["start"]
            a == Awake("start", k)
<1>1. k \in TaskState
  BY TypedParts DEF Tasks
<1>2. CanRun("start") /\ ~Held("start", a) /\ a.running /\ (Running => Reached("start"))
  BY DEF Start, Due
<1>3. k.step # "none"
  BY <1>2 DEF CanRun, StartInv, Quiet
<1>4. Running
  <2>1. CASE k.step = "new"
    <3>1. a = [step |-> "edge", running |-> ("start" = "start" => Running)]
      BY <2>1 DEF Awake
    <3>2. a.running = ("start" = "start" => Running)
      BY <3>1
    <3>. QED BY <3>2, <1>2
  <2>2. CASE k.step # "new"
    <3>1. a.running = k.running
      BY <2>2 DEF Awake
    <3>. QED BY <3>1, <2>2, <1>2, <1>3 DEF StartInv, Aware
  <2>. QED BY <2>1, <2>2
<1>5. announced.authorized /\ announced.method = "auto"
  BY <1>3 DEF StartInv, Consent
<1>. QED BY <1>2, <1>4, <1>5 DEF ShouldRun, Running

LEMMA StepInTime ==
  ASSUME TypeOK, StartInv, [Next]_vars, fleet # "started", fleet' = "started"
  PROVE  Disturbed \/ (ShouldRun(announced, ref) /\ Reached("start"))
<1>1. CASE Start
  BY <1>1, StartInTime
<1>2. CASE BeginCountdown \/ Count
  BY <1>2 DEF BeginCountdown, Count, Iterated, Counted
<1>3. ASSUME NEW g \in ghosts, RunGhost(g) PROVE Disturbed
  <2>1. CASE g.task = "start"
    BY <2>1 DEF Disturbed
  <2>2. CASE g.task # "start"
    BY <1>3, <2>2 DEF RunGhost, Counted
  <2>. QED BY <2>1, <2>2
<1>4. CASE Tick \/ Configure \/ ConfigureHalf
  BY <1>4 DEF Tick, Configure, ConfigureHalf
<1>5. CASE (\E c \in Clocks : ClockChanged(c)) \/ (\E t \in Tasks : KeepWaiting(t))
  BY <1>5 DEF ClockChanged, KeepWaiting
<1>6. CASE Land \/ UNCHANGED vars
  BY <1>6 DEF Land, vars
<1>. QED BY <1>1, <1>2, <1>3, <1>4, <1>5, <1>6 DEF Next

(* A show starts with the consent of the last configuration and when its   *)
(* clock says so, unless the clock was changed a moment before.            *)
THEOREM StartIsInTime == Spec => StartsInTime
<1>1. TypeOK /\ StartInv /\ [Next]_vars
        => (fleet # "started" /\ fleet' = "started"
              => Disturbed \/ (ShouldRun(announced, ref) /\ Reached("start")))
  BY StepInTime
<1>2. TypeOK /\ StartInv /\ [Next]_vars
        => [fleet # "started" /\ fleet' = "started"
              => Disturbed \/ (ShouldRun(announced, ref) /\ Reached("start"))]_vars
  BY <1>1
<1>. QED BY InitTyped, StepTyped, InitStart, StepStart, <1>2, PTL DEF Spec, StartsInTime
=============================================================================
