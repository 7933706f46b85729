--------------------------- MODULE RTKPresets_proofs ---------------------------
(***************************************************************************)
(* Proofs about RTKPresets: its type invariant, that the preset that users *)
(* are shown is the one that runs, that requests settle, that what the     *)
(* master tasks share is right as long as they do not overlap, and that no *)
(* request for a survey is lost, for any presets and ports and however     *)
(* long the behaviour.                                                     *)
(***************************************************************************)
EXTENDS RTKPresets, FiniteSetTheorems, SequenceTheorems, TLAPS

(* While run() is running, the only master task that is not cancelled is   *)
(* the one that it waits for or else the one that the next switch cancels; *)
(* it is of the current preset, and there is one unless no preset is       *)
(* current.                                                                *)
OneTask ==
    up => \/ /\ starting = 0 /\ selected = 0 /\ current = NoPreset
             /\ Live = {}
          \/ /\ starting # 0 /\ selected = 0 /\ current # NoPreset
             /\ Live = {starting}
             /\ masters[starting].preset = current
          \/ /\ starting = 0 /\ selected # 0 /\ current # NoPreset
             /\ Live = {selected}
             /\ masters[selected].preset = current
             /\ masters[selected].state = "running"

(* run() ends only where beacons are not enabled, and there no master task *)
(* ever gets to run.                                                       *)
EndsForGood ==
    /\ ~up => ~beacons /\ starting = 0
    /\ ~beacons => selected = 0 /\ \A m \in Tasks : masters[m].state \in {"starting", "ended"}

(* Nothing overlaps with a task that began when none was left.             *)
AloneIsAlone ==
    \A m \in Tasks : masters[m].state = "running" /\ masters[m].alone => Unfinished = {m}

(* The loop of a task that has not begun owes nobody a survey.             *)
NothingOwedYet == \A m \in Tasks : masters[m].state = "starting" => ~masters[m].owed

(* The request that comes last is for what the user wants.                 *)
WishPending ==
    up /\ wish # None /\ ~excused =>
       /\ \A k \in DOMAIN spawned : spawned[k].id = wish
       /\ spawned = <<>> /\ queue # <<>> => queue[Len(queue)].id = wish
       /\ spawned = <<>> /\ queue = <<>> => current.id = wish

(* The request to give up a preset whose device was found to be gone is    *)
(* still there.                                                            *)
GivingUpPending ==
    up /\ current # NoPreset /\ registry[current.id] = 0 /\ ~overtaken =>
       \/ \E k \in DOMAIN spawned : spawned[k] = NoPreset
       \/ \E k \in DOMAIN queue : queue[k] = NoPreset

(***************************************************************************)
(* Types.                                                                  *)
(***************************************************************************)
MasterOf(tasks) ==
    [preset : Presets \ {NoPreset},
     state : {"starting", "running", "cancelled", "ended"},
     owns : BOOLEAN, saved : {0} \cup tasks, alone : BOOLEAN, owed : BOOLEAN,
     pausing : BOOLEAN, surveying : BOOLEAN]

(* Master tasks are numbered from 1.                                       *)
LEMMA Numbered ==
    ASSUME TypeOK
    PROVE  /\ Len(masters) \in Nat /\ Tasks = 1 .. Len(masters)
           /\ masters \in [Tasks -> MasterOf(Tasks)]
           /\ masters \in Seq(MasterOf(Tasks))
<1>1. masters \in Seq(MasterOf(Tasks))
    BY DEF TypeOK, MasterOf
<1>2. Len(masters) \in Nat /\ DOMAIN masters = 1 .. Len(masters)
    BY <1>1, LenProperties
<1>3. masters \in [1 .. Len(masters) -> MasterOf(Tasks)]
    BY <1>1, LenProperties
<1>. QED BY <1>1, <1>2, <1>3 DEF Tasks

LEMMA Updated ==
    ASSUME TypeOK, masters' \in [Tasks -> MasterOf(Tasks)]
    PROVE  masters' \in Seq(MasterOf(Tasks')) /\ Tasks' = Tasks
<1>1. Tasks' = Tasks
    BY DEF Tasks
<1>2. Tasks = 1 .. Len(masters) /\ Len(masters) \in Nat
    BY Numbered
<1>3. masters' \in Seq(MasterOf(Tasks))
    BY <1>2
<1>. QED BY <1>1, <1>3

LEMMA PresetFacts ==
    /\ NoPreset \in Presets /\ NoPreset.id = None /\ NoPreset.id \notin Ids
    /\ \A i \in Ids, g \in 1 .. (MaxEvents + 1) :
          Preset(i, g) \in Presets /\ Preset(i, g).id = i /\ Preset(i, g) # NoPreset
    /\ \A p \in Presets : p.id \in Ids \cup {None}
    /\ \A p \in Presets : p # NoPreset => p.id \in Ids
    /\ \A p \in Presets : p.id = None => p = NoPreset
<1>1. None \notin Ids
    BY PresetsAssumption DEF Ids
<1>2. \A i, g : Preset(i, g).id = i
    BY DEF Preset
<1>3. NoPreset.id = None
    BY <1>2 DEF NoPreset
<1>4. \A p \in Presets : p = NoPreset \/ \E i \in Ids, g \in 1 .. (MaxEvents + 1) : p = Preset(i, g)
    BY DEF Presets
<1>5. NoPreset \in Presets /\ \A i \in Ids, g \in 1 .. (MaxEvents + 1) : Preset(i, g) \in Presets
    BY DEF Presets
<1>. QED BY <1>1, <1>2, <1>3, <1>4, <1>5

LEMMA FreshTyped ==
    ASSUME NEW p \in Presets \ {NoPreset}, NEW tasks
    PROVE  Master(p) \in MasterOf(tasks)
BY DEF Master, MasterOf

LEMMA EndedTyped ==
    ASSUME NEW tasks, NEW t \in MasterOf(tasks)
    PROVE  /\ Ended(t) \in MasterOf(tasks) /\ Ended(t).preset = t.preset
           /\ Ended(t).state = "ended" /\ ~Ended(t).owed
BY DEF Ended, Master, MasterOf

(* A batch of requests, in whatever order it is sent.                      *)
LEMMA BatchTyped ==
    ASSUME NEW S, NEW s \in Seq(S), NEW f \in Bijection(DOMAIN s, DOMAIN s),
           NEW b, b = [i \in DOMAIN s |-> s[f[i]]]
    PROVE  /\ b \in Seq(S) /\ DOMAIN b = DOMAIN s /\ Len(b) = Len(s)
<1>1. f \in [DOMAIN s -> DOMAIN s]
    BY DEF Bijection, Injection, Surjection
<1>2. DOMAIN s = 1 .. Len(s) /\ Len(s) \in Nat /\ s \in [1 .. Len(s) -> S]
    BY LenProperties
<1>3. b \in [1 .. Len(s) -> S]
    BY <1>1, <1>2
<1>4. b \in Seq(S) /\ Len(b) = Len(s)
    BY ONLY <1>2, <1>3
<1>. QED BY <1>3, <1>4

LEMMA InitTyped == Init => TypeOK
<1>. SUFFICES ASSUME Init PROVE TypeOK
    OBVIOUS
<1>1. MaxEvents \in Nat
    BY PresetsAssumption
<1>2. registry \in [Ids -> 0 .. (MaxEvents + 1)]
    <2>1. 0 \in 0 .. (MaxEvents + 1) /\ 1 \in 0 .. (MaxEvents + 1)
        BY <1>1
    <2>. QED BY <2>1 DEF Init
<1>3. spawned \in Seq(Presets)
    <2>1. CASE spawned = <<>>
        BY <2>1, EmptySeq
    <2>2. CASE \E i \in Static : spawned = <<Preset(i, 1)>>
        <3>1. PICK i \in Static : spawned = <<Preset(i, 1)>>
            BY <2>2
        <3>2. i \in Ids /\ 1 \in 1 .. (MaxEvents + 1)
            BY <1>1 DEF Ids
        <3>3. Preset(i, 1) \in Presets
            BY <3>2, PresetFacts
        <3>. QED BY <3>1, <3>3
    <2>. QED BY <2>1, <2>2 DEF Init
<1>4. queue \in Seq(Presets)
    <2>1. queue = <<>>
        BY DEF Init
    <2>. QED BY <2>1, EmptySeq
<1>5. masters \in Seq(MasterOf(Tasks)) /\ Tasks = {}
    <2>1. masters = <<>>
        BY DEF Init
    <2>2. masters \in Seq(MasterOf(Tasks))
        BY <2>1, EmptySeq
    <2>. QED BY <2>1, <2>2 DEF Tasks
<1>6. budget \in 0 .. MaxEvents
    BY <1>1 DEF Init
<1>. QED
    BY <1>2, <1>3, <1>4, <1>5, <1>6, PresetFacts DEF Init, TypeOK, MasterOf

(* What users, ports and the bus do.                                       *)
LEMMA SpendTyped ==
    ASSUME TypeOK, Spend
    PROVE  budget' \in 0 .. MaxEvents /\ Generation \in 1 .. (MaxEvents + 1)
<1>1. budget \in 0 .. MaxEvents /\ budget > 0 /\ budget' = budget - 1 /\ MaxEvents \in Nat
    BY PresetsAssumption DEF TypeOK, Spend
<1>. QED BY <1>1 DEF Generation

LEMMA LaterTyped ==
    ASSUME TypeOK, NEW p \in Presets, Later(p)
    PROVE  /\ spawned' \in Seq(Presets) /\ spawned' # <<>>
           /\ Len(spawned') = Len(spawned) + 1 /\ Len(spawned) \in Nat
           /\ DOMAIN spawned' = 1 .. Len(spawned) + 1 /\ DOMAIN spawned = 1 .. Len(spawned)
           /\ spawned'[Len(spawned) + 1] = p
           /\ \A k \in DOMAIN spawned : spawned'[k] = spawned[k]
<1>1. spawned \in Seq(Presets)
    BY DEF TypeOK
<1>2. Len(spawned) \in Nat /\ DOMAIN spawned = 1 .. Len(spawned)
    BY <1>1, LenProperties
<1>3. /\ spawned' \in Seq(Presets) /\ Len(spawned') = Len(spawned) + 1
      /\ spawned'[Len(spawned) + 1] = p
      /\ \A k \in 1 .. Len(spawned) : spawned'[k] = spawned[k]
    BY <1>1, AppendProperties DEF Later
<1>4. DOMAIN spawned' = 1 .. Len(spawned')
    BY <1>3, LenProperties
<1>5. spawned' # <<>>
    BY <1>2, <1>3, EmptySeq
<1>. QED BY <1>2, <1>3, <1>4, <1>5

LEMMA FoundTyped ==
    ASSUME TypeOK, NEW i \in Ids
    PROVE  Found(i) \in Presets
<1>1. registry[i] # 0 => registry[i] \in 1 .. (MaxEvents + 1)
    BY PresetsAssumption DEF TypeOK
<1>. QED BY <1>1, PresetFacts DEF Found

LEMMA RequestsTyped ==
    ASSUME TypeOK,
           \/ \E p \in {NoPreset} \cup {Found(i) : i \in Ids} : Choose(p)
           \/ ForgetWish \/ HotplugEvent \/ Batch
           \/ \E p \in Ports : ChangePort(p)
    PROVE  TypeOK'
<1>. USE DEF taskVars, sharedVars, requestVars
<1>1. ASSUME NEW p \in {NoPreset} \cup {Found(i) : i \in Ids}, Choose(p) PROVE TypeOK'
    <2>1. p \in Presets /\ p.id \in Ids \cup {None}
        BY FoundTyped, PresetFacts
    <2>2. spawned' \in Seq(Presets) /\ budget' \in 0 .. MaxEvents
        BY <1>1, <2>1, SpendTyped, LaterTyped DEF Choose
    <2>3. wish' \in Ids \cup {None} /\ excused' \in BOOLEAN
        BY <1>1, <2>1 DEF Choose, Wished
    <2>. QED BY <1>1, <2>2, <2>3 DEF TypeOK, Choose, Tasks
<1>2. CASE ForgetWish
    BY <1>2 DEF TypeOK, ForgetWish, Tasks
<1>3. ASSUME NEW p \in Ports, ChangePort(p) PROVE TypeOK'
    <2>1. budget' \in 0 .. MaxEvents
        BY <1>3, SpendTyped DEF ChangePort
    <2>2. plugged' \subseteq Ports
        BY <1>3 DEF ChangePort, TypeOK
    <2>. QED BY <1>3, <2>1, <2>2 DEF TypeOK, ChangePort, Tasks
<1>4. CASE HotplugEvent
    <2>1. budget' \in 0 .. MaxEvents /\ Generation \in 1 .. (MaxEvents + 1)
        BY <1>4, SpendTyped DEF HotplugEvent
    <2>2. registry' \in [Ids -> 0 .. (MaxEvents + 1)]
        <3>1. 0 \in 0 .. (MaxEvents + 1) /\ 1 \in 0 .. (MaxEvents + 1)
              /\ Generation \in 0 .. (MaxEvents + 1)
            BY <2>1, PresetsAssumption
        <3>2. registry \in [Ids -> 0 .. (MaxEvents + 1)]
            BY DEF TypeOK
        <3>. QED BY <1>4, <3>1, <3>2 DEF HotplugEvent
    <2>3. spawned' \in Seq(Presets) /\ excused' \in BOOLEAN
        <3>1. CASE Later(NoPreset) /\ excused' = TRUE
            BY <3>1, LaterTyped, PresetFacts
        <3>2. CASE /\ wish # None /\ registry'[wish] # 0
                   /\ Later(Preset(wish, registry'[wish])) /\ UNCHANGED excused
            <4>1. wish \in Ids
                BY <3>2 DEF TypeOK
            <4>2. registry'[wish] \in 1 .. (MaxEvents + 1)
                BY <2>2, <3>2, <4>1, PresetsAssumption
            <4>3. Preset(wish, registry'[wish]) \in Presets
                BY <4>1, <4>2, PresetFacts
            <4>. QED BY <3>2, <4>3, LaterTyped DEF TypeOK
        <3>3. CASE UNCHANGED spawned /\ (UNCHANGED excused \/ excused' = (excused \/ wish # None))
            BY <3>3 DEF TypeOK
        <3>. QED BY <1>4, <3>1, <3>2, <3>3 DEF HotplugEvent
    <2>4. UNCHANGED <<beacons, up, plugged, current, selected, wish, queue, starting,
                      masters, trigger, listed, alert, watchdog, stats, overtaken>>
        BY <1>4 DEF HotplugEvent
    <2>. QED BY <2>1, <2>2, <2>3, <2>4 DEF TypeOK, Tasks
<1>5. CASE Batch
    <2>1. spawned \in Seq(Presets) /\ queue \in Seq(Presets)
        BY DEF TypeOK
    <2>2. PICK f \in Bijection(DOMAIN spawned, DOMAIN spawned) :
            queue' = IF up THEN queue \o [i \in DOMAIN spawned |-> spawned[f[i]]] ELSE queue
        BY <1>5 DEF Batch
    <2>. DEFINE sent == [i \in DOMAIN spawned |-> spawned[f[i]]]
    <2>3. sent \in Seq(Presets)
        BY <2>1, BatchTyped
    <2>4. queue' \in Seq(Presets)
        BY <2>1, <2>2, <2>3, ConcatProperties
    <2>5. spawned' \in Seq(Presets)
        <3>1. spawned' = <<>>
            BY <1>5 DEF Batch
        <3>. QED BY <3>1, EmptySeq
    <2>. QED BY <1>5, <2>4, <2>5 DEF TypeOK, Batch, Tasks
<1>. QED BY <1>1, <1>2, <1>3, <1>4, <1>5

(* The extension.                                                          *)
LEMMA CancelledTyped ==
    ASSUME TypeOK
    PROVE  /\ Cancelled \in [Tasks -> MasterOf(Tasks)]
           /\ Cancelled \in Seq(MasterOf(Tasks)) /\ Len(Cancelled) = Len(masters)
           /\ \A m \in Tasks :
                /\ Cancelled[m].preset = masters[m].preset
                /\ Cancelled[m].owns = masters[m].owns
                /\ Cancelled[m].owed = masters[m].owed
                /\ Cancelled[m].alone = masters[m].alone
                /\ Cancelled[m].state = IF m = selected THEN "cancelled" ELSE masters[m].state
<1>1. masters \in [Tasks -> MasterOf(Tasks)] /\ Tasks = 1 .. Len(masters) /\ Len(masters) \in Nat
    BY Numbered
<1>2. ASSUME NEW t \in MasterOf(Tasks)
      PROVE  [t EXCEPT !.state = "cancelled"] \in MasterOf(Tasks)
    BY DEF MasterOf
<1>3. Cancelled \in [Tasks -> MasterOf(Tasks)]
    BY <1>1, <1>2 DEF Cancelled
<1>4. Cancelled \in Seq(MasterOf(Tasks)) /\ Len(Cancelled) = Len(masters)
    BY ONLY <1>1, <1>3
<1>5. ASSUME NEW m \in Tasks
      PROVE  /\ Cancelled[m].preset = masters[m].preset
             /\ Cancelled[m].owns = masters[m].owns
             /\ Cancelled[m].owed = masters[m].owed
             /\ Cancelled[m].alone = masters[m].alone
             /\ Cancelled[m].state = IF m = selected THEN "cancelled" ELSE masters[m].state
    <2>1. masters[m] \in MasterOf(Tasks)
        BY <1>1
    <2>2. Cancelled[m] = IF m = selected THEN [masters[m] EXCEPT !.state = "cancelled"]
                         ELSE masters[m]
        BY DEF Cancelled
    <2>. QED BY <2>1, <2>2 DEF MasterOf
<1>. QED BY <1>3, <1>4, <1>5

(* Switch: the tasks afterwards are the ones before, the selected one      *)
(* cancelled, and perhaps a new one.                                       *)
LEMMA SwitchMasters ==
    ASSUME TypeOK, Switch, Head(queue) # current
    PROVE  /\ masters' \in Seq(MasterOf(Tasks')) /\ Tasks \subseteq Tasks'
           /\ \A m \in Tasks : masters'[m] = Cancelled[m]
           /\ \/ current' = NoPreset /\ starting' = 0 /\ Tasks' = Tasks
              \/ /\ current' # NoPreset
                 /\ starting' = Len(masters) + 1 /\ Tasks' = Tasks \cup {starting'}
                 /\ starting' \notin Tasks /\ starting' # 0
                 /\ masters'[starting'] = Master(current')
<1>. DEFINE n == Len(masters)
<1>1. /\ Tasks = 1 .. n /\ n \in Nat
      /\ Cancelled \in Seq(MasterOf(Tasks)) /\ Len(Cancelled) = n
    BY Numbered, CancelledTyped
<1>2. current' \in Presets
    <2>1. queue \in Seq(Presets) /\ queue # <<>> /\ current' = Head(queue)
        BY DEF Switch, TypeOK
    <2>. QED BY <2>1, HeadTailProperties
<1>3. CASE current' = NoPreset
    <2>1. masters' = Cancelled /\ starting' = 0
        BY <1>3 DEF Switch
    <2>2. Tasks' = Tasks
        BY <1>1, <2>1, CancelledTyped DEF Tasks
    <2>. QED BY <1>1, <1>3, <2>1, <2>2
<1>4. CASE current' # NoPreset
    <2>. DEFINE new == Master(current')
    <2>1. masters' = Append(Cancelled, new) /\ starting' = Len(masters')
        BY <1>4 DEF Switch
    <2>2. new \in MasterOf(1 .. n + 1)
        BY <1>2, <1>4, FreshTyped
    <2>3. Cancelled \in Seq(MasterOf(1 .. n + 1))
        <3>1. MasterOf(Tasks) \subseteq MasterOf(1 .. n + 1)
            <4>1. {0} \cup Tasks \subseteq {0} \cup 1 .. n + 1
                BY <1>1
            <4>. QED BY <4>1 DEF MasterOf
        <3>2. Cancelled \in [1 .. n -> MasterOf(1 .. n + 1)]
            BY <1>1, <3>1, CancelledTyped
        <3>. QED BY <1>1, <3>2
    <2>. HIDE DEF new, n
    <2>4. /\ masters' \in Seq(MasterOf(1 .. n + 1)) /\ Len(masters') = n + 1
          /\ masters'[n + 1] = new
          /\ \A m \in 1 .. n : masters'[m] = Cancelled[m]
        BY <1>1, <2>1, <2>2, <2>3, AppendProperties
    <2>5. Tasks' = 1 .. n + 1
        BY <2>4, LenProperties DEF Tasks
    <2>6. Tasks' = Tasks \cup {n + 1} /\ n + 1 \notin Tasks /\ n + 1 # 0 /\ Tasks \subseteq Tasks'
        BY <1>1, <2>5
    <2>. QED BY <1>1, <1>4, <2>1, <2>4, <2>5, <2>6 DEF new, n
<1>. QED BY <1>3, <1>4

LEMMA SwitchTyped ==
    ASSUME TypeOK, Switch
    PROVE  TypeOK'
<1>1. queue \in Seq(Presets) /\ queue # <<>>
    BY DEF Switch, TypeOK
<1>2. queue' \in Seq(Presets) /\ Head(queue) \in Presets
    BY <1>1, HeadTailProperties DEF Switch
<1>3. CASE Head(queue) = current
    BY <1>2, <1>3
    DEF Switch, TypeOK, Tasks, requestVars, sharedVars
<1>4. CASE Head(queue) # current
    <2>1. current' = Head(queue) /\ selected' = 0 /\ overtaken' \in BOOLEAN
          /\ UNCHANGED <<beacons, up, plugged, registry, wish, spawned, excused, trigger,
                         listed, alert, watchdog, stats, budget>>
        BY <1>4 DEF Switch, requestVars, sharedVars
    <2>2. /\ masters' \in Seq(MasterOf(Tasks')) /\ Tasks \subseteq Tasks'
          /\ starting' \in {0} \cup Tasks'
        BY <1>4, SwitchMasters
    <2>3. /\ listed' \in [Ids -> {0} \cup Tasks'] /\ stats' \subseteq Tasks'
          /\ {selected', starting', watchdog'} \subseteq {0} \cup Tasks'
        BY <2>1, <2>2 DEF TypeOK
    <2>4. /\ beacons' \in BOOLEAN /\ up' \in BOOLEAN /\ plugged' \subseteq Ports
          /\ registry' \in [Ids -> 0 .. (MaxEvents + 1)] /\ current' \in Presets
          /\ wish' \in Ids \cup {None} /\ spawned' \in Seq(Presets)
          /\ trigger' \in BOOLEAN /\ alert' \in BOOLEAN /\ budget' \in 0 .. MaxEvents
          /\ excused' \in BOOLEAN /\ overtaken' \in BOOLEAN
        BY <1>2, <2>1 DEF TypeOK
    <2>. QED BY <1>2, <2>2, <2>3, <2>4 DEF TypeOK, MasterOf
<1>. QED BY <1>3, <1>4

(* The other steps change one master task each, and of it no more than     *)
(* they say.                                                               *)
LEMMA BeginMasters ==
    ASSUME TypeOK, Begin
    PROVE  /\ starting \in Tasks /\ masters[starting].state = "starting"
           /\ masters' \in [Tasks -> MasterOf(Tasks)]
           /\ \A t \in Tasks : t # starting => masters'[t] = masters[t]
           /\ masters'[starting].state = "running"
           /\ masters'[starting].preset = masters[starting].preset
           /\ masters'[starting].owns = (listed[masters[starting].preset.id] = 0)
           /\ masters'[starting].alone = (Unfinished = {})
           /\ masters'[starting].owed = masters[starting].owed
<1>1. starting \in Tasks /\ masters \in [Tasks -> MasterOf(Tasks)] /\ watchdog \in {0} \cup Tasks
    BY Numbered DEF TypeOK, Begin
<1>2. masters[starting] \in MasterOf(Tasks)
    BY <1>1
<1>3. masters' = [masters EXCEPT ![starting] =
        [masters[starting] EXCEPT !.state = "running",
            !.owns = (listed[masters[starting].preset.id] = 0),
            !.saved = watchdog, !.alone = (Unfinished = {})]]
    BY DEF Begin
<1>. DEFINE new == [masters[starting] EXCEPT !.state = "running",
                        !.owns = (listed[masters[starting].preset.id] = 0),
                        !.saved = watchdog, !.alone = (Unfinished = {})]
<1>4. /\ new \in MasterOf(Tasks) /\ new.state = "running"
      /\ new.preset = masters[starting].preset
      /\ new.owns = (listed[masters[starting].preset.id] = 0)
      /\ new.alone = (Unfinished = {})
      /\ new.owed = masters[starting].owed
    BY <1>1, <1>2 DEF MasterOf
<1>5. masters[starting].state = "starting"
    BY DEF Begin
<1>. HIDE DEF new
<1>6. masters' = [masters EXCEPT ![starting] = new]
    BY <1>3 DEF new
<1>. QED BY <1>1, <1>4, <1>5, <1>6

LEMMA EndMasters ==
    ASSUME TypeOK, NEW m \in Tasks, masters' = [masters EXCEPT ![m] = Ended(masters[m])]
    PROVE  /\ masters' \in [Tasks -> MasterOf(Tasks)]
           /\ \A t \in Tasks : t # m => masters'[t] = masters[t]
           /\ masters'[m].state = "ended" /\ masters'[m].preset = masters[m].preset
           /\ ~masters'[m].owed
<1>1. masters \in [Tasks -> MasterOf(Tasks)] /\ masters[m] \in MasterOf(Tasks)
    BY Numbered
<1>. QED BY <1>1, EndedTyped

(* A survey is requested, taken up, started or ended.                      *)
Survey(m) == TakeSurvey(m) \/ StartSurvey(m) \/ EndSurvey(m)

LEMMA SurveyMasters ==
    ASSUME TypeOK, NEW m \in Tasks, Survey(m)
    PROVE  /\ masters' \in [Tasks -> MasterOf(Tasks)]
           /\ \A t \in Tasks : t # m => masters'[t] = masters[t]
           /\ masters'[m].state = masters[m].state /\ masters'[m].preset = masters[m].preset
           /\ masters'[m].owns = masters[m].owns /\ masters'[m].alone = masters[m].alone
           /\ masters'[m].owed = (masters[m].owed /\ ~TakeSurvey(m))
<1>1. masters \in [Tasks -> MasterOf(Tasks)] /\ masters[m] \in MasterOf(Tasks)
    BY Numbered
<1>2. CASE TakeSurvey(m)
    BY <1>1, <1>2 DEF TakeSurvey, MasterOf
<1>3. CASE StartSurvey(m) /\ ~TakeSurvey(m)
    <2>. DEFINE supported == Supported(masters[m].preset)
                new == [masters[m] EXCEPT !.pausing = FALSE, !.surveying = supported]
    <2>1. masters' = [masters EXCEPT ![m] = new]
        BY <1>1, <1>3 DEF StartSurvey
    <2>2. supported \in BOOLEAN
        BY DEF Supported
    <2>. HIDE DEF supported
    <2>3. /\ new \in MasterOf(Tasks) /\ new.state = masters[m].state
          /\ new.preset = masters[m].preset /\ new.owns = masters[m].owns
          /\ new.alone = masters[m].alone /\ new.owed = masters[m].owed
        BY <1>1, <2>2 DEF MasterOf
    <2>. HIDE DEF new
    <2>4. masters[m].owed \in BOOLEAN
        BY <1>1 DEF MasterOf
    <2>. QED BY <1>1, <1>3, <2>1, <2>3, <2>4
<1>4. CASE EndSurvey(m) /\ ~TakeSurvey(m)
    BY <1>1, <1>4 DEF EndSurvey, MasterOf
<1>. QED BY <1>2, <1>3, <1>4 DEF Survey

LEMMA RequestSurveyMasters ==
    ASSUME TypeOK, RequestSurvey
    PROVE  /\ masters' \in [Tasks -> MasterOf(Tasks)]
           /\ \A m \in Tasks :
                /\ masters'[m].state = masters[m].state
                /\ masters'[m].preset = masters[m].preset
                /\ masters'[m].owns = masters[m].owns
                /\ masters'[m].alone = masters[m].alone
                /\ masters[m].state = "starting" => masters'[m].owed = masters[m].owed
<1>1. masters \in [Tasks -> MasterOf(Tasks)]
    BY Numbered
<1>2. ASSUME NEW t \in MasterOf(Tasks), NEW owes \in BOOLEAN
      PROVE  /\ [t EXCEPT !.owed = owes] \in MasterOf(Tasks)
             /\ [t EXCEPT !.owed = owes].state = t.state
             /\ [t EXCEPT !.owed = owes].preset = t.preset
             /\ [t EXCEPT !.owed = owes].owns = t.owns
             /\ [t EXCEPT !.owed = owes].alone = t.alone
             /\ [t EXCEPT !.owed = owes].owed = owes
    BY DEF MasterOf
<1>3. ASSUME NEW m \in Tasks
      PROVE  /\ masters[m] \in MasterOf(Tasks) /\ masters[m].owed \in BOOLEAN
             /\ (masters[m].owed \/ (masters[m].state = "running" /\ Supported(masters[m].preset)))
                  \in BOOLEAN
    BY <1>1 DEF MasterOf, Supported
<1>4. masters' = [m \in Tasks |-> [masters[m] EXCEPT
            !.owed = masters[m].owed \/ (masters[m].state = "running" /\ Supported(masters[m].preset))]]
    BY DEF RequestSurvey
<1>. HIDE DEF Supported
<1>5. masters' \in [Tasks -> MasterOf(Tasks)]
    BY <1>2, <1>3, <1>4
<1>6. ASSUME NEW m \in Tasks
      PROVE  /\ masters'[m].state = masters[m].state
             /\ masters'[m].preset = masters[m].preset
             /\ masters'[m].owns = masters[m].owns
             /\ masters'[m].alone = masters[m].alone
             /\ masters[m].state = "starting" => masters'[m].owed = masters[m].owed
    <2>. DEFINE owes == masters[m].owed
                          \/ (masters[m].state = "running" /\ Supported(masters[m].preset))
    <2>1. owes \in BOOLEAN /\ masters[m] \in MasterOf(Tasks)
        BY <1>3
    <2>2. masters'[m] = [masters[m] EXCEPT !.owed = owes]
        BY <1>4
    <2>3. masters[m].state = "starting" => owes = masters[m].owed
        BY <1>3
    <2>. HIDE DEF owes
    <2>. QED BY <1>2, <2>1, <2>2, <2>3
<1>. QED BY <1>5, <1>6

LEMMA TasksTyped ==
    ASSUME TypeOK,
           \/ Begin \/ Fail \/ Started \/ RequestSurvey
           \/ \E m \in Tasks : Packet(m) \/ Finish(m) \/ Survey(m)
    PROVE  TypeOK'
<1>. USE DEF taskVars, sharedVars, requestVars
<1>a. masters \in [Tasks -> MasterOf(Tasks)] /\ 0 \notin Tasks
    BY Numbered
<1>b. ASSUME masters' \in [Tasks -> MasterOf(Tasks)]
      PROVE  /\ Tasks' = Tasks
             /\ masters' \in Seq([preset : Presets \ {NoPreset},
                        state : {"starting", "running", "cancelled", "ended"},
                        owns : BOOLEAN, saved : {0} \cup Tasks',
                        alone : BOOLEAN, owed : BOOLEAN,
                        pausing : BOOLEAN, surveying : BOOLEAN])
    BY <1>b, Updated DEF MasterOf
<1>1. CASE Begin
    <2>1. masters' \in [Tasks -> MasterOf(Tasks)] /\ starting \in Tasks
        BY <1>1, BeginMasters
    <2>2. /\ listed' \in [Ids -> {0} \cup Tasks] /\ trigger' \in BOOLEAN /\ alert' = TRUE
          /\ watchdog' = starting /\ stats' = {}
          /\ UNCHANGED <<beacons, up, plugged, registry, current, selected, wish, spawned,
                         excused, queue, starting, budget, overtaken>>
        <3>. DEFINE i == masters[starting].preset.id
        <3>1. listed' = [listed EXCEPT ![i] = IF @ = 0 THEN starting ELSE @]
            BY <1>1 DEF Begin
        <3>2. listed \in [Ids -> {0} \cup Tasks]
            BY DEF TypeOK
        <3>. HIDE DEF i
        <3>3. listed' \in [Ids -> {0} \cup Tasks]
            BY <2>1, <3>1, <3>2
        <3>4. trigger' \in BOOLEAN
            BY <1>1 DEF Begin
        <3>. QED BY <1>1, <3>3, <3>4 DEF Begin
    <2>. QED BY <1>b, <2>1, <2>2 DEF TypeOK
<1>2. CASE Fail
    <2>1. starting \in Tasks /\ masters' = [masters EXCEPT ![starting] = Ended(masters[starting])]
        BY <1>2 DEF TypeOK, Fail
    <2>2. masters' \in [Tasks -> MasterOf(Tasks)]
        BY <2>1, EndMasters
    <2>3. /\ current' \in Presets /\ up' = FALSE /\ starting' = 0
          /\ UNCHANGED <<beacons, plugged, registry, selected, wish, spawned, excused, queue,
                         trigger, listed, alert, watchdog, stats, budget, overtaken>>
        BY <1>2, PresetFacts DEF Fail
    <2>. QED BY <1>b, <2>2, <2>3 DEF TypeOK
<1>3. CASE Started
    BY <1>3 DEF TypeOK, Started, Tasks
<1>4. CASE RequestSurvey
    <2>1. masters' \in [Tasks -> MasterOf(Tasks)] /\ budget' \in 0 .. MaxEvents
        BY <1>4, RequestSurveyMasters, SpendTyped DEF RequestSurvey
    <2>2. /\ trigger' = TRUE
          /\ UNCHANGED <<beacons, up, plugged, registry, current, selected, wish, spawned,
                         excused, queue, starting, listed, alert, watchdog, stats, overtaken>>
        BY <1>4 DEF RequestSurvey
    <2>. QED BY <1>b, <2>1, <2>2 DEF TypeOK
<1>5. ASSUME NEW m \in Tasks, Packet(m) PROVE TypeOK'
    <2>1. stats' \subseteq Tasks
        BY <1>5 DEF TypeOK, Packet, Unfinished
    <2>. QED BY <1>5, <2>1 DEF TypeOK, Packet, Tasks
<1>6. ASSUME NEW m \in Tasks, Finish(m) PROVE TypeOK'
    <2>1. masters' \in [Tasks -> MasterOf(Tasks)]
        BY <1>6, EndMasters DEF Finish
    <2>2. watchdog' \in {0} \cup Tasks
        BY <1>6, <1>a DEF Finish, MasterOf
    <2>3. /\ listed' \in [Ids -> {0} \cup Tasks] /\ alert' = FALSE /\ stats' = {}
          /\ UNCHANGED <<beacons, up, plugged, registry, current, selected, wish, spawned,
                         excused, queue, starting, trigger, budget, overtaken>>
        BY <1>6 DEF TypeOK, Finish, Unlisted
    <2>. QED BY <1>b, <2>1, <2>2, <2>3 DEF TypeOK
<1>7. ASSUME NEW m \in Tasks, Survey(m) PROVE TypeOK'
    <2>1. masters' \in [Tasks -> MasterOf(Tasks)]
        BY <1>7, SurveyMasters
    <2>2. /\ trigger' \in BOOLEAN /\ stats' \subseteq Tasks
          /\ UNCHANGED <<beacons, up, plugged, registry, current, selected, wish, spawned,
                         excused, queue, starting, listed, alert, watchdog, budget, overtaken>>
        BY <1>7 DEF TypeOK, Survey, TakeSurvey, StartSurvey, EndSurvey, surveyUnchanged
    <2>. QED BY <1>b, <2>1, <2>2 DEF TypeOK
<1>. QED BY <1>1, <1>2, <1>3, <1>4, <1>5, <1>6, <1>7

LEMMA StepTyped == TypeOK /\ [Next]_vars => TypeOK'
<1>. SUFFICES ASSUME TypeOK, [Next]_vars PROVE TypeOK'
    OBVIOUS
<1>1. CASE UNCHANGED vars
    BY <1>1 DEF vars, TypeOK, Tasks
<1>. QED
    BY <1>1, RequestsTyped, SwitchTyped, TasksTyped DEF Next, Survey

(* Types: among other things, the extension and its master tasks refer     *)
(* only to tasks that have been created, and queues hold only presets that *)
(* have been registered at some time.                                      *)
THEOREM TypeCorrect == Spec => []TypeOK
BY InitTyped, StepTyped, PTL DEF Spec

(***************************************************************************)
(* Requests.                                                               *)
(***************************************************************************)
(* A sequence without elements has no indices.                             *)
LEMMA NoIndices ==
    ASSUME NEW S, NEW s \in Seq(S)
    PROVE  /\ s = <<>> <=> Len(s) = 0
           /\ s = <<>> <=> DOMAIN s = {}
           /\ s # <<>> => Len(s) \in DOMAIN s
           /\ Len(s) \in Nat /\ DOMAIN s = 1 .. Len(s)
<1>1. Len(s) \in Nat /\ DOMAIN s = 1 .. Len(s)
    BY LenProperties
<1>2. s = <<>> <=> Len(s) = 0
    BY EmptySeq
<1>3. Len(s) # 0 => Len(s) \in 1 .. Len(s)
    BY ONLY <1>1
<1>4. Len(s) = 0 => 1 .. Len(s) = {}
    OBVIOUS
<1>. QED BY <1>1, <1>2, <1>3, <1>4

LEMMA TailIndices ==
    ASSUME NEW S, NEW s \in Seq(S), s # <<>>
    PROVE  /\ Tail(s) \in Seq(S) /\ Head(s) = s[1]
           /\ Tail(s) = <<>> => s[Len(s)] = Head(s)
           /\ Tail(s) # <<>> => Tail(s)[Len(Tail(s))] = s[Len(s)]
           /\ \A k \in DOMAIN s : k # 1 =>
                \E j \in DOMAIN Tail(s) : Tail(s)[j] = s[k]
<1>1. /\ Tail(s) \in Seq(S) /\ Len(Tail(s)) = Len(s) - 1
      /\ \A i \in 1 .. Len(Tail(s)) : Tail(s)[i] = s[i + 1]
    BY HeadTailProperties
<1>2. Len(s) \in Nat /\ DOMAIN s = 1 .. Len(s) /\ Len(s) # 0
    BY NoIndices
<1>3. Len(Tail(s)) \in Nat /\ DOMAIN Tail(s) = 1 .. Len(Tail(s)) /\ (Tail(s) = <<>> <=> Len(Tail(s)) = 0)
    BY <1>1, NoIndices
<1>4. Head(s) = s[1]
    OBVIOUS
<1>. DEFINE n == Len(s)
            tl == Tail(s)
            l == Len(tl)
<1>. HIDE DEF n, tl, l
<1>5. n \in Nat /\ n # 0 /\ l = n - 1 /\ l \in Nat
    BY <1>1, <1>2, <1>3 DEF n, tl, l
<1>6. \A i \in 1 .. l : tl[i] = s[i + 1]
    BY <1>1 DEF tl, l
<1>7. tl = <<>> => s[n] = s[1]
    <2>1. tl = <<>> => l = 0
        BY <1>3 DEF tl, l
    <2>. QED BY <1>5, <2>1
<1>8. tl # <<>> => tl[l] = s[n]
    <2>1. tl # <<>> => l # 0
        BY <1>3 DEF tl, l
    <2>. QED BY <1>5, <1>6, <2>1
<1>9. \A k \in 1 .. n : k # 1 => \E j \in 1 .. l : tl[j] = s[k]
    <2>. SUFFICES ASSUME NEW k \in 1 .. n, k # 1 PROVE \E j \in 1 .. l : tl[j] = s[k]
        OBVIOUS
    <2>1. k - 1 \in 1 .. l /\ (k - 1) + 1 = k
        BY <1>5
    <2>. QED BY <1>6, <2>1
<1>. QED BY <1>1, <1>2, <1>3, <1>4, <1>7, <1>8, <1>9 DEF n, tl, l

(* What a batch adds to the channel: the requests, in some order.          *)
LEMMA BatchAdds ==
    ASSUME TypeOK, Batch, up
    PROVE  /\ spawned # <<>> /\ spawned' = <<>> /\ DOMAIN spawned' = {}
           /\ queue' # <<>>
           /\ \E k \in DOMAIN spawned : queue'[Len(queue')] = spawned[k]
           /\ \A k \in DOMAIN spawned : \E j \in DOMAIN queue' : queue'[j] = spawned[k]
           /\ \A k \in DOMAIN queue : \E j \in DOMAIN queue' : queue'[j] = queue[k]
<1>1. /\ spawned \in Seq(Presets) /\ queue \in Seq(Presets) /\ spawned # <<>>
      /\ spawned' = <<>>
    BY DEF TypeOK, Batch
<1>2. PICK f \in Bijection(DOMAIN spawned, DOMAIN spawned) :
        queue' = queue \o [i \in DOMAIN spawned |-> spawned[f[i]]]
    BY DEF Batch
<1>. DEFINE b == [i \in DOMAIN spawned |-> spawned[f[i]]]
<1>4. queue' = queue \o b
    BY <1>2
<1>3a. b \in Seq(Presets) /\ DOMAIN b = DOMAIN spawned /\ Len(b) = Len(spawned)
    BY <1>1, BatchTyped
<1>3b. /\ f \in [DOMAIN spawned -> DOMAIN spawned]
       /\ \A k \in DOMAIN spawned : \E i \in DOMAIN spawned : f[i] = k
    BY DEF Bijection, Injection, Surjection
<1>3c. \A i \in DOMAIN spawned : b[i] = spawned[f[i]]
    OBVIOUS
<1>3. /\ b \in Seq(Presets) /\ DOMAIN b = DOMAIN spawned /\ Len(b) = Len(spawned)
      /\ \A i \in DOMAIN b : \E k \in DOMAIN spawned : b[i] = spawned[k]
      /\ \A k \in DOMAIN spawned : \E i \in DOMAIN b : b[i] = spawned[k]
    BY <1>3a, <1>3b, <1>3c
<1>. HIDE DEF b
<1>5. /\ queue' \in Seq(Presets) /\ Len(queue') = Len(queue) + Len(b)
      /\ \A i \in 1 .. Len(queue) + Len(b) : queue'[i] =
            IF i <= Len(queue) THEN queue[i] ELSE b[i - Len(queue)]
    <2>1. /\ queue \o b \in Seq(Presets) /\ Len(queue \o b) = Len(queue) + Len(b)
          /\ \A i \in 1 .. Len(queue) + Len(b) : (queue \o b)[i] =
                IF i <= Len(queue) THEN queue[i] ELSE b[i - Len(queue)]
        BY <1>1, <1>3, ConcatProperties, Zenon
    <2>. QED BY <1>4, <2>1, Zenon
<1>6. /\ Len(queue) \in Nat /\ DOMAIN queue = 1 .. Len(queue)
      /\ Len(b) \in Nat /\ Len(b) # 0 /\ DOMAIN b = 1 .. Len(b)
      /\ DOMAIN queue' = 1 .. Len(queue') /\ (queue' = <<>> <=> Len(queue') = 0)
    BY <1>1, <1>3, <1>5, NoIndices
<1>. DEFINE q == Len(queue)
            n == Len(b)
<1>. HIDE DEF q, n
<1>7. q \in Nat /\ n \in Nat /\ n # 0
    BY <1>6 DEF q, n
<1>8. /\ Len(queue') = q + n /\ DOMAIN queue' = 1 .. q + n
      /\ DOMAIN b = 1 .. n /\ DOMAIN queue = 1 .. q
      /\ \A i \in 1 .. q + n : queue'[i] = IF i <= q THEN queue[i] ELSE b[i - q]
    BY <1>5, <1>6 DEF q, n
<1>9. \A i \in 1 .. n : q + i \in 1 .. q + n /\ queue'[q + i] = b[i]
    BY <1>7, <1>8
<1>10. \A i \in 1 .. q : i \in 1 .. q + n /\ queue'[i] = queue[i]
    BY <1>7, <1>8
<1>11. n \in 1 .. n /\ q + n # 0
    BY <1>7
<1>12. \E k \in DOMAIN spawned : queue'[Len(queue')] = spawned[k]
    BY <1>3, <1>8, <1>9, <1>11
<1>13. \A k \in DOMAIN spawned : \E j \in DOMAIN queue' : queue'[j] = spawned[k]
    BY <1>3, <1>8, <1>9
<1>14. \A k \in DOMAIN queue : \E j \in DOMAIN queue' : queue'[j] = queue[k]
    BY <1>8, <1>10
<1>15. queue' # <<>>
    BY <1>6, <1>8, <1>11
<1>. QED BY <1>1, <1>12, <1>13, <1>14, <1>15, NoIndices

LEMMA InitPending == Init => WishPending /\ GivingUpPending
BY DEF Init, WishPending, GivingUpPending

LEMMA WishKept ==
    ASSUME TypeOK, WishPending, [Next]_vars
    PROVE  WishPending'
<1>. USE DEF requestVars
<1>. SUFFICES ASSUME up', wish' # None, ~excused'
              PROVE  /\ \A k \in DOMAIN spawned' : spawned'[k].id = wish'
                     /\ spawned' = <<>> /\ queue' # <<>> => queue'[Len(queue')].id = wish'
                     /\ spawned' = <<>> /\ queue' = <<>> => current'.id = wish'
    BY DEF WishPending
<1>0. spawned \in Seq(Presets) /\ queue \in Seq(Presets)
    BY DEF TypeOK
<1>1. ASSUME NEW p \in {NoPreset} \cup {Found(i) : i \in Ids}, Choose(p)
      PROVE  WishPending'
    <2>1. p \in Presets
        BY FoundTyped, PresetFacts
    <2>2. Later(p) /\ wish' = p.id /\ spawned = <<>>
        BY <1>1 DEF Choose, Wished
    <2>3. /\ spawned' # <<>> /\ DOMAIN spawned' = {Len(spawned) + 1}
          /\ spawned'[Len(spawned) + 1] = p
        <3>1. Len(spawned) = 0
            BY <1>0, <2>2, NoIndices
        <3>2. 1 .. 0 + 1 = {0 + 1}
            OBVIOUS
        <3>. QED BY <2>1, <2>2, <3>1, <3>2, LaterTyped
    <2>. QED BY <2>2, <2>3 DEF WishPending
<1>2. CASE ForgetWish
    BY <1>2 DEF ForgetWish
<1>3. ASSUME UNCHANGED <<up, wish, spawned, excused, queue, current>>
      PROVE  WishPending'
    BY <1>3 DEF WishPending
<1>4. CASE HotplugEvent
    <2>1. UNCHANGED <<up, wish, queue, current>>
        BY <1>4 DEF HotplugEvent
    <2>2. CASE UNCHANGED <<spawned, excused>>
        BY <1>3, <2>1, <2>2 DEF WishPending
    <2>3. CASE excused' = TRUE
        BY <2>3
    <2>4. CASE UNCHANGED spawned /\ excused' = (excused \/ wish # None)
        BY <2>1, <2>4
    <2>5. CASE /\ wish # None /\ registry'[wish] # 0
               /\ Later(Preset(wish, registry'[wish])) /\ UNCHANGED excused
        <3>. DEFINE p == Preset(wish, registry'[wish])
                    n == Len(spawned)
        <3>1. p.id = wish
            BY DEF Preset
        <3>2. p \in Presets
            <4>1. wish \in Ids /\ registry' \in [Ids -> 0 .. (MaxEvents + 1)]
                BY <1>4, <2>5, RequestsTyped DEF TypeOK
            <4>2. registry'[wish] \in 1 .. (MaxEvents + 1)
                BY <2>5, <4>1, PresetsAssumption
            <4>. QED BY <4>1, <4>2, PresetFacts
        <3>3. Later(p)
            BY <2>5
        <3>4. \A k \in DOMAIN spawned : spawned[k].id = wish
            BY <2>1, <2>5 DEF WishPending
        <3>. HIDE DEF p, n
        <3>5. /\ spawned' # <<>> /\ n \in Nat
              /\ DOMAIN spawned' = 1 .. n + 1 /\ DOMAIN spawned = 1 .. n
              /\ spawned'[n + 1] = p
              /\ \A k \in DOMAIN spawned : spawned'[k] = spawned[k]
            BY <3>2, <3>3, LaterTyped DEF n
        <3>6. \A k \in 1 .. n + 1 : k \in 1 .. n \/ k = n + 1
            BY <3>5
        <3>7. \A k \in DOMAIN spawned' : spawned'[k].id = wish
            BY <3>1, <3>4, <3>5, <3>6
        <3>. QED BY <2>1, <3>5, <3>7
    <2>6. \/ excused' = TRUE
          \/ UNCHANGED <<spawned, excused>>
          \/ /\ wish # None /\ registry'[wish] # 0
             /\ Later(Preset(wish, registry'[wish])) /\ UNCHANGED excused
          \/ UNCHANGED spawned /\ excused' = (excused \/ wish # None)
        BY <1>4 DEF HotplugEvent
    <2>. QED BY <2>2, <2>3, <2>4, <2>5, <2>6 DEF WishPending
<1>5. CASE Batch
    <2>1. UNCHANGED <<up, wish, excused, current>>
        BY <1>5 DEF Batch
    <2>2. /\ DOMAIN spawned' = {} /\ queue' # <<>>
          /\ \E k \in DOMAIN spawned : queue'[Len(queue')] = spawned[k]
        BY <1>5, <2>1, BatchAdds
    <2>3. \A k \in DOMAIN spawned : spawned[k].id = wish
        BY <2>1 DEF WishPending
    <2>. QED BY <2>1, <2>2, <2>3
<1>6. CASE Switch
    <2>1. /\ UNCHANGED <<up, wish, spawned, excused>>
          /\ queue # <<>> /\ queue' = Tail(queue) /\ current' = Head(queue)
        BY <1>6 DEF Switch
    <2>2. /\ \A k \in DOMAIN spawned : spawned[k].id = wish
          /\ spawned = <<>> => queue[Len(queue)].id = wish
        BY <2>1 DEF WishPending
    <2>3. /\ queue' = <<>> => queue[Len(queue)] = Head(queue)
          /\ queue' # <<>> => queue'[Len(queue')] = queue[Len(queue)]
        BY <1>0, <2>1, TailIndices
    <2>. QED BY <2>1, <2>2, <2>3
<1>7. ASSUME NEW p \in Ports, ChangePort(p) PROVE WishPending'
    BY <1>3, <1>7 DEF ChangePort
<1>8. CASE Begin \/ Started \/ RequestSurvey
    BY <1>3, <1>8 DEF Begin, Started, RequestSurvey, WishPending
<1>9. CASE Fail
    BY <1>9 DEF Fail
<1>10. ASSUME NEW m \in Tasks, Packet(m) \/ Finish(m) \/ Survey(m) PROVE WishPending'
    BY <1>3, <1>10
    DEF Packet, Finish, Survey, TakeSurvey, StartSurvey, EndSurvey, surveyUnchanged
<1>11. CASE UNCHANGED vars
    BY <1>3, <1>11 DEF vars, WishPending
<1>. QED
    BY <1>1, <1>2, <1>4, <1>5, <1>6, <1>7, <1>8, <1>9, <1>10, <1>11
    DEF Next, Survey, WishPending

LEMMA GivingUpKept ==
    ASSUME TypeOK, GivingUpPending, [Next]_vars
    PROVE  GivingUpPending'
<1>. USE DEF requestVars
<1>0. spawned \in Seq(Presets) /\ queue \in Seq(Presets)
    BY DEF TypeOK
<1>. DEFINE Waits == \/ \E k \in DOMAIN spawned : spawned[k] = NoPreset
                     \/ \E k \in DOMAIN queue : queue[k] = NoPreset
<1>a. ASSUME NEW p \in Presets, Later(p), UNCHANGED queue, Waits PROVE Waits'
    <2>1. /\ DOMAIN spawned' = 1 .. Len(spawned) + 1 /\ DOMAIN spawned = 1 .. Len(spawned)
          /\ Len(spawned) \in Nat
          /\ \A k \in DOMAIN spawned : spawned'[k] = spawned[k]
        BY <1>a, LaterTyped
    <2>2. DOMAIN spawned \subseteq DOMAIN spawned'
        BY ONLY <2>1
    <2>. QED BY <1>a, <2>1, <2>2
<1>b. ASSUME Later(NoPreset) PROVE Waits'
    <2>1. /\ DOMAIN spawned' = 1 .. Len(spawned) + 1 /\ Len(spawned) \in Nat
          /\ spawned'[Len(spawned) + 1] = NoPreset
        BY <1>b, LaterTyped, PresetFacts
    <2>2. Len(spawned) + 1 \in DOMAIN spawned'
        BY ONLY <2>1
    <2>. QED BY <2>1, <2>2
<1>1. ASSUME NEW p \in {NoPreset} \cup {Found(i) : i \in Ids}, Choose(p)
      PROVE  GivingUpPending'
    <2>1. p \in Presets
        BY FoundTyped, PresetFacts
    <2>2. Later(p) /\ UNCHANGED <<up, queue, current, registry, overtaken>>
        BY <1>1 DEF Choose
    <2>. HIDE DEF Waits
    <2>3. Waits => Waits'
        BY <1>a, <2>1, <2>2
    <2>. QED BY <2>2, <2>3 DEF GivingUpPending, Waits
<1>2. ASSUME UNCHANGED <<up, current, registry, overtaken, spawned, queue>>
      PROVE  GivingUpPending'
    BY <1>2 DEF GivingUpPending
<1>3. CASE ForgetWish
    BY <1>2, <1>3 DEF ForgetWish
<1>4. CASE HotplugEvent
    <2>1. UNCHANGED <<up, queue, current, overtaken>>
        BY <1>4 DEF HotplugEvent
    <2>2. CASE current # NoPreset /\ registry'[current.id] = 0
        <3>1. Later(NoPreset)
            BY <1>4, <2>2 DEF HotplugEvent
        <3>. QED BY <1>b, <3>1 DEF GivingUpPending
    <2>3. CASE ~(current # NoPreset /\ registry'[current.id] = 0)
        BY <2>1, <2>3 DEF GivingUpPending
    <2>. QED BY <2>2, <2>3
<1>5. CASE Batch
    <2>1. UNCHANGED <<up, current, registry, overtaken>>
        BY <1>5 DEF Batch
    <2>2. up => (Waits => Waits')
        BY <1>5, BatchAdds
    <2>. HIDE DEF Waits
    <2>. QED BY <2>1, <2>2 DEF GivingUpPending, Waits
<1>6. CASE Switch
    <2>1. /\ UNCHANGED <<up, registry, spawned>>
          /\ queue # <<>> /\ queue' = Tail(queue)
        BY <1>6 DEF Switch
    <2>2. CASE Head(queue) = current
        <3>1. UNCHANGED <<current, overtaken>>
            BY <1>6, <2>2 DEF Switch
        <3>2. current # NoPreset /\ Waits => Waits'
            <4>1. ASSUME NEW k \in DOMAIN queue, queue[k] = NoPreset, current # NoPreset
                  PROVE  \E j \in DOMAIN queue' : queue'[j] = NoPreset
                <5>1. queue[1] = current
                    BY <1>0, <2>1, <2>2, TailIndices
                <5>2. k # 1
                    BY <4>1, <5>1
                <5>3. \E j \in DOMAIN Tail(queue) : Tail(queue)[j] = queue[k]
                    BY <1>0, <2>1, <5>2, TailIndices
                <5>. QED BY <2>1, <4>1, <5>3
            <4>. QED BY <2>1, <4>1
        <3>. HIDE DEF Waits
        <3>. QED BY <2>1, <3>1, <3>2 DEF GivingUpPending, Waits
    <2>3. CASE Head(queue) # current
        <3>1. current' # NoPreset => overtaken' = (registry[current'.id] = 0)
            BY <1>6, <2>3 DEF Switch
        <3>. QED BY <2>1, <3>1 DEF GivingUpPending
    <2>. QED BY <2>2, <2>3
<1>7. ASSUME NEW p \in Ports, ChangePort(p) PROVE GivingUpPending'
    BY <1>2, <1>7 DEF ChangePort
<1>8. CASE Begin \/ Started \/ RequestSurvey
    BY <1>2, <1>8 DEF Begin, Started, RequestSurvey
<1>9. CASE Fail
    BY <1>9 DEF Fail, GivingUpPending
<1>10. ASSUME NEW m \in Tasks, Packet(m) \/ Finish(m) \/ Survey(m) PROVE GivingUpPending'
    BY <1>2, <1>10
    DEF Packet, Finish, Survey, TakeSurvey, StartSurvey, EndSurvey, surveyUnchanged
<1>11. CASE UNCHANGED vars
    BY <1>2, <1>11 DEF vars
<1>. QED
    BY <1>1, <1>3, <1>4, <1>5, <1>6, <1>7, <1>8, <1>9, <1>10, <1>11 DEF Next, Survey

(* RequestsSettle: when all requests are served, the choice of the user    *)
(* stands and a preset whose device is gone is not current, with the       *)
(* exceptions that the property names.                                     *)
THEOREM RequestsDoSettle == Spec => []RequestsSettle
<1>1. Init => TypeOK /\ WishPending /\ GivingUpPending
    BY InitTyped, InitPending
<1>2. TypeOK /\ WishPending /\ GivingUpPending /\ [Next]_vars
        => (TypeOK /\ WishPending /\ GivingUpPending)'
    BY StepTyped, WishKept, GivingUpKept
<1>3. TypeOK /\ WishPending /\ GivingUpPending => RequestsSettle
    <2>. SUFFICES ASSUME TypeOK, WishPending, GivingUpPending,
                         up, spawned = <<>>, queue = <<>>
                  PROVE  /\ wish # None /\ ~excused => current.id = wish
                         /\ current # NoPreset /\ registry[current.id] = 0 => overtaken
        BY DEF RequestsSettle
    <2>1. DOMAIN spawned = {} /\ DOMAIN queue = {}
        BY NoIndices DEF TypeOK
    <2>. QED BY <2>1 DEF WishPending, GivingUpPending, TypeOK
<1>. QED BY <1>1, <1>2, <1>3, PTL DEF Spec

(***************************************************************************)
(* Master tasks.                                                           *)
(***************************************************************************)
TaskInv ==
    /\ OneTask /\ EndsForGood /\ ListedByOwner /\ AloneIsAlone /\ NothingOwedYet
    /\ SharedIsRight /\ SurveyIsKept

LEMMA InitTasks == Init => TaskInv
<1>. SUFFICES ASSUME Init PROVE TaskInv
    OBVIOUS
<1>1. Tasks = {}
    BY DEF Init, Tasks
<1>2. Live = {} /\ Unfinished = {}
    BY <1>1 DEF Live, Unfinished
<1>. QED
    BY <1>1, <1>2 DEF Init, TaskInv, OneTask, EndsForGood, ListedByOwner, AloneIsAlone,
       NothingOwedYet, SharedIsRight, SurveyIsKept

(* No more than one master task is running: if run() waits for one, no     *)
(* other one is, and if it does not, it is the one that is selected.       *)
LEMMA OneRuns ==
    ASSUME TypeOK, TaskInv, NEW m \in Tasks, masters[m].state = "running"
    PROVE  /\ up /\ beacons
           /\ starting # 0 => m = starting
           /\ starting = 0 => m = selected
           /\ \A t \in Tasks : masters[t].state \in {"starting", "running"} => t = m
<1>1. m \in Live
    BY DEF Live
<1>2. up /\ beacons
    BY DEF TaskInv, EndsForGood
<1>3. \/ Live = {starting} /\ starting # 0
      \/ Live = {selected} /\ starting = 0
    <2>1. Live # {}
        BY <1>1
    <2>. QED BY <1>2, <2>1 DEF TaskInv, OneTask
<1>4. \A t \in Tasks : masters[t].state \in {"starting", "running"} => t \in Live
    BY DEF Live
<1>. QED BY <1>1, <1>2, <1>3, <1>4

(* A step that does not touch what the tasks share nor begin, cancel or    *)
(* end one.                                                                *)
LEMMA SameTasks ==
    ASSUME TypeOK, TaskInv, Tasks' = Tasks,
           \A m \in Tasks :
              /\ masters'[m].state = masters[m].state
              /\ masters'[m].preset = masters[m].preset
              /\ masters'[m].owns = masters[m].owns
              /\ masters'[m].alone = masters[m].alone
              /\ masters[m].state = "starting" /\ ~masters[m].owed => ~masters'[m].owed,
           UNCHANGED <<beacons, up, current, selected, starting, listed, alert, watchdog>>,
           stats' \subseteq Unfinished, SurveyIsKept'
    PROVE  TaskInv'
<1>1. Live' = Live /\ Unfinished' = Unfinished
    BY DEF Live, Unfinished
<1>0. Unfinished \subseteq Tasks /\ {starting, selected} \subseteq {0} \cup Tasks
    BY DEF Unfinished, TypeOK
<1>2. OneTask'
    BY <1>0, <1>1 DEF TaskInv, OneTask
<1>3. EndsForGood'
    BY DEF TaskInv, EndsForGood
<1>4. ListedByOwner'
    BY <1>0, <1>1 DEF TaskInv, ListedByOwner
<1>5. AloneIsAlone' /\ NothingOwedYet'
    BY <1>1 DEF TaskInv, AloneIsAlone, NothingOwedYet
<1>6. SharedIsRight'
    BY <1>1 DEF TaskInv, SharedIsRight
<1>. QED BY <1>2, <1>3, <1>4, <1>5, <1>6 DEF TaskInv

LEMMA RequestsKeepTasks ==
    ASSUME TypeOK, TaskInv,
           UNCHANGED <<beacons, up, current, selected, starting, masters, trigger, listed,
                       alert, watchdog, stats>>
    PROVE  TaskInv'
<1>1. Tasks' = Tasks
    BY DEF Tasks
<1>2. SurveyIsKept' /\ stats' \subseteq Unfinished
    BY <1>1 DEF TaskInv, SurveyIsKept, SharedIsRight
<1>. QED BY <1>1, <1>2, SameTasks

LEMMA SurveysKeepTasks ==
    ASSUME TypeOK, TaskInv, NEW m \in Tasks, Survey(m)
    PROVE  TaskInv'
<1>1. /\ masters' \in [Tasks -> MasterOf(Tasks)] /\ Tasks' = Tasks
      /\ \A t \in Tasks : t # m => masters'[t] = masters[t]
      /\ masters'[m].state = masters[m].state /\ masters'[m].preset = masters[m].preset
      /\ masters'[m].owns = masters[m].owns /\ masters'[m].alone = masters[m].alone
      /\ masters'[m].owed = (masters[m].owed /\ ~TakeSurvey(m))
    BY SurveyMasters, Updated
<1>2. /\ masters[m].state = "running"
      /\ UNCHANGED <<beacons, up, current, selected, starting, listed, alert, watchdog>>
      /\ trigger' = trigger \/ TakeSurvey(m)
      /\ stats' \subseteq stats \cup {m}
    BY DEF Survey, TakeSurvey, StartSurvey, EndSurvey, surveyUnchanged
<1>3. stats' \subseteq Unfinished
    BY <1>2 DEF TaskInv, SharedIsRight, Unfinished
<1>4. SurveyIsKept'
    <2>. SUFFICES ASSUME NEW t \in Tasks, masters'[t].state = "running", masters'[t].owed
                  PROVE  trigger'
        BY <1>1 DEF SurveyIsKept
    <2>1. masters[t].state = "running"
        BY <1>1
    <2>2. t = m
        BY <1>2, <2>1, OneRuns
    <2>3. masters[m].owed /\ ~TakeSurvey(m)
        BY <1>1, <2>2
    <2>. QED BY <1>2, <2>3 DEF TaskInv, SurveyIsKept
<1>. QED BY <1>1, <1>2, <1>3, <1>4, SameTasks

LEMMA RequestSurveyKeepsTasks ==
    ASSUME TypeOK, TaskInv, RequestSurvey
    PROVE  TaskInv'
<1>1. /\ Tasks' = Tasks
      /\ \A m \in Tasks :
           /\ masters'[m].state = masters[m].state
           /\ masters'[m].preset = masters[m].preset
           /\ masters'[m].owns = masters[m].owns
           /\ masters'[m].alone = masters[m].alone
           /\ masters[m].state = "starting" => masters'[m].owed = masters[m].owed
    BY RequestSurveyMasters, Updated
<1>2. /\ UNCHANGED <<beacons, up, current, selected, starting, listed, alert, watchdog, stats>>
      /\ trigger' = TRUE
    BY DEF RequestSurvey, sharedVars
<1>3. stats' \subseteq Unfinished /\ SurveyIsKept'
    BY <1>2 DEF TaskInv, SharedIsRight, SurveyIsKept
<1>. QED BY <1>1, <1>2, <1>3, SameTasks

LEMMA PacketKeepsTasks ==
    ASSUME TypeOK, TaskInv, NEW m \in Tasks, Packet(m)
    PROVE  TaskInv'
<1>1. Tasks' = Tasks /\ stats' \subseteq Unfinished
    BY DEF TaskInv, SharedIsRight, Packet, Tasks, taskVars
<1>2. UNCHANGED <<beacons, up, current, selected, starting, masters, trigger, listed, alert,
                  watchdog>>
    BY DEF Packet, taskVars
<1>3. SurveyIsKept'
    BY <1>1, <1>2 DEF TaskInv, SurveyIsKept
<1>. QED BY <1>1, <1>2, <1>3, SameTasks

LEMMA SwitchKeepsTasks ==
    ASSUME TypeOK, TaskInv, Switch
    PROVE  TaskInv'
<1>0. /\ up /\ starting = 0
      /\ UNCHANGED <<beacons, up, trigger, listed, alert, watchdog, stats>>
    BY DEF Switch, sharedVars
<1>1. CASE Head(queue) = current
    <2>1. UNCHANGED <<current, selected, starting, masters>>
        BY <1>1 DEF Switch
    <2>. QED BY <1>0, <2>1, RequestsKeepTasks
<1>2. CASE Head(queue) # current
    <2>1. selected' = 0
        BY <1>2 DEF Switch
    <2>2. /\ Tasks \subseteq Tasks'
          /\ \A m \in Tasks : masters'[m] = Cancelled[m]
          /\ \/ current' = NoPreset /\ starting' = 0 /\ Tasks' = Tasks
             \/ /\ current' # NoPreset
                /\ Tasks' = Tasks \cup {starting'} /\ starting' \notin Tasks /\ starting' # 0
                /\ masters'[starting'] = Master(current')
        BY <1>2, SwitchMasters
    <2>3. 0 \notin Tasks
        BY Numbered
    <2>4. \A m \in Tasks :
             /\ masters'[m].preset = masters[m].preset
             /\ masters'[m].owns = masters[m].owns
             /\ masters'[m].state = IF m = selected THEN "cancelled" ELSE masters[m].state
        BY <2>2, CancelledTyped
    <2>5. \A m \in Tasks : masters[m].state \in {"starting", "running"} => m = selected
        <3>1. \A m \in Tasks : masters[m].state \in {"starting", "running"} => m \in Live
            BY DEF Live
        <3>. QED BY <1>0, <3>1 DEF TaskInv, OneTask
    <2>6. selected \in Tasks => masters[selected].state = "running"
        BY <1>0, <2>3 DEF TaskInv, OneTask
    <2>7. starting' \in Tasks' =>
             /\ starting' \notin Tasks /\ starting' # 0
             /\ masters'[starting'].state = "starting" /\ ~masters'[starting'].owed
             /\ masters'[starting'].preset = current'
        BY <2>2, <2>3 DEF Master
    <2>8. \A m \in Tasks' : m \in Tasks \/ m = starting'
        BY <2>2
    <2>9. \A m \in Tasks' : masters'[m].state \in {"starting", "running"} => m = starting'
        BY <2>4, <2>5, <2>8
    <2>10. Live' = IF current' = NoPreset THEN {} ELSE {starting'}
        BY <2>2, <2>7, <2>9, <2>3 DEF Live
    <2>11. Unfinished' = Unfinished
        BY <2>2, <2>4, <2>5, <2>6, <2>7, <2>8 DEF Unfinished
    <2>12. \A m \in Tasks' : masters'[m].state # "running"
        BY <2>7, <2>9
    <2>13. OneTask'
        BY <2>1, <2>2, <2>7, <2>10 DEF OneTask
    <2>14. EndsForGood'
        <3>1. ~beacons => \A m \in Tasks : masters[m].state \in {"starting", "ended"} /\ m # selected
            BY <2>3 DEF TaskInv, EndsForGood
        <3>. QED BY <1>0, <2>1, <2>4, <2>7, <2>8, <3>1 DEF EndsForGood
    <2>15. ListedByOwner'
        <3>1. Unfinished \subseteq Tasks
            BY DEF Unfinished
        <3>. QED BY <1>0, <2>4, <2>11, <3>1 DEF TaskInv, ListedByOwner
    <2>16. AloneIsAlone' /\ SurveyIsKept'
        BY <2>12 DEF AloneIsAlone, SurveyIsKept
    <2>17. NothingOwedYet'
        BY <2>7, <2>9 DEF NothingOwedYet
    <2>18. SharedIsRight'
        BY <1>0, <2>11, <2>12 DEF TaskInv, SharedIsRight
    <2>. QED BY <2>13, <2>14, <2>15, <2>16, <2>17, <2>18 DEF TaskInv
<1>. QED BY <1>1, <1>2

LEMMA BeginKeepsTasks ==
    ASSUME TypeOK, TaskInv, Begin
    PROVE  TaskInv'
<1>. DEFINE i == masters[starting].preset.id
<1>1. /\ starting \in Tasks /\ masters[starting].state = "starting"
      /\ masters' \in [Tasks -> MasterOf(Tasks)]
      /\ \A t \in Tasks : t # starting => masters'[t] = masters[t]
      /\ masters'[starting].state = "running"
      /\ masters'[starting].preset = masters[starting].preset
      /\ masters'[starting].owns = (listed[i] = 0)
      /\ masters'[starting].alone = (Unfinished = {})
      /\ masters'[starting].owed = masters[starting].owed
    BY BeginMasters
<1>2. /\ beacons /\ starting # 0 /\ alert' = TRUE /\ watchdog' = starting /\ stats' = {}
      /\ listed' = [listed EXCEPT ![i] = IF @ = 0 THEN starting ELSE @]
      /\ UNCHANGED <<beacons, up, current, selected, starting>>
    BY DEF Begin
<1>3. Tasks' = Tasks /\ 0 \notin Tasks
    BY <1>1, Updated, Numbered
<1>4. i \in Ids /\ listed \in [Ids -> {0} \cup Tasks]
    <2>1. masters[starting] \in MasterOf(Tasks)
        BY <1>1, Numbered
    <2>. QED BY <2>1, PresetFacts DEF TypeOK, MasterOf
<1>. HIDE DEF i
<1>5. /\ up /\ selected = 0 /\ current # NoPreset
      /\ Live = {starting} /\ masters[starting].preset = current
    BY <1>2 DEF TaskInv, OneTask, EndsForGood
<1>6. \A t \in Tasks : masters[t].state \in {"starting", "running"} => t = starting
    <2>1. \A t \in Tasks : masters[t].state \in {"starting", "running"} => t \in Live
        BY DEF Live
    <2>. QED BY <1>5, <2>1
<1>7. \A t \in Tasks : masters'[t].state \in {"starting", "running"} => t = starting
    BY <1>1, <1>6
<1>8. Live' = {starting}
    BY <1>1, <1>3, <1>7 DEF Live
<1>9. Unfinished' = Unfinished \cup {starting} /\ starting \notin Unfinished
      /\ Unfinished \subseteq Tasks
    BY <1>1, <1>3 DEF Unfinished
<1>10. OneTask'
    BY <1>1, <1>2, <1>5, <1>8 DEF OneTask
<1>11. EndsForGood'
    BY <1>2, <1>5 DEF EndsForGood
<1>12. /\ \A j \in Ids : j # i => listed'[j] = listed[j]
       /\ listed'[i] = IF listed[i] = 0 THEN starting ELSE listed[i]
    BY <1>2, <1>4
<1>13. ListedByOwner'
    <2>1. ASSUME NEW j \in Ids, listed'[j] # 0
          PROVE  /\ listed'[j] \in Unfinished' /\ masters'[listed'[j]].owns
                 /\ masters'[listed'[j]].preset.id = j
        <3>1. CASE j = i /\ listed[i] = 0
            BY <1>1, <1>9, <1>12, <3>1 DEF i
        <3>2. CASE listed'[j] = listed[j] /\ listed[j] # 0
            <4>1. /\ listed[j] \in Unfinished /\ masters[listed[j]].owns
                  /\ masters[listed[j]].preset.id = j
                BY <3>2 DEF TaskInv, ListedByOwner
            <4>2. masters'[listed[j]] = masters[listed[j]]
                BY <1>1, <1>9, <4>1
            <4>. QED BY <1>9, <3>2, <4>1, <4>2
        <3>. QED BY <1>12, <2>1, <3>1, <3>2
    <2>2. ASSUME NEW t \in Unfinished', masters'[t].owns
          PROVE  listed'[masters'[t].preset.id] = t
        <3>1. CASE t = starting
            BY <1>1, <1>12, <2>2, <3>1 DEF i
        <3>2. CASE t # starting
            <4>1. t \in Unfinished /\ masters'[t] = masters[t] /\ t # 0
                BY <1>1, <1>3, <1>9, <3>2
            <4>2. listed[masters[t].preset.id] = t
                BY <2>2, <4>1 DEF TaskInv, ListedByOwner
            <4>3. masters[t].preset.id \in Ids
                <5>1. masters[t] \in MasterOf(Tasks)
                    BY <1>9, <4>1, Numbered
                <5>. QED BY <5>1, PresetFacts DEF MasterOf
            <4>. QED BY <1>12, <4>1, <4>2, <4>3
        <3>. QED BY <3>1, <3>2
    <2>. QED BY <2>1, <2>2 DEF ListedByOwner
<1>14. AloneIsAlone'
    <2>. SUFFICES ASSUME NEW t \in Tasks, masters'[t].state = "running", masters'[t].alone
                  PROVE  Unfinished' = {t}
        BY <1>3 DEF AloneIsAlone
    <2>. QED BY <1>1, <1>7, <1>9
<1>15. NothingOwedYet'
    BY <1>1, <1>3, <1>7 DEF NothingOwedYet
<1>16. SharedIsRight'
    <2>. SUFFICES ASSUME NEW t \in Tasks, masters'[t].state = "running", masters'[t].alone
                  PROVE  listed'[masters'[t].preset.id] = t /\ alert' /\ watchdog' = t
        BY <1>2, <1>3 DEF SharedIsRight
    <2>1. t = starting /\ Unfinished = {}
        BY <1>1, <1>7
    <2>2. listed[i] = 0
        BY <1>4, <2>1 DEF TaskInv, ListedByOwner
    <2>. QED BY <1>1, <1>2, <1>12, <2>1, <2>2 DEF i
<1>17. SurveyIsKept'
    BY <1>1, <1>3, <1>7 DEF TaskInv, NothingOwedYet, SurveyIsKept
<1>. QED BY <1>10, <1>11, <1>13, <1>14, <1>15, <1>16, <1>17 DEF TaskInv

LEMMA FailKeepsTasks ==
    ASSUME TypeOK, TaskInv, Fail
    PROVE  TaskInv'
<1>1. /\ ~beacons /\ starting \in Tasks /\ up' = FALSE /\ starting' = 0
      /\ masters' = [masters EXCEPT ![starting] = Ended(masters[starting])]
      /\ UNCHANGED <<beacons, selected, trigger, listed, alert, watchdog, stats>>
    BY DEF TypeOK, Fail, sharedVars
<1>2. /\ masters' \in [Tasks -> MasterOf(Tasks)]
      /\ \A t \in Tasks : t # starting => masters'[t] = masters[t]
      /\ masters'[starting].state = "ended"
    BY <1>1, EndMasters
<1>3. Tasks' = Tasks
    BY <1>2, Updated
<1>4. selected = 0 /\ \A t \in Tasks : masters[t].state \in {"starting", "ended"}
    BY <1>1 DEF TaskInv, EndsForGood
<1>5. \A t \in Tasks : masters'[t].state \in {"starting", "ended"}
    BY <1>2, <1>4
<1>6. Unfinished = {} /\ Unfinished' = {}
    BY <1>3, <1>4, <1>5 DEF Unfinished
<1>7. OneTask' /\ EndsForGood'
    BY <1>1, <1>3, <1>4, <1>5 DEF OneTask, EndsForGood
<1>8. ListedByOwner'
    BY <1>1, <1>6 DEF TaskInv, ListedByOwner
<1>9. AloneIsAlone' /\ SurveyIsKept'
    BY <1>3, <1>5 DEF AloneIsAlone, SurveyIsKept
<1>10. NothingOwedYet'
    BY <1>2, <1>3 DEF TaskInv, NothingOwedYet
<1>11. SharedIsRight'
    BY <1>1, <1>3, <1>5, <1>6 DEF TaskInv, SharedIsRight
<1>. QED BY <1>7, <1>8, <1>9, <1>10, <1>11 DEF TaskInv

LEMMA StartedKeepsTasks ==
    ASSUME TypeOK, TaskInv, Started
    PROVE  TaskInv'
<1>1. /\ starting # 0 /\ masters[starting].state = "running"
      /\ selected' = starting /\ starting' = 0
      /\ UNCHANGED <<beacons, up, current, masters, trigger, listed, alert, watchdog, stats>>
    BY DEF Started, taskVars, sharedVars
<1>2. starting \in Tasks
    BY <1>1 DEF TypeOK
<1>3. up /\ beacons
    BY <1>1, <1>2, OneRuns
<1>4. Tasks' = Tasks /\ Live' = Live /\ Unfinished' = Unfinished
    BY <1>1 DEF Tasks, Live, Unfinished
<1>5. OneTask'
    BY <1>1, <1>3, <1>4 DEF TaskInv, OneTask
<1>6. EndsForGood'
    BY <1>1, <1>3 DEF EndsForGood
<1>7. ListedByOwner' /\ AloneIsAlone' /\ NothingOwedYet'
    BY <1>1, <1>4 DEF TaskInv, ListedByOwner, AloneIsAlone, NothingOwedYet
<1>8. SharedIsRight' /\ SurveyIsKept'
    BY <1>1, <1>4 DEF TaskInv, SharedIsRight, SurveyIsKept
<1>. QED BY <1>5, <1>6, <1>7, <1>8 DEF TaskInv

LEMMA FinishKeepsTasks ==
    ASSUME TypeOK, TaskInv, NEW m \in Tasks, Finish(m)
    PROVE  TaskInv'
<1>. DEFINE i == masters[m].preset.id
<1>1. /\ masters[m].state = "cancelled"
      /\ masters' = [masters EXCEPT ![m] = Ended(masters[m])]
      /\ listed' = IF masters[m].owns THEN [listed EXCEPT ![i] = 0] ELSE listed
      /\ stats' = {}
      /\ UNCHANGED <<beacons, up, current, selected, starting, trigger>>
    BY DEF Finish, Unlisted
<1>2. /\ masters' \in [Tasks -> MasterOf(Tasks)]
      /\ \A t \in Tasks : t # m => masters'[t] = masters[t]
      /\ masters'[m].state = "ended"
    BY <1>1, EndMasters
<1>3. Tasks' = Tasks /\ 0 \notin Tasks
    BY <1>2, Updated, Numbered
<1>4. i \in Ids /\ listed \in [Ids -> {0} \cup Tasks]
    <2>1. masters[m] \in MasterOf(Tasks)
        BY Numbered
    <2>. QED BY <2>1, PresetFacts DEF TypeOK, MasterOf
<1>. HIDE DEF i
<1>5. Live' = Live /\ m \notin Live
    BY <1>1, <1>2, <1>3 DEF Live
<1>6. Unfinished' = Unfinished \ {m} /\ m \in Unfinished /\ Unfinished \subseteq Tasks
    BY <1>1, <1>2, <1>3 DEF Unfinished
<1>7. OneTask'
    <2>1. Live \subseteq Tasks
        BY DEF Live
    <2>2. \A t \in Live : t \in Tasks /\ masters'[t] = masters[t]
        BY <1>2, <1>5, <2>1
    <2>3. ~up \/ Live = {} \/ Live = {starting} \/ Live = {selected}
        BY DEF TaskInv, OneTask
    <2>. QED BY <1>1, <1>5, <2>2, <2>3 DEF TaskInv, OneTask
<1>8. EndsForGood'
    BY <1>1, <1>2, <1>3 DEF TaskInv, EndsForGood
<1>9. \A j \in Ids : listed'[j] = IF masters[m].owns /\ j = i THEN 0 ELSE listed[j]
    BY <1>1, <1>4
<1>10. masters[m].owns => listed[i] = m
    BY <1>6 DEF TaskInv, ListedByOwner, i
<1>11. ListedByOwner'
    <2>1. ASSUME NEW j \in Ids, listed'[j] # 0
          PROVE  /\ listed'[j] \in Unfinished' /\ masters'[listed'[j]].owns
                 /\ masters'[listed'[j]].preset.id = j
        <3>1. listed'[j] = listed[j] /\ listed[j] # 0 /\ ~(masters[m].owns /\ j = i)
            BY <1>9, <2>1
        <3>2. /\ listed[j] \in Unfinished /\ masters[listed[j]].owns
              /\ masters[listed[j]].preset.id = j
            BY <3>1 DEF TaskInv, ListedByOwner
        <3>3. listed[j] # m
            BY <3>1, <3>2 DEF i
        <3>4. masters'[listed[j]] = masters[listed[j]]
            BY <1>2, <1>6, <3>2, <3>3
        <3>. QED BY <1>6, <3>1, <3>2, <3>3, <3>4
    <2>2. ASSUME NEW t \in Unfinished', masters'[t].owns
          PROVE  listed'[masters'[t].preset.id] = t
        <3>1. t \in Unfinished /\ t # m /\ masters'[t] = masters[t]
            BY <1>2, <1>6
        <3>2. listed[masters[t].preset.id] = t
            BY <2>2, <3>1 DEF TaskInv, ListedByOwner
        <3>3. masters[t].preset.id \in Ids
            <4>1. masters[t] \in MasterOf(Tasks)
                BY <1>6, <3>1, Numbered
            <4>. QED BY <4>1, PresetFacts DEF MasterOf
        <3>. QED BY <1>9, <1>10, <3>1, <3>2, <3>3
    <2>. QED BY <2>1, <2>2 DEF ListedByOwner
<1>12. \A t \in Tasks : masters'[t].state = "running" => masters'[t] = masters[t] /\ t # m
    BY <1>2
<1>13. \A t \in Tasks : ~(masters'[t].state = "running" /\ masters'[t].alone)
    BY <1>6, <1>12 DEF TaskInv, AloneIsAlone
<1>14. AloneIsAlone' /\ SharedIsRight'
    BY <1>1, <1>3, <1>13 DEF AloneIsAlone, SharedIsRight
<1>15. NothingOwedYet'
    BY <1>2, <1>3 DEF TaskInv, NothingOwedYet
<1>16. SurveyIsKept'
    BY <1>1, <1>3, <1>12 DEF TaskInv, SurveyIsKept
<1>. QED BY <1>7, <1>8, <1>11, <1>14, <1>15, <1>16 DEF TaskInv

LEMMA StepKeepsTasks == TypeOK /\ TaskInv /\ [Next]_vars => TaskInv'
<1>. SUFFICES ASSUME TypeOK, TaskInv, [Next]_vars PROVE TaskInv'
    OBVIOUS
<1>. USE DEF taskVars, sharedVars, requestVars
<1>1. ASSUME NEW p \in {NoPreset} \cup {Found(i) : i \in Ids}, Choose(p) PROVE TaskInv'
    BY <1>1, RequestsKeepTasks DEF Choose
<1>2. ASSUME NEW p \in Ports, ChangePort(p) PROVE TaskInv'
    BY <1>2, RequestsKeepTasks DEF ChangePort
<1>3. CASE ForgetWish \/ Batch
    BY <1>3, RequestsKeepTasks DEF ForgetWish, Batch
<1>4. CASE HotplugEvent
    BY <1>4, RequestsKeepTasks DEF HotplugEvent
<1>5. CASE UNCHANGED vars
    BY <1>5, RequestsKeepTasks DEF vars
<1>6. CASE Switch
    BY <1>6, SwitchKeepsTasks
<1>7. CASE Begin
    BY <1>7, BeginKeepsTasks
<1>8. CASE Fail \/ Started
    BY <1>8, FailKeepsTasks, StartedKeepsTasks
<1>9. CASE RequestSurvey
    BY <1>9, RequestSurveyKeepsTasks
<1>10. ASSUME NEW m \in Tasks, Packet(m) \/ Finish(m) \/ Survey(m) PROVE TaskInv'
    BY <1>10, PacketKeepsTasks, FinishKeepsTasks, SurveysKeepTasks
<1>. QED
    BY <1>1, <1>2, <1>3, <1>4, <1>5, <1>6, <1>7, <1>8, <1>9, <1>10 DEF Next, Survey

LEMMA TasksInvariant == Spec => [](TypeOK /\ TaskInv)
<1>1. Init => TypeOK /\ TaskInv
    BY InitTyped, InitTasks
<1>2. TypeOK /\ TaskInv /\ [Next]_vars => (TypeOK /\ TaskInv)'
    BY StepTyped, StepKeepsTasks
<1>. QED BY <1>1, <1>2, PTL DEF Spec

(* ShownIsRunning: the master task that is not cancelled is the one of the *)
(* preset that handle_RTK_SOURCE() shows and the one that the next switch  *)
(* cancels, however switches, starts and ends of tasks interleave.         *)
THEOREM ShownRuns == Spec => []ShownIsRunning
<1>1. TypeOK /\ TaskInv => ShownIsRunning
    <2>. SUFFICES ASSUME TypeOK, TaskInv, up
                  PROVE  /\ \A m \in Live : masters[m].preset = current /\ m \in {starting, selected}
                         /\ current # NoPreset <=> Cardinality(Live) = 1
        BY DEF ShownIsRunning
    <2>1. \/ current = NoPreset /\ Live = {}
          \/ /\ current # NoPreset
             /\ \E m \in {starting, selected} : Live = {m} /\ masters[m].preset = current
        BY DEF TaskInv, OneTask
    <2>2. Cardinality({}) = 0 /\ \A m : Cardinality({m}) = 1
        BY FS_EmptySet, FS_Singleton
    <2>3. CASE current = NoPreset /\ Live = {}
        BY <2>2, <2>3
    <2>4. ASSUME NEW m \in {starting, selected}, current # NoPreset,
                 Live = {m}, masters[m].preset = current
          PROVE  /\ \A t \in Live : masters[t].preset = current /\ t \in {starting, selected}
                 /\ current # NoPreset <=> Cardinality(Live) = 1
        BY <2>2, <2>4
    <2>. QED BY <2>1, <2>3, <2>4
<1>. QED BY <1>1, TasksInvariant, PTL

(* SharedIsRight: a master task that began when none was left has its      *)
(* connection listed, its warnings handled and its beacon watched for as   *)
(* long as it runs, and the statistics have packets only of tasks that     *)
(* have not ended.                                                         *)
THEOREM SharedStaysRight == Spec => []SharedIsRight
BY TasksInvariant, PTL DEF TaskInv

(* ListedByOwner: the list of connections has exactly those of the master  *)
(* tasks that have listed them and have not cleaned up, each under the     *)
(* name of its preset.                                                     *)
THEOREM ListedStaysOwned == Spec => []ListedByOwner
BY TasksInvariant, PTL DEF TaskInv

(* SurveyIsKept: the loop of a running master task finds the trigger set   *)
(* as long as it owes a user a survey.                                     *)
THEOREM SurveyStaysKept == Spec => []SurveyIsKept
BY TasksInvariant, PTL DEF TaskInv
===============================================================================
