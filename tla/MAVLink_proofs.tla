--------------------------- MODULE MAVLink_proofs ----------------------------
(***************************************************************************)
(* Proofs about the three modules of the MAVLink extension.                *)
(*                                                                         *)
(* ScheduledTakeoff: its type invariant, and that packets made after a     *)
(* change give no more drones a setting that is not asked for any more     *)
(* than updates run at a time, for any fleet, any start times, any         *)
(* capacity of the limiter and any length of the outbound queue.           *)
(*                                                                         *)
(* LogDownload: its type invariant, that a log that is declared downloaded *)
(* is the log that was asked for, and that a list that is declared         *)
(* complete has all logs, for any number of logs of any size; and that it  *)
(* implements LogTransfer.                                                 *)
(*                                                                         *)
(* MAVLinkDrone: its type invariant, and that the state of the connection  *)
(* changes for a reason only, for any number of tasks.                     *)
(***************************************************************************)
EXTENDS ScheduledTakeoff, LogDownload, MAVLinkDrone, FiniteSetTheorems,
        SequenceTheorems, WellFoundedInduction, TLAPS

-------------------------------------------------------------------------------
(***************************************************************************)
(* Scheduled takeoff.                                                      *)
(***************************************************************************)
(* Updates that were begun under another configuration.                    *)
Outdated == {u \in Running : task[u].want # Wanted}

(* Drones that packets made since the last change may still give what is   *)
(* not asked for any more.                                                 *)
Owed ==
  {u \in Drones : \E i \in DOMAIN outbound :
                    i > backlog /\ u \in outbound[i].to /\ outbound[i].want # Wanted}

Affected == late \cup Outdated \cup Owed

(* What stands for a time to be left alone is never written to a drone.    *)
KeepIsNotSet ==
  /\ \A u \in Drones : task[u].step = "time" => task[u].want.time # Keep
  /\ \A i \in DOMAIN outbound : outbound[i].step = "time" => outbound[i].want.time # Keep

(* Whoever has been given an outdated setting, or still may be by a packet *)
(* made since the change, has an update that runs or ran at the change.    *)
FewOutdated ==
  /\ Cardinality(Running) <= Workers
  /\ Cardinality(Affected) <= Workers

TakeoffInv == TakeoffTypeOK /\ KeepIsNotSet /\ FewOutdated

(***************************************************************************)
(* Types.                                                                  *)
(***************************************************************************)
LEMMA WantedType ==
  ASSUME TakeoffTypeOK
  PROVE  Wanted \in TakeoffConfiguration
<1>1. config.authorized \in BOOLEAN
  <2>1. config \in Config => config.authorized \in BOOLEAN
    BY DEF Config
  <2>2. NoConfig.authorized \in BOOLEAN
    BY DEF NoConfig
  <2>. QED BY <2>1, <2>2 DEF TakeoffTypeOK
<1>2. startTime \in Times \cup {Cleared}
  BY DEF TakeoffTypeOK
<1>. QED BY <1>1, <1>2 DEF Wanted, Desired, TakeoffConfiguration

LEMMA ConfiguredType ==
  ASSUME NEW s \in Setting, NEW w \in TakeoffConfiguration
  PROVE  Configured(s, w) \in Setting
BY DEF Configured, Setting, TakeoffConfiguration

LEMMA WrittenType ==
  ASSUME NEW s \in Setting, NEW k \in Packet, k.step = "time" => k.want.time # Keep
  PROVE  Written(s, k) \in Setting
<1>1. k.want \in TakeoffConfiguration /\ k.step \in {"both", "time", "authorized"}
  BY DEF Packet
<1>2. k.want.authorized \in BOOLEAN /\ k.want.time \in Times \cup {Cleared, Keep}
  BY <1>1 DEF TakeoffConfiguration
<1>3. CASE k.step = "both"
  BY <1>1, <1>3, ConfiguredType DEF Written
<1>4. CASE k.step = "time"
  BY <1>2, <1>4 DEF Written, Setting
<1>5. CASE k.step = "authorized"
  BY <1>2, <1>5 DEF Written, Setting
<1>. QED BY <1>1, <1>3, <1>4, <1>5

(* The outbound queue, as a function of places.                            *)
LEMMA Places ==
  ASSUME TakeoffTypeOK
  PROVE  /\ Len(outbound) \in Nat /\ DOMAIN outbound = 1 .. Len(outbound)
         /\ \A i \in 1 .. Len(outbound) : outbound[i] \in Packet
         /\ backlog \in Nat /\ backlog <= Len(outbound)
BY DEF TakeoffTypeOK

LEMMA Enqueued ==
  ASSUME TakeoffTypeOK, NEW p \in Packet, Enqueue(p)
  PROVE  /\ outbound' \in Seq(Packet) /\ Len(outbound') = Len(outbound) + 1
         /\ DOMAIN outbound' = 1 .. (Len(outbound) + 1)
         /\ \A i \in 1 .. Len(outbound) : outbound'[i] = outbound[i]
         /\ outbound'[Len(outbound) + 1] = p
<1>1. outbound \in Seq(Packet) /\ outbound' = Append(outbound, p)
  BY DEF TakeoffTypeOK, Enqueue
<1>. QED BY <1>1, AppendProperties

LEMMA Dequeued ==
  ASSUME TakeoffTypeOK, PacketSent
  PROVE  /\ outbound' \in Seq(Packet) /\ Len(outbound') = Len(outbound) - 1
         /\ DOMAIN outbound' = 1 .. (Len(outbound) - 1)
         /\ \A i \in 1 .. (Len(outbound) - 1) : outbound'[i] = outbound[i + 1]
<1>1. outbound \in Seq(Packet) /\ outbound # <<>> /\ outbound' = Tail(outbound)
  BY DEF TakeoffTypeOK, PacketSent
<1>. QED BY <1>1, HeadTailProperties

(* A packet that is added to the queue keeps the types.                    *)
LEMMA EnqueueTyped ==
  ASSUME TakeoffTypeOK, KeepIsNotSet, NEW p \in Packet, Enqueue(p),
         p.step = "time" => p.want.time # Keep, UNCHANGED <<task, backlog>>
  PROVE  /\ outbound' \in Seq(Packet) /\ backlog' \in 0 .. Len(outbound')
         /\ KeepIsNotSet'
<1>1. backlog' \in 0 .. Len(outbound')
  BY Enqueued, Places
<1>2. ASSUME NEW i \in DOMAIN outbound' 
      PROVE  outbound'[i].step = "time" => outbound'[i].want.time # Keep
  <2>1. i \in 1 .. Len(outbound) \/ i = Len(outbound) + 1
    BY <1>2, Enqueued, Places
  <2>2. CASE i \in 1 .. Len(outbound)
    BY <2>2, Enqueued, Places DEF KeepIsNotSet
  <2>3. CASE i = Len(outbound) + 1
    BY <2>3, Enqueued
  <2>. QED BY <2>1, <2>2, <2>3
<1>. QED BY <1>1, <1>2, Enqueued DEF KeepIsNotSet

(* What is forgotten and counted anew at a change.                         *)
LEMMA ChangedTyped ==
  ASSUME TakeoffTypeOK, Changed, UNCHANGED outbound
  PROVE  backlog' \in 0 .. Len(outbound') /\ late' \subseteq Drones
<1>1. CASE UNCHANGED takeoffHistory
  BY <1>1 DEF takeoffHistory, TakeoffTypeOK
<1>2. CASE late' = {} /\ backlog' = Len(outbound)
  BY <1>2, Places
<1>. QED BY <1>1, <1>2 DEF Changed

LEMMA NotUpdates == Absent \notin Update /\ Queued \notin Update
BY DEF Absent, Queued, Update

LEMMA InitTyped == TakeoffInit => TakeoffTypeOK /\ KeepIsNotSet
<1>. SUFFICES ASSUME TakeoffInit PROVE TakeoffTypeOK /\ KeepIsNotSet
  OBVIOUS
<1>1. [authorized |-> FALSE, time |-> Cleared] \in Setting
  BY DEF Setting
<1>2. Absent.step # "time"
  BY DEF Absent
<1>3. outbound \in Seq(Packet) /\ Len(outbound) = 0 /\ DOMAIN outbound = {}
  BY DEF TakeoffInit
<1>. QED BY <1>1, <1>2, <1>3 DEF TakeoffInit, TakeoffTypeOK, KeepIsNotSet

(* What a step does to the tasks, which is all that the rest depends on.   *)
LEMMA BeginTyped ==
  ASSUME TakeoffTypeOK, KeepIsNotSet, NEW u \in Drones, Begin(u)
  PROVE  /\ TakeoffTypeOK' /\ KeepIsNotSet'
         /\ \A v \in Drones \ {u} : task'[v] = task[v]
         /\ task'[u] \in Update => task'[u].want = Wanted
<1>1. PICK step \in {"time", "authorized", "absent"} :
        /\ task' = [task EXCEPT ![u] = IF step = "absent" THEN Absent
                                       ELSE [step |-> step, want |-> Wanted]]
        /\ step = "time" => Wanted.time # Keep
        /\ recent' \in {recent, recent \cup {u}}
  BY DEF Begin, Finish
<1>2. Wanted \in TakeoffConfiguration
  BY WantedType
<1>. DEFINE t == IF step = "absent" THEN Absent ELSE [step |-> step, want |-> Wanted]
<1>3. t \in Update \cup {Absent} /\ (t.step = "time" => t.want.time # Keep)
  BY <1>1, <1>2 DEF Update, Absent
<1>4. task' = [task EXCEPT ![u] = t] /\ task \in [Drones -> Update \cup {Absent, Queued}]
  BY <1>1 DEF TakeoffTypeOK
<1>5. t \in Update => t.want = Wanted
  BY NotUpdates
<1>. HIDE DEF t
<1>6. task' \in [Drones -> Update \cup {Absent, Queued}]
  BY <1>3, <1>4
<1>7. \A v \in Drones : task'[v] = IF v = u THEN t ELSE task[v]
  BY <1>4
<1>8. KeepIsNotSet'
  BY <1>3, <1>7 DEF KeepIsNotSet, Begin
<1>9. TakeoffTypeOK'
  BY <1>1, <1>6 DEF TakeoffTypeOK, Begin, takeoffHistory
<1>. QED BY <1>5, <1>7, <1>8, <1>9

LEMMA AnsweredTyped ==
  ASSUME TakeoffTypeOK, KeepIsNotSet, NEW u \in Drones, Answered(u)
  PROVE  /\ TakeoffTypeOK' /\ KeepIsNotSet'
         /\ \A v \in Drones \ {u} : task'[v] = task[v]
         /\ task'[u] \in Update => task'[u].want = task[u].want
<1>1. task[u] \in Update
  BY DEF Answered, Running
<1>2. PICK t : /\ task' = [task EXCEPT ![u] = t]
               /\ t = Absent \/ t = [task[u] EXCEPT !.step = "authorized"]
               /\ recent' \in {recent, recent \cup {u}}
  <2>1. CASE task[u].step = "time" /\ task[u].want.authorized # known[u].authorized
    <3>1. task' = [task EXCEPT ![u] = [task[u] EXCEPT !.step = "authorized"]]
      BY <2>1 DEF Answered
    <3>. QED BY <2>1, <3>1 DEF Answered
  <2>2. CASE ~(task[u].step = "time" /\ task[u].want.authorized # known[u].authorized)
    BY <2>2 DEF Answered, Finish
  <2>. QED BY <2>1, <2>2
<1>3. t \in Update \cup {Absent} /\ t.step # "time" /\ (t \in Update => t.want = task[u].want)
  BY <1>1, <1>2, NotUpdates DEF Update, Absent
<1>4. task \in [Drones -> Update \cup {Absent, Queued}]
  BY DEF TakeoffTypeOK
<1>5. task' \in [Drones -> Update \cup {Absent, Queued}]
  BY <1>2, <1>3, <1>4
<1>6. \A v \in Drones : task'[v] = IF v = u THEN t ELSE task[v]
  BY <1>2, <1>4
<1>7. KeepIsNotSet'
  BY <1>3, <1>6 DEF KeepIsNotSet, Answered
<1>8. TakeoffTypeOK'
  BY <1>2, <1>5 DEF TakeoffTypeOK, Answered, takeoffHistory
<1>. QED BY <1>3, <1>6, <1>7, <1>8

LEMMA ScanTyped ==
  ASSUME TakeoffTypeOK, KeepIsNotSet, Scan
  PROVE  /\ TakeoffTypeOK' /\ KeepIsNotSet'
         /\ \A v \in Drones : task'[v] = task[v] \/ task'[v] = Queued
<1>1. \A v \in Drones : task'[v] = task[v] \/ task'[v] = Queued
  BY DEF Scan
<1>2. task' \in [Drones -> Update \cup {Absent, Queued}]
  BY <1>1 DEF TakeoffTypeOK, Scan
<1>3. Queued.step # "time"
  BY DEF Queued
<1>4. KeepIsNotSet'
  BY <1>1, <1>3 DEF KeepIsNotSet, Scan
<1>5. TakeoffTypeOK'
  BY <1>2 DEF TakeoffTypeOK, Scan, takeoffHistory
<1>. QED BY <1>1, <1>4, <1>5

LEMMA StepTyped == TakeoffTypeOK /\ KeepIsNotSet /\ [TakeoffNext]_takeoffVars => TakeoffTypeOK' /\ KeepIsNotSet'
<1>. SUFFICES ASSUME TakeoffTypeOK, KeepIsNotSet, [TakeoffNext]_takeoffVars PROVE TakeoffTypeOK' /\ KeepIsNotSet'
  OBVIOUS
<1>1. ASSUME NEW c \in Config, NotifyConfigChanged(c) PROVE TakeoffTypeOK' /\ KeepIsNotSet'
  <2>1. backlog' \in 0 .. Len(outbound') /\ late' \subseteq Drones
    BY <1>1, ChangedTyped DEF NotifyConfigChanged
  <2>. QED BY <1>1, <2>1 DEF NotifyConfigChanged, TakeoffTypeOK, KeepIsNotSet
<1>2. ASSUME NEW t \in Times \cup {Cleared}, NotifyStartTimeChanged(t)
      PROVE TakeoffTypeOK' /\ KeepIsNotSet'
  <2>1. backlog' \in 0 .. Len(outbound') /\ late' \subseteq Drones
    BY <1>2, ChangedTyped DEF NotifyStartTimeChanged
  <2>. QED BY <1>2, <2>1 DEF NotifyStartTimeChanged, TakeoffTypeOK, KeepIsNotSet
<1>3. CASE Broadcast
  <2>. DEFINE p == [to |-> Drones, step |-> "both", want |-> Wanted]
  <2>1. Wanted \in TakeoffConfiguration
    BY WantedType
  <2>2. p \in Packet /\ p.step # "time"
    BY <2>1 DEF Packet
  <2>3. Enqueue(p) \/ UNCHANGED outbound
    BY <1>3 DEF Broadcast
  <2>4. UNCHANGED <<task, backlog>>
    BY <1>3 DEF Broadcast, takeoffHistory
  <2>. HIDE DEF p
  <2>5. outbound' \in Seq(Packet) /\ backlog' \in 0 .. Len(outbound') /\ KeepIsNotSet'
    <3>1. CASE Enqueue(p)
      BY <2>2, <2>4, <3>1, EnqueueTyped
    <3>2. CASE UNCHANGED outbound
      BY <2>4, <3>2 DEF TakeoffTypeOK, KeepIsNotSet
    <3>. QED BY <2>3, <3>1, <3>2
  <2>. QED BY <1>3, <2>1, <2>5 DEF Broadcast, TakeoffTypeOK, takeoffHistory
<1>4. CASE Scan
  BY <1>4, ScanTyped
<1>5. ASSUME NEW u \in Drones, HandleShowStatus(u) PROVE TakeoffTypeOK' /\ KeepIsNotSet'
  BY <1>5 DEF HandleShowStatus, TakeoffTypeOK, KeepIsNotSet, takeoffHistory
<1>6. ASSUME NEW u \in Drones, NotifyConnection(u) PROVE TakeoffTypeOK' /\ KeepIsNotSet'
  BY <1>6 DEF NotifyConnection, TakeoffTypeOK, KeepIsNotSet, takeoffHistory
<1>7. ASSUME NEW u \in Drones, NEW t \in Times \cup {Cleared}, Pilot(u, t)
      PROVE TakeoffTypeOK' /\ KeepIsNotSet'
  <2>1. drone' \in [Drones -> Setting]
    BY <1>7 DEF Pilot, TakeoffTypeOK, Setting
  <2>. QED BY <1>7, <2>1 DEF Pilot, TakeoffTypeOK, KeepIsNotSet, takeoffHistory
<1>8. ASSUME NEW u \in Drones, Age(u) PROVE TakeoffTypeOK' /\ KeepIsNotSet'
  BY <1>8 DEF Age, TakeoffTypeOK, KeepIsNotSet, takeoffHistory
<1>9. ASSUME NEW u \in Drones, Begin(u) PROVE TakeoffTypeOK' /\ KeepIsNotSet'
  BY <1>9, BeginTyped
<1>10. ASSUME NEW u \in Drones, SetParameter(u) PROVE TakeoffTypeOK' /\ KeepIsNotSet'
  <2>. DEFINE p == [to |-> {u}, step |-> task[u].step, want |-> task[u].want]
  <2>1. task[u] \in Update /\ (task[u].step = "time" => task[u].want.time # Keep)
    BY <1>10 DEF SetParameter, Running, KeepIsNotSet
  <2>2. p \in Packet /\ (p.step = "time" => p.want.time # Keep)
    BY <2>1 DEF Packet, Update
  <2>3. Enqueue(p) /\ UNCHANGED <<task, backlog>>
    BY <1>10 DEF SetParameter, takeoffHistory
  <2>. HIDE DEF p
  <2>4. outbound' \in Seq(Packet) /\ backlog' \in 0 .. Len(outbound') /\ KeepIsNotSet'
    BY <2>2, <2>3, EnqueueTyped
  <2>. QED BY <1>10, <2>4 DEF SetParameter, TakeoffTypeOK, takeoffHistory
<1>14. ASSUME NEW u \in Drones, Deliver(u) PROVE TakeoffTypeOK' /\ KeepIsNotSet'
  <2>. DEFINE p == Head(outbound)
  <2>1. 1 \in DOMAIN outbound /\ p = outbound[1]
    BY <1>14, Places DEF Deliver, TakeoffTypeOK
  <2>2. p \in Packet /\ (p.step = "time" => p.want.time # Keep)
    BY <2>1, Places DEF KeepIsNotSet
  <2>3. /\ drone' = [drone EXCEPT ![u] = Written(drone[u], p)]
        /\ late' \in {late, late \cup {u}}
    BY <1>14 DEF Deliver
  <2>. HIDE DEF p
  <2>4. Written(drone[u], p) \in Setting
    BY <2>2, WrittenType DEF TakeoffTypeOK
  <2>5. drone' \in [Drones -> Setting] /\ late' \subseteq Drones
    BY <2>3, <2>4 DEF TakeoffTypeOK
  <2>. QED BY <1>14, <2>5 DEF Deliver, TakeoffTypeOK, KeepIsNotSet
<1>15. CASE PacketSent
  <2>1. backlog' \in 0 .. Len(outbound')
    <3>1. Len(outbound) > 0
      BY <1>15, Places DEF PacketSent, TakeoffTypeOK
    <3>2. backlog' = IF backlog > 0 THEN backlog - 1 ELSE 0
      BY <1>15 DEF PacketSent
    <3>3. Len(outbound') = Len(outbound) - 1
      BY <1>15, Dequeued
    <3>. QED BY <3>1, <3>2, <3>3, Places
  <2>2. ASSUME NEW i \in DOMAIN outbound'
        PROVE  outbound'[i].step = "time" => outbound'[i].want.time # Keep
    <3>1. i \in 1 .. (Len(outbound) - 1) /\ outbound'[i] = outbound[i + 1]
      BY <1>15, <2>2, Dequeued
    <3>2. i + 1 \in DOMAIN outbound
      BY <3>1, Places
    <3>. QED BY <3>1, <3>2 DEF KeepIsNotSet
  <2>3. KeepIsNotSet'
    BY <1>15, <2>2 DEF KeepIsNotSet, PacketSent
  <2>. QED BY <1>15, <2>1, <2>3, Dequeued DEF PacketSent, TakeoffTypeOK
<1>11. ASSUME NEW u \in Drones, Answered(u) PROVE TakeoffTypeOK' /\ KeepIsNotSet'
  BY <1>11, AnsweredTyped
<1>12. ASSUME NEW u \in Drones, TimeOut(u) PROVE TakeoffTypeOK' /\ KeepIsNotSet'
  <2>1. Absent.step # "time"
    BY DEF Absent
  <2>. QED BY <1>12, <2>1 DEF TimeOut, TakeoffTypeOK, KeepIsNotSet, takeoffHistory
<1>13. CASE UNCHANGED takeoffVars
  BY <1>13 DEF takeoffVars, TakeoffTypeOK, KeepIsNotSet
<1>. QED
  BY <1>1, <1>2, <1>3, <1>4, <1>5, <1>6, <1>7, <1>8, <1>9, <1>10, <1>11, <1>12, <1>13, <1>14, <1>15
     DEF TakeoffNext

(* Types: among other things, a drone never gets the value that stands     *)
(* for a start time that is to be left alone.                              *)
THEOREM TakeoffTypeCorrect == TakeoffSpec => []TakeoffTypeOK
<1>1. TakeoffInit => TakeoffTypeOK /\ KeepIsNotSet
  BY InitTyped
<1>2. TakeoffTypeOK /\ KeepIsNotSet /\ [TakeoffNext]_takeoffVars => (TakeoffTypeOK /\ KeepIsNotSet)'
  BY StepTyped
<1>. QED BY <1>1, <1>2, PTL DEF TakeoffSpec

(***************************************************************************)
(* Who is late.                                                            *)
(***************************************************************************)
(* The count of those who were given, or may be given, outdated settings   *)
(* does not grow when their set does not.                                  *)
LEMMA Smaller ==
  ASSUME NEW S \in SUBSET Drones, NEW T \in SUBSET S
  PROVE  Cardinality(T) <= Cardinality(S) /\ Cardinality(S) \in Nat /\ Cardinality(T) \in Nat
<1>1. IsFiniteSet(S)
  BY DronesAssumption, FS_Subset
<1>2. IsFiniteSet(T) /\ Cardinality(T) <= Cardinality(S)
  BY <1>1, FS_Subset
<1>. QED BY <1>1, <1>2, FS_CardinalityType

LEMMA AffectedDrones == TakeoffTypeOK => Running \in SUBSET Drones /\ Affected \in SUBSET Drones
BY DEF TakeoffTypeOK, Running, Outdated, Owed, Affected

LEMMA FewerOutdated ==
  ASSUME FewOutdated, TakeoffTypeOK, Running' \subseteq Running, Affected' \subseteq Affected
  PROVE  FewOutdated'
<1>1. Running \in SUBSET Drones /\ Affected \in SUBSET Drones
  BY AffectedDrones
<1>2. Cardinality(Running') <= Cardinality(Running) /\ Cardinality(Running) \in Nat
        /\ Cardinality(Running') \in Nat
  BY <1>1, Smaller
<1>3. /\ Cardinality(Affected') <= Cardinality(Affected)
      /\ Cardinality(Affected) \in Nat
      /\ Cardinality(Affected') \in Nat
  BY <1>1, Smaller
<1>. QED BY <1>2, <1>3, WorkersAssumption DEF FewOutdated

(* After a change of what is wanted only what runs can be outdated: no     *)
(* packet has been made since.                                             *)
LEMMA ChangeFew ==
  ASSUME TakeoffTypeOK, FewOutdated, UNCHANGED <<task, outbound>>, Changed
  PROVE  FewOutdated'
<1>1. Running' = Running /\ Running \in SUBSET Drones
  BY DEF Running
<1>2. CASE Wanted' = Wanted /\ UNCHANGED takeoffHistory
  <2>1. Outdated' = Outdated /\ Owed' = Owed /\ late' = late
    BY <1>1, <1>2 DEF Outdated, Owed, takeoffHistory
  <2>. QED BY <1>1, <2>1, FewerOutdated DEF Affected
<1>3. CASE late' = {} /\ backlog' = Len(outbound)
  <2>1. Owed' = {}
    BY <1>3, Places DEF Owed
  <2>2. Affected' \in SUBSET Running
    BY <1>1, <1>3, <2>1 DEF Outdated, Affected
  <2>3. /\ Cardinality(Affected') <= Cardinality(Running)
        /\ Cardinality(Running) \in Nat /\ Cardinality(Affected') \in Nat
    BY <1>1, <2>2, Smaller
  <2>. QED BY <1>1, <2>3, WorkersAssumption DEF FewOutdated
<1>. QED BY <1>2, <1>3 DEF Changed

(* Other steps leave the configuration alone.                              *)
LEMMA WantedStays == UNCHANGED <<config, startTime>> => Wanted' = Wanted
BY DEF Wanted, Desired

(* An update that ends, or goes on, affects nobody else.                   *)
LEMMA EndFew ==
  ASSUME TakeoffTypeOK, FewOutdated, UNCHANGED <<config, startTime, outbound, backlog, late>>,
         \A v \in Drones : task'[v] \in Update => task[v] \in Update /\ task'[v].want = task[v].want
  PROVE  FewOutdated'
<1>1. Wanted' = Wanted
  BY WantedStays
<1>2. Running' \subseteq Running /\ Outdated' \subseteq Outdated
  BY <1>1 DEF Running, Outdated
<1>3. Owed' = Owed
  BY <1>1 DEF Owed
<1>. QED BY <1>2, <1>3, FewerOutdated DEF Affected

(* A packet with what is wanted now, or one of an outdated update, affects *)
(* nobody else either.                                                     *)
LEMMA EnqueueFew ==
  ASSUME TakeoffTypeOK, FewOutdated, UNCHANGED <<config, startTime, task, backlog, late>>,
         NEW p \in Packet, Enqueue(p), p.want = Wanted \/ p.to \subseteq Outdated
  PROVE  FewOutdated'
<1>1. Running' = Running /\ Outdated' = Outdated /\ Wanted' = Wanted
  BY WantedStays DEF Running, Outdated
<1>2. ASSUME NEW u \in Drones, NEW i \in DOMAIN outbound', i > backlog,
             u \in outbound'[i].to, outbound'[i].want # Wanted
      PROVE  u \in Outdated \cup Owed
  <2>1. i \in 1 .. Len(outbound) \/ i = Len(outbound) + 1
    BY <1>2, Enqueued, Places
  <2>2. CASE i \in 1 .. Len(outbound)
    <3>1. i \in DOMAIN outbound /\ outbound'[i] = outbound[i]
      BY <2>2, Enqueued, Places
    <3>. QED BY <1>2, <3>1 DEF Owed
  <2>3. CASE i = Len(outbound) + 1
    <3>1. outbound'[i] = p
      BY <2>3, Enqueued
    <3>. QED BY <1>2, <3>1
  <2>. QED BY <2>1, <2>2, <2>3
<1>3. Owed' \subseteq Outdated \cup Owed
  BY <1>1, <1>2 DEF Owed
<1>. QED BY <1>1, <1>3, FewerOutdated DEF Affected

LEMMA StepFew == TakeoffTypeOK /\ KeepIsNotSet /\ FewOutdated /\ [TakeoffNext]_takeoffVars => FewOutdated'
<1>. SUFFICES ASSUME TakeoffTypeOK, KeepIsNotSet, FewOutdated, [TakeoffNext]_takeoffVars PROVE FewOutdated'
  OBVIOUS
<1>1. ASSUME NEW c \in Config, NotifyConfigChanged(c) PROVE FewOutdated'
  BY <1>1, ChangeFew DEF NotifyConfigChanged
<1>2. ASSUME NEW t \in Times \cup {Cleared}, NotifyStartTimeChanged(t) PROVE FewOutdated'
  BY <1>2, ChangeFew DEF NotifyStartTimeChanged
<1>3. ASSUME UNCHANGED <<config, startTime, outbound, task, backlog, late>> PROVE FewOutdated'
  <2>1. Running' = Running /\ Outdated' = Outdated /\ Owed' = Owed
    BY <1>3, WantedStays DEF Running, Outdated, Owed
  <2>. QED BY <1>3, <2>1, FewerOutdated DEF Affected
<1>4. CASE Broadcast
  <2>. DEFINE p == [to |-> Drones, step |-> "both", want |-> Wanted]
  <2>1. UNCHANGED <<config, startTime, task, backlog, late>> /\ (Enqueue(p) \/ UNCHANGED outbound)
    BY <1>4 DEF Broadcast, takeoffHistory
  <2>2. CASE UNCHANGED outbound
    BY <2>1, <2>2, <1>3
  <2>3. CASE Enqueue(p)
    <3>1. p \in Packet /\ p.want = Wanted
      BY WantedType DEF Packet
    <3>. HIDE DEF p
    <3>. QED BY <2>1, <2>3, <3>1, EnqueueFew
  <2>. QED BY <2>1, <2>2, <2>3
<1>5. CASE Scan
  <2>1. \A v \in Drones : task'[v] = task[v] \/ task'[v] = Queued
    BY <1>5, ScanTyped
  <2>2. UNCHANGED <<config, startTime, outbound, backlog, late>>
    BY <1>5 DEF Scan, takeoffHistory
  <2>. QED BY <2>1, <2>2, NotUpdates, EndFew
<1>14. ASSUME NEW u \in Drones, HandleShowStatus(u) PROVE FewOutdated'
  BY <1>14, <1>3 DEF HandleShowStatus, takeoffHistory
<1>6. ASSUME NEW u \in Drones, NotifyConnection(u) PROVE FewOutdated'
  BY <1>6, <1>3 DEF NotifyConnection, takeoffHistory
<1>7. ASSUME NEW u \in Drones, NEW t \in Times \cup {Cleared}, Pilot(u, t) PROVE FewOutdated'
  BY <1>7, <1>3 DEF Pilot, takeoffHistory
<1>8. ASSUME NEW u \in Drones, Age(u) PROVE FewOutdated'
  BY <1>8, <1>3 DEF Age, takeoffHistory
<1>9. ASSUME NEW u \in Drones, Begin(u) PROVE FewOutdated'
  <2>1. /\ \A v \in Drones \ {u} : task'[v] = task[v]
        /\ task'[u] \in Update => task'[u].want = Wanted
    BY <1>9, BeginTyped
  <2>2. /\ UNCHANGED <<config, startTime, outbound, backlog, late>>
        /\ Wanted' = Wanted
    BY <1>9, WantedStays DEF Begin, takeoffHistory
  <2>3. Affected' \subseteq Affected
    <3>1. Outdated' \subseteq Outdated
      BY <2>1, <2>2 DEF Outdated, Running
    <3>2. Owed' = Owed
      BY <2>2 DEF Owed
    <3>. QED BY <2>2, <3>1, <3>2 DEF Affected
  <2>4. Running' \subseteq Running \cup {u}
    BY <2>1 DEF Running
  <2>5. Running \in SUBSET Drones /\ Affected \in SUBSET Drones
    BY AffectedDrones
  <2>6. IsFiniteSet(Running)
    BY <2>5, DronesAssumption, FS_Subset
  <2>7. Cardinality(Running \cup {u}) <= Cardinality(Running) + 1 /\ Cardinality(Running) \in Nat
    <3>1. Cardinality(Running) \in Nat
      BY <2>6, FS_CardinalityType
    <3>2. Cardinality(Running \cup {u})
            = IF u \in Running THEN Cardinality(Running) ELSE Cardinality(Running) + 1
      BY <2>6, FS_AddElement
    <3>. QED BY <3>1, <3>2
  <2>8. Cardinality(Running) < Workers
    BY <1>9 DEF Begin
  <2>9. Cardinality(Running') <= Cardinality(Running \cup {u}) /\ Cardinality(Running') \in Nat
          /\ Cardinality(Running \cup {u}) \in Nat
    BY <2>4, <2>5, Smaller
  <2>10. /\ Cardinality(Affected') <= Cardinality(Affected)
         /\ Cardinality(Affected) \in Nat
         /\ Cardinality(Affected') \in Nat
    BY <2>3, <2>5, Smaller
  <2>. QED BY <2>7, <2>8, <2>9, <2>10, WorkersAssumption DEF FewOutdated
<1>10. ASSUME NEW u \in Drones, SetParameter(u) PROVE FewOutdated'
  <2>. DEFINE p == [to |-> {u}, step |-> task[u].step, want |-> task[u].want]
  <2>1. UNCHANGED <<config, startTime, task, backlog, late>> /\ u \in Running /\ Enqueue(p)
    BY <1>10 DEF SetParameter, takeoffHistory
  <2>2. p \in Packet
    <3>1. task[u] \in Update
      BY <2>1 DEF Running
    <3>. QED BY <3>1 DEF Packet, Update
  <2>3. p.want = Wanted \/ p.to \subseteq Outdated
    BY <2>1 DEF Outdated
  <2>. HIDE DEF p
  <2>. QED BY <2>1, <2>2, <2>3, EnqueueFew
<1>11. ASSUME NEW u \in Drones, Answered(u) PROVE FewOutdated'
  <2>1. /\ \A v \in Drones \ {u} : task'[v] = task[v]
        /\ task'[u] \in Update => task'[u].want = task[u].want
    BY <1>11, AnsweredTyped
  <2>2. UNCHANGED <<config, startTime, outbound, backlog, late>> /\ task[u] \in Update
    BY <1>11 DEF Answered, Running, takeoffHistory
  <2>3. \A v \in Drones : task'[v] \in Update => task[v] \in Update /\ task'[v].want = task[v].want
    BY <2>1, <2>2
  <2>. QED BY <2>2, <2>3, EndFew
<1>12. ASSUME NEW u \in Drones, TimeOut(u) PROVE FewOutdated'
  <2>1. UNCHANGED <<config, startTime, outbound, backlog, late>>
    BY <1>12 DEF TimeOut, takeoffHistory
  <2>2. \A v \in Drones : task'[v] = task[v] \/ task'[v] = Absent
    BY <1>12 DEF TimeOut, TakeoffTypeOK
  <2>. QED BY <2>1, <2>2, NotUpdates, EndFew
<1>15. ASSUME NEW u \in Drones, Deliver(u) PROVE FewOutdated'
  <2>. DEFINE p == Head(outbound)
  <2>1. UNCHANGED <<config, startTime, outbound, task, backlog>>
    BY <1>15 DEF Deliver
  <2>2. Running' = Running /\ Outdated' = Outdated /\ Owed' = Owed
    BY <2>1, WantedStays DEF Running, Outdated, Owed
  <2>3. 1 \in DOMAIN outbound /\ p = outbound[1] /\ p \in Packet /\ u \in p.to
    BY <1>15, Places DEF Deliver, TakeoffTypeOK
  <2>4. late' \subseteq late \cup Owed
    <3>1. CASE late' = late
      BY <3>1
    <3>2. CASE late' # late
      <4>1. /\ ~(backlog > 0) /\ late' = late \cup {u}
            /\ Written(drone[u], p) # Written(drone[u], [p EXCEPT !.want = Wanted])
        BY <1>15, <3>2 DEF Deliver
      <4>2. p.want = Wanted => [p EXCEPT !.want = Wanted] = p
        BY <2>3 DEF Packet
      <4>. HIDE DEF p
      <4>3. p.want # Wanted
        BY <4>1, <4>2
      <4>4. 1 > backlog
        BY <4>1, Places
      <4>. QED BY <2>3, <4>1, <4>3, <4>4 DEF Owed
    <3>. QED BY <3>1, <3>2
  <2>. QED BY <2>2, <2>4, FewerOutdated DEF Affected
<1>16. CASE PacketSent
  <2>1. UNCHANGED <<config, startTime, task, late>> /\ backlog' = IF backlog > 0 THEN backlog - 1 ELSE 0
    BY <1>16 DEF PacketSent
  <2>2. Running' = Running /\ Outdated' = Outdated /\ Wanted' = Wanted
    BY <2>1, WantedStays DEF Running, Outdated
  <2>3. ASSUME NEW u \in Drones, NEW i \in DOMAIN outbound', i > backlog',
               u \in outbound'[i].to, outbound'[i].want # Wanted
        PROVE  u \in Owed
    <3>1. i \in 1 .. (Len(outbound) - 1) /\ outbound'[i] = outbound[i + 1]
      BY <1>16, Dequeued
    <3>2. i + 1 \in DOMAIN outbound /\ i + 1 > backlog
      BY <2>1, <2>3, <3>1, Places
    <3>. QED BY <2>3, <3>1, <3>2 DEF Owed
  <2>4. Owed' \subseteq Owed
    BY <2>2, <2>3 DEF Owed
  <2>. QED BY <2>1, <2>2, <2>4, FewerOutdated DEF Affected
<1>13. CASE UNCHANGED takeoffVars
  BY <1>13, <1>3 DEF takeoffVars
<1>. QED
  BY <1>1, <1>2, <1>4, <1>5, <1>14, <1>6, <1>7, <1>8, <1>9, <1>10, <1>11, <1>12, <1>13, <1>15, <1>16
     DEF TakeoffNext

LEMMA InitFew == TakeoffInit => FewOutdated
<1>. SUFFICES ASSUME TakeoffInit PROVE FewOutdated
  OBVIOUS
<1>1. Running = {} /\ Affected = {}
  BY NotUpdates DEF TakeoffInit, Running, Outdated, Owed, Affected
<1>. QED BY <1>1, FS_EmptySet, WorkersAssumption DEF FewOutdated

(* FewLate: after a change of the show configuration or of its start time, *)
(* no more drones get the former setting by packets made since then than   *)
(* updates run at a time, however long such packets and those from before  *)
(* the change wait in the outbound queue.                                  *)
THEOREM FewAreLate == TakeoffSpec => []FewLate
<1>1. TakeoffInit => TakeoffInv
  BY InitTyped, InitFew DEF TakeoffInv
<1>2. TakeoffInv /\ [TakeoffNext]_takeoffVars => TakeoffInv'
  BY StepTyped, StepFew DEF TakeoffInv
<1>3. TakeoffInv => FewLate
  <2>. SUFFICES ASSUME TakeoffInv PROVE FewLate
    OBVIOUS
  <2>1. Affected \in SUBSET Drones /\ late \in SUBSET Affected
    BY AffectedDrones DEF TakeoffInv, Affected
  <2>2. /\ Cardinality(late) <= Cardinality(Affected)
        /\ Cardinality(Affected) \in Nat /\ Cardinality(late) \in Nat
    BY <2>1, Smaller
  <2>. QED BY <2>2, WorkersAssumption DEF TakeoffInv, FewOutdated, FewLate
<1>. QED BY <1>1, <1>2, <1>3, PTL DEF TakeoffSpec

-------------------------------------------------------------------------------
(***************************************************************************)
(* Log download.                                                           *)
(***************************************************************************)
(* What the operation does fits what is downloaded, and the future of the  *)
(* expected packet has been resolved by a packet of the expected type.     *)
StageFits ==
  /\ stage \in {"asking for list", "reading list"} => log = List
  /\ stage \in {"asking for size", "asking for data", "reading data"} => log \in Logs
  /\ stage = "asking for size" => body = <<>> /\ pending = {}
  /\ Asking /\ reply # NoPacket => Expected(reply)

(* What waits for a gap to be filled are finitely many chunks behind it.   *)
GapIsOpen == IsFiniteSet(pending) /\ \A q \in pending : q.ofs > Flushed

(* As long as no packet of another log has come in between, all that has   *)
(* been received is of the log that was asked for, and what was flushed is *)
(* the beginning of it.                                                    *)
PrefixIsRight ==
  log \in Logs /\ ~stray =>
    /\ \A q \in channel \cup pending : q.id = log
    /\ Asking /\ reply # NoPacket => reply.id = log
    /\ \A q \in pending : q.type = "LOG_DATA"
    /\ Flushed <= Sizes[log]
    /\ \A i \in 1 .. Flushed : body[i] = Data(log, i - 1)
    /\ stage \in {"asking for data", "reading data"} => size = Sizes[log]
    /\ stage = "done" => Flushed = Sizes[log]

(* A list of the logs that is declared complete has all logs of the drone. *)
ListIsWhole == stage = "done" /\ log = List => found = Logs

LogInv == LogTypeOK /\ StageFits /\ GapIsOpen /\ PrefixIsRight /\ ListIsWhole

(***************************************************************************)
(* A set of numbers that is not empty has a smallest one.                  *)
(***************************************************************************)
LEMMA Least ==
  ASSUME NEW S \in SUBSET Nat, S # {}
  PROVE  Min(S) \in S /\ \A x \in S : Min(S) <= x
<1>. DEFINE Less == {ss \in Nat \X Nat : ss[1] < ss[2]}
<1>1. IsWellFoundedOn(Less, Nat)
  BY NatLessThanWellFounded DEF OpToRel
<1>2. ASSUME NEW x \in Nat, NEW y \in Nat, x < y PROVE <<x, y>> \in Less
  <2>1. <<x, y>> \in Nat \X Nat
    OBVIOUS
  <2>. QED BY <1>2, <2>1
<1>. HIDE DEF Less
<1>3. PICK m \in S : \A x \in S : ~(<<x, m>> \in Less)
  BY <1>1, WFMin
<1>4. \A x \in S : m <= x
  <2>. SUFFICES ASSUME NEW x \in S, ~(m <= x) PROVE FALSE
    OBVIOUS
  <2>1. x \in Nat /\ m \in Nat
    OBVIOUS
  <2>2. x < m
    BY <2>1
  <2>3. <<x, m>> \in Less
    BY <2>1, <2>2, <1>2
  <2>. QED BY <2>3, <1>3
<1>. QED BY <1>4 DEF Min

(***************************************************************************)
(* Packets.                                                                *)
(***************************************************************************)
LEMMA PacketKinds ==
  ASSUME NEW q \in Packets
  PROVE  /\ q.id \in Logs /\ q.ofs \in Nat
         /\ q # NoPacket
         /\ \/ q.type = "LOG_ENTRY"
            \/ q.type = "LOG_DATA" /\ q = Data(q.id, q.ofs) /\ q.ofs < Sizes[q.id]
<1>1. CASE q \in Entries
  BY <1>1 DEF Entries, Entry, NoPacket
<1>2. ASSUME NEW l \in Logs, q \in LogData(l)
      PROVE  /\ q.id \in Logs /\ q.ofs \in Nat /\ q # NoPacket
             /\ q.type = "LOG_DATA" /\ q = Data(q.id, q.ofs) /\ q.ofs < Sizes[q.id]
  <2>1. PICK o \in 0 .. Sizes[l] - 1 : q = Data(l, o)
    BY <1>2 DEF LogData
  <2>2. Sizes[l] \in Nat
    BY LogsAssumption
  <2>. QED BY <2>1, <2>2 DEF Data, NoPacket
<1>. QED BY <1>1, <1>2 DEF Packets

LEMMA PacketsOfLogs ==
  /\ Entries \subseteq Packets
  /\ \A l \in Logs : Entry(l) \in Packets /\ LogData(l) \subseteq Packets
BY DEF Packets, Entries

LEMMA LogNumbers == \A l \in Logs : l # None /\ l # List
BY LogsAssumption DEF None, List

(***************************************************************************)
(* The assembler: what is flushed by a chunk continues what was flushed    *)
(* before, unit by unit, and what waits then is behind it.                 *)
(***************************************************************************)
LEMMA AddChunkExtends ==
  ASSUME LogTypeOK, GapIsOpen, NEW p \in Packets, AddChunk(p)
  PROVE  /\ body' \in Seq(Packets) /\ Len(body') \in Nat /\ pending' \subseteq pending \cup {p}
         /\ GapIsOpen'
         /\ Len(body') >= Flushed
         /\ \A i \in 1 .. Flushed : body'[i] = body[i]
         /\ \A i \in Flushed + 1 .. Len(body') :
              body'[i] \in pending \cup {p} /\ body'[i].ofs = i - 1
<1>. USE DEF Flushed
<1>0. /\ body \in Seq(Packets) /\ Len(body) \in Nat /\ pending \subseteq Packets
      /\ IsFiniteSet(pending) /\ \A q \in pending : q.ofs > Len(body)
      /\ \A q \in pending \cup {p} : q.ofs \in Nat
  <2>1. body \in Seq(Packets) /\ pending \cup {p} \subseteq Packets
    BY DEF LogTypeOK
  <2>. QED BY <2>1, PacketKinds DEF GapIsOpen
<1>1. CASE p.ofs < Flushed
  BY <1>0, <1>1 DEF AddChunk, GapIsOpen
<1>2. CASE p.ofs > Flushed
  BY <1>0, <1>2, FS_AddElement DEF AddChunk, GapIsOpen
<1>3. CASE p.ofs = Flushed
  <2>. DEFINE chunks == pending \cup {p}
              offsets == {q.ofs : q \in chunks}
              places == Flushed + 1 .. Flushed + Cardinality(chunks) + 1
              gap == Gap(chunks)
              next == Ready(p)
  <2>0. gap = Min(places \ offsets)
    BY DEF Gap
  <2>1. body' = body \o next /\ pending' = {q \in pending : q.ofs >= gap}
    <3>1. p.ofs \in Nat /\ ~(p.ofs < Flushed) /\ ~(p.ofs > Flushed)
      BY <1>0, <1>3
    <3>. QED BY <3>1 DEF AddChunk
  <2>2. IsFiniteSet(chunks) /\ Cardinality(chunks) \in Nat
    BY <1>0, FS_AddElement, FS_CardinalityType
  <2>3. Cardinality(offsets) <= Cardinality(chunks) /\ IsFiniteSet(offsets)
    <3>. DEFINE f == [q \in chunks |-> q.ofs]
    <3>1. f \in Surjection(chunks, offsets)
      BY DEF Surjection
    <3>. QED BY <2>2, <3>1, FS_Surjection
  <2>4. places \ offsets # {}
    <3>1. Cardinality(places) = Cardinality(chunks) + 1
      <4>. DEFINE first == Flushed + 1  last == Flushed + Cardinality(chunks) + 1
      <4>1. first \in Int /\ last \in Int /\ ~(first > last)
            /\ last - first + 1 = Cardinality(chunks) + 1
        BY ONLY <1>0, <2>2 DEF Flushed
      <4>2. Cardinality(first .. last) = last - first + 1
        <5>. HIDE DEF first, last
        <5>. QED BY ONLY <4>1, FS_Interval
      <4>. QED BY <4>1, <4>2
    <3>2. Cardinality(offsets) \in Nat
      BY <2>3, FS_CardinalityType
    <3>. HIDE DEF places, offsets, chunks
    <3>3. ~(places \subseteq offsets)
      <4>1. places \subseteq offsets => Cardinality(places) <= Cardinality(offsets)
        BY <2>3, FS_Subset
      <4>. QED BY <2>2, <2>3, <3>1, <3>2, <4>1
    <3>. QED BY <3>3
  <2>5. gap \in places \ offsets /\ \A o \in places \ offsets : gap <= o
    <3>1. places \ offsets \in SUBSET Nat
      BY <1>0, <2>2
    <3>. QED BY <2>0, <2>4, <3>1, Least
  <2>6. gap \in Nat /\ gap > Flushed
    BY <1>0, <2>2, <2>5
  <2>7. ASSUME NEW i \in 1 .. gap - Flushed
        PROVE  next[i] \in chunks /\ next[i].ofs = Flushed + i - 1
    <3>1. CASE i = 1
      BY <1>0, <1>3, <2>6, <3>1 DEF Ready
    <3>2. CASE i # 1
      <4>. DEFINE o == Flushed + i - 1
      <4>0. o \in Nat /\ o > Flushed /\ o < gap
        BY <1>0, <2>6, <3>2
      <4>1. o \in offsets
        <5>1. o \in places /\ ~(gap <= o)
          BY <1>0, <2>2, <2>5, <4>0
        <5>. HIDE DEF o, places, offsets
        <5>. QED BY <2>5, <5>1
      <4>2. \E q \in pending : q.ofs = Flushed + i - 1
        BY <1>0, <1>3, <2>6, <3>2, <4>1
      <4>3. next[i] = CHOOSE q \in pending : q.ofs = Flushed + i - 1
        BY <3>2 DEF Ready
      <4>. QED BY <4>2, <4>3
    <3>. QED BY <3>1, <3>2
  <2>8. next \in Seq(Packets) /\ Len(next) = gap - Flushed
    <3>1. \A i \in 1 .. gap - Flushed : next[i] \in Packets
      BY <1>0, <2>7
    <3>2. gap - Flushed \in Nat
      BY <1>0, <2>6
    <3>3. next \in [1 .. gap - Flushed -> Packets]
      BY <3>1 DEF Ready
    <3>. HIDE DEF next, gap
    <3>. QED BY <3>2, <3>3
  <2>. HIDE DEF next, gap
  <2>9. /\ body' \in Seq(Packets) /\ Len(body') = gap
        /\ \A i \in 1 .. gap : body'[i] = IF i <= Flushed THEN body[i] ELSE next[i - Flushed]
    BY <1>0, <2>1, <2>6, <2>8, ConcatProperties
  <2>10. \A i \in Flushed + 1 .. gap : body'[i] \in chunks /\ body'[i].ofs = i - 1
    <3>. SUFFICES ASSUME NEW i \in Flushed + 1 .. gap
                  PROVE  body'[i] \in chunks /\ body'[i].ofs = i - 1
      OBVIOUS
    <3>1. i - Flushed \in 1 .. gap - Flushed
      BY <1>0, <2>6
    <3>2. body'[i] = next[i - Flushed]
      BY <1>0, <2>6, <2>9
    <3>. QED BY <1>0, <2>6, <2>7, <3>1, <3>2
  <2>11. \A q \in pending' : q.ofs > gap
    BY <1>0, <2>1, <2>5, <2>6
  <2>12. IsFiniteSet(pending')
    BY <1>0, <2>1, FS_Subset
  <2>. QED
    BY <1>0, <2>1, <2>6, <2>9, <2>10, <2>11, <2>12 DEF GapIsOpen
<1>. QED BY <1>0, <1>1, <1>2, <1>3

(***************************************************************************)
(* Requests keep the types of what they change.                            *)
(***************************************************************************)
LEMMA AskTyped ==
  ASSUME LogTypeOK, NEW packets \in SUBSET Packets, Ask(packets)
  PROVE  /\ air' \subseteq Packets /\ lost' \in BOOLEAN
         /\ reply' = NoPacket /\ tries' \in 0 .. Retries
<1>1. air' \subseteq Packets
  BY DEF LogTypeOK, Ask, Sent
<1>2. lost' \in BOOLEAN
  BY DEF LogTypeOK, Ask, Sent
<1>3. tries' \in 0 .. Retries
  BY BoundsAssumption DEF Ask
<1>. QED BY <1>1, <1>2, <1>3 DEF Ask

LEMMA NextEndIsNumber ==
  ASSUME LogTypeOK, NEW flushed \in Nat, NEW chunks \in SUBSET Packets
  PROVE  NextEnd(flushed, chunks) \in Nat
<1>. DEFINE offsets == {q.ofs : q \in chunks}
            end == IF chunks = {} THEN size ELSE Min(offsets)
<1>1. offsets \in SUBSET Nat
  BY PacketKinds
<1>2. end \in Nat
  <2>1. CASE chunks = {}
    BY <2>1 DEF LogTypeOK
  <2>2. CASE chunks # {}
    <3>1. offsets # {}
      BY <2>2
    <3>. HIDE DEF offsets
    <3>2. Min(offsets) \in Nat
      BY <1>1, <3>1, Least
    <3>. QED BY <2>2, <3>2
  <2>. QED BY <2>1, <2>2
<1>3. NextEnd(flushed, chunks) = Min({end, flushed + MaxRange})
  BY DEF NextEnd
<1>. HIDE DEF end
<1>4. {end, flushed + MaxRange} \in SUBSET Nat
  BY <1>2, BoundsAssumption
<1>5. Min({end, flushed + MaxRange}) \in {end, flushed + MaxRange}
  BY <1>4, Least
<1>. QED BY <1>3, <1>4, <1>5

LEMMA AskForDataTyped ==
  ASSUME LogTypeOK, log \in Logs, NEW flushed \in Nat, NEW chunks \in SUBSET Packets,
         AskForData(flushed, chunks)
  PROVE  /\ air' \subseteq Packets /\ lost' \in BOOLEAN
         /\ reply' = NoPacket /\ tries' \in 0 .. Retries
         /\ range' \in Nat /\ stage' = "asking for data"
<1>1. {q \in LogData(log) : q.ofs \in flushed .. range' - 1} \in SUBSET Packets
  BY PacketsOfLogs
<1>2. range' \in Nat /\ stage' = "asking for data"
  BY NextEndIsNumber DEF AskForData
<1>. QED BY <1>1, <1>2, AskTyped DEF AskForData

(***************************************************************************)
(* A chunk is taken: if it is of the log that was asked for, the beginning *)
(* of the log has become longer, or the chunk waits for what is missing.   *)
(***************************************************************************)
LEMMA TakeChunkKeeps ==
  ASSUME LogInv, NEW p \in Packets, p.type = "LOG_DATA", ~stray => p.id = log,
         stage \in {"asking for data", "reading data"}, TakeChunk(p),
         channel' \subseteq channel, UNCHANGED <<log, found, calls, stray>>
  PROVE  LogInv'
<1>. USE DEF Flushed
<1>1. LogTypeOK /\ StageFits /\ GapIsOpen /\ PrefixIsRight /\ ListIsWhole
      /\ log \in Logs
  BY DEF LogInv, StageFits
<1>2. /\ body' \in Seq(Packets) /\ Len(body') \in Nat /\ pending' \subseteq pending \cup {p}
      /\ GapIsOpen'
      /\ Len(body') >= Len(body)
      /\ \A i \in 1 .. Len(body) : body'[i] = body[i]
      /\ \A i \in Len(body) + 1 .. Len(body') :
           body'[i] \in pending \cup {p} /\ body'[i].ofs = i - 1
  BY <1>1, AddChunkExtends DEF TakeChunk
<1>3. /\ Len(body) \in Nat /\ Len(body') \in Nat
      /\ pending \subseteq Packets /\ pending' \in SUBSET Packets
  <2>1. body \in Seq(Packets) /\ pending \subseteq Packets
    BY <1>1 DEF LogTypeOK
  <2>2. Len(body) \in Nat
    BY <2>1, LenProperties
  <2>3. Len(body') \in Nat
    BY <1>2
  <2>4. pending' \in SUBSET Packets
    BY <1>2, <2>1
  <2>. QED BY <2>1, <2>2, <2>3, <2>4
<1>4. /\ air' \subseteq Packets /\ lost' \in BOOLEAN /\ tries' \in 0 .. Retries
      /\ reply' \in {reply, NoPacket} /\ range' \in Nat /\ size' = size
      /\ \/ stage' = "done" /\ Len(body') >= size
         \/ stage' = "reading data"
         \/ stage' = "asking for data" /\ reply' = NoPacket
  <2>1. ASSUME NEW outcome, Stop(outcome), UNCHANGED range
        PROVE  /\ air' \subseteq Packets /\ lost' \in BOOLEAN /\ tries' \in 0 .. Retries
               /\ reply' = reply /\ range' \in Nat /\ stage' = outcome
    BY <1>1, <2>1 DEF LogTypeOK, Stop
  <2>2. CASE AskForData(Len(body'), pending')
    BY <1>1, <1>3, <2>2, AskForDataTyped DEF TakeChunk
  <2>. QED BY <2>1, <2>2 DEF TakeChunk
<1>5. LogTypeOK'
  BY <1>1, <1>2, <1>3, <1>4 DEF LogTypeOK
<1>6. StageFits'
  BY <1>1, <1>4 DEF StageFits, Asking
<1>7. PrefixIsRight'
  <2>. DEFINE chunks == pending \cup {p}
  <2>a. PICK n \in Nat, m \in Nat : n = Len(body) /\ m = Len(body')
    BY <1>3
  <2>. SUFFICES ASSUME ~stray
                PROVE  /\ \A q \in channel' \cup pending' : q.id = log
                       /\ Asking' /\ reply' # NoPacket => reply'.id = log
                       /\ \A q \in pending' : q.type = "LOG_DATA"
                       /\ m <= Sizes[log]
                       /\ \A i \in 1 .. m : body'[i] = Data(log, i - 1)
                       /\ size' = Sizes[log]
                       /\ stage' = "done" => m = Sizes[log]
    BY <1>1, <2>a DEF PrefixIsRight
  <2>1. /\ \A q \in channel \cup pending : q.id = log
        /\ \A q \in chunks : q \in Packets /\ q.id = log /\ q.type = "LOG_DATA"
        /\ \A i \in 1 .. n : body[i] = Data(log, i - 1)
    BY <1>1, <1>3, <2>a DEF PrefixIsRight
  <2>1a. n <= Sizes[log] /\ size = Sizes[log] /\ Sizes[log] \in Nat
    BY <1>1, <2>a, LogsAssumption DEF PrefixIsRight
  <2>2. \A q \in chunks : q = Data(log, q.ofs) /\ q.ofs < Sizes[log]
    BY <2>1, PacketKinds
  <2>3. n \in Nat /\ m \in Nat /\ m >= n
    BY <1>2, <1>3, <2>a
  <2>3a. /\ \A i \in 1 .. n : body'[i] = body[i]
        /\ \A i \in n + 1 .. m : body'[i] \in chunks /\ body'[i].ofs = i - 1
    BY <1>2, <1>3, <2>a
  <2>4. size' = Sizes[log] /\ (stage' = "done" => m >= Sizes[log])
    BY <1>4, <2>a, <2>1a
  <2>5. /\ \A q \in channel' \cup pending' : q.id = log
        /\ \A q \in pending' : q.type = "LOG_DATA"
    BY <1>2, <2>1
  <2>6. Asking' /\ reply' # NoPacket => reply'.id = log
    BY <1>4 DEF Asking
  <2>. HIDE DEF chunks
  <2>7. \A i \in n + 1 .. m : body'[i] = Data(log, i - 1) /\ i - 1 < Sizes[log]
    BY <2>2, <2>3, <2>3a
  <2>8. \A i \in 1 .. m : body'[i] = Data(log, i - 1)
    <3>. SUFFICES ASSUME NEW i \in 1 .. m
                  PROVE  body'[i] = Data(log, i - 1)
      OBVIOUS
    <3>0. i \in 1 .. m
      OBVIOUS
    <3>1. i \in 1 .. n \/ i \in n + 1 .. m
      BY ONLY <2>3, <3>0
    <3>. QED BY <2>1, <2>3, <2>3a, <2>7, <3>1
  <2>9. m <= Sizes[log]
    <3>1. CASE m = n
      BY ONLY <2>1a, <3>1
    <3>2. CASE m # n
      <4>1. m \in n + 1 .. m
        BY ONLY <2>3, <3>2
      <4>2. m - 1 < Sizes[log]
        BY <2>7, <4>1
      <4>. QED BY ONLY <2>1a, <2>3, <4>2
    <3>. QED BY <3>1, <3>2
  <2>10. stage' = "done" => m = Sizes[log]
    BY ONLY <2>1a, <2>3, <2>4, <2>9
  <2>. QED BY <2>4, <2>5, <2>6, <2>8, <2>9, <2>10
<1>8. ListIsWhole'
  BY <1>1, LogNumbers DEF ListIsWhole
<1>. QED BY <1>2, <1>5, <1>6, <1>7, <1>8 DEF LogInv

(***************************************************************************)
(* The steps.                                                              *)
(***************************************************************************)
LEMMA GetLogListKeeps ==
  ASSUME LogInv, GetLogList
  PROVE  LogInv'
<1>. USE DEF LogInv
<1>1. LogTypeOK'
  <2>1. air' \subseteq Packets
    BY PacketsOfLogs DEF LogTypeOK, GetLogList
  <2>a. calls \in 0 .. MaxCalls /\ calls < MaxCalls /\ calls' = calls + 1 /\ tries' = Retries
    BY DEF LogTypeOK, GetLogList
  <2>2. tries' \in 0 .. Retries /\ calls' \in 0 .. MaxCalls
    BY ONLY <2>a, BoundsAssumption
  <2>. QED BY <2>1, <2>2 DEF LogTypeOK, GetLogList, assembler
<1>2. StageFits' /\ ListIsWhole'
  BY DEF StageFits, ListIsWhole, GetLogList, Asking
<1>3. GapIsOpen'
  BY DEF GapIsOpen, GetLogList, Flushed, assembler
<1>4. PrefixIsRight'
  BY LogNumbers DEF PrefixIsRight, GetLogList
<1>. QED BY <1>1, <1>2, <1>3, <1>4

LEMMA GetLogKeeps ==
  ASSUME LogInv, NEW l \in Logs, GetLog(l)
  PROVE  LogInv'
<1>. USE DEF LogInv
<1>1. LogTypeOK'
  <2>1. /\ air' \subseteq Packets /\ lost' \in BOOLEAN
        /\ reply' = NoPacket /\ tries' \in 0 .. Retries
    BY PacketsOfLogs, AskTyped DEF GetLog
  <2>a. calls \in 0 .. MaxCalls /\ calls < MaxCalls /\ calls' = calls + 1
    BY DEF LogTypeOK, GetLog
  <2>2. calls' \in 0 .. MaxCalls
    BY ONLY <2>a, BoundsAssumption
  <2>3. /\ log' \in Logs /\ stage' = "asking for size" /\ channel' = {}
        /\ size' = 0 /\ range' = 0 /\ pending' = {} /\ stray' = FALSE /\ UNCHANGED found
    BY DEF GetLog
  <2>4. body' \in Seq(Packets)
    <3>1. body' = <<>>
      BY DEF GetLog
    <3>. QED BY <3>1, EmptySeq
  <2>. QED BY <2>1, <2>2, <2>3, <2>4 DEF LogTypeOK
<1>2. StageFits' /\ ListIsWhole'
  BY DEF StageFits, ListIsWhole, GetLog, Ask, Asking
<1>3. GapIsOpen'
  BY FS_EmptySet DEF GapIsOpen, GetLog
<1>4. Flushed' = 0
  BY DEF GetLog, Flushed
<1>5. Flushed' <= Sizes[l] /\ \A i \in 1 .. Flushed' : FALSE
  BY <1>4, LogsAssumption
<1>6. PrefixIsRight'
  BY <1>5 DEF PrefixIsRight, GetLog, Ask
<1>. QED BY <1>1, <1>2, <1>3, <1>6

LEMMA TakeEntryKeeps ==
  ASSUME LogInv, log = List, NEW p \in Packets, TakeEntry(p), channel' \subseteq channel,
         UNCHANGED <<log, calls, stray>>
  PROVE  LogInv'
<1>. USE DEF LogInv
<1>1. /\ found' \subseteq Logs
      /\ \/ stage' = "done" /\ Cardinality(found') >= Cardinality(Logs)
         \/ stage' = "reading list"
      /\ UNCHANGED <<air, reply, tries, lost, size, body, pending, range>>
  BY PacketKinds DEF TakeEntry, Stop, assembler, LogTypeOK
<1>2. LogTypeOK'
  BY <1>1 DEF LogTypeOK
<1>3. StageFits'
  BY <1>1 DEF StageFits, Asking
<1>4. GapIsOpen'
  BY <1>1 DEF GapIsOpen, Flushed
<1>5. PrefixIsRight'
  BY LogNumbers DEF PrefixIsRight
<1>6. ListIsWhole'
  <2>1. IsFiniteSet(Logs) /\ IsFiniteSet(found')
    BY <1>1, LogsAssumption, FS_Subset
  <2>2. Cardinality(found') \in Nat /\ Cardinality(Logs) \in Nat
    BY <2>1, FS_CardinalityType
  <2>3. /\ Cardinality(found') <= Cardinality(Logs)
        /\ Cardinality(Logs) = Cardinality(found') => Logs = found'
    BY <1>1, <2>1, FS_Subset
  <2>. QED BY <1>1, <2>2, <2>3 DEF ListIsWhole
<1>. QED BY <1>2, <1>3, <1>4, <1>5, <1>6

LEMMA SizeReplyKeeps ==
  ASSUME LogInv, SizeReply
  PROVE  LogInv'
<1>. USE DEF LogInv
<1>1. /\ stage = "asking for size" /\ log \in Logs /\ body = <<>> /\ pending = {}
      /\ reply \in Packets /\ reply # NoPacket
  BY DEF SizeReply, StageFits, LogTypeOK
<1>2. /\ size' = Sizes[reply.id] /\ size' \in Nat
      /\ UNCHANGED <<log, channel, found, body, pending, calls, stray>>
  BY <1>1, PacketKinds, LogsAssumption DEF SizeReply
<1>3. /\ air' \subseteq Packets /\ lost' \in BOOLEAN /\ tries' \in 0 .. Retries
      /\ range' \in Nat
      /\ \/ stage' = "done" /\ size' = 0 /\ reply' = reply
         \/ stage' = "asking for data" /\ reply' = NoPacket
  <2>1. CASE size' = 0 /\ Stop("done") /\ UNCHANGED range
    BY <2>1 DEF Stop, LogTypeOK
  <2>2. CASE /\ stage' = "asking for data" /\ range' = Min({size', MaxRange})
             /\ Ask({q \in LogData(log) : q.ofs < range'})
    <3>1. {q \in LogData(log) : q.ofs < range'} \in SUBSET Packets
      BY <1>1, PacketsOfLogs
    <3>2. {size', MaxRange} \in SUBSET Nat /\ {size', MaxRange} # {}
      BY <1>2, BoundsAssumption
    <3>3. range' \in Nat
      BY <2>2, <3>2, Least
    <3>. QED BY <2>2, <3>1, <3>3, AskTyped
  <2>. QED BY <2>1, <2>2 DEF SizeReply
<1>4. LogTypeOK'
  BY <1>1, <1>2, <1>3 DEF LogTypeOK
<1>5. StageFits' /\ ListIsWhole'
  BY <1>1, <1>2, <1>3, LogNumbers DEF StageFits, ListIsWhole, Asking
<1>6. GapIsOpen'
  BY <1>2 DEF GapIsOpen, Flushed
<1>7. Flushed = 0 /\ Flushed' = 0
  BY <1>1, <1>2 DEF Flushed
<1>8. ~stray => size' = Sizes[log]
  BY <1>1, <1>2 DEF PrefixIsRight, Asking
<1>9. PrefixIsRight'
  BY <1>1, <1>2, <1>3, <1>7, <1>8 DEF PrefixIsRight, Asking
<1>. QED BY <1>4, <1>5, <1>6, <1>9

LEMMA RequestKeeps ==
  ASSUME LogInv, Asking \/ stage = "reading data",
         air' \subseteq Packets, lost' \in BOOLEAN, tries' \in 0 .. Retries, range' \in Nat,
         reply' \in {reply, NoPacket},
         \/ stage' \in {stage, "failed"}
         \/ stage = "reading data" /\ stage' = "asking for data" /\ reply' = NoPacket,
         UNCHANGED <<log, channel, found, size, body, pending, calls, stray>>
  PROVE  LogInv'
<1>. USE DEF LogInv
<1>1. LogTypeOK'
  BY DEF LogTypeOK
<1>2. StageFits' /\ ListIsWhole'
  BY DEF StageFits, ListIsWhole, Asking, Expected
<1>3. GapIsOpen'
  BY DEF GapIsOpen, Flushed
<1>4. PrefixIsRight'
  BY DEF PrefixIsRight, Asking, Flushed
<1>. QED BY <1>1, <1>2, <1>3, <1>4

LEMMA ArriveKeeps ==
  ASSUME LogInv, NEW p \in air, Arrive(p)
  PROVE  LogInv'
<1>. USE DEF LogInv
<1>1. /\ p \in Packets /\ air' \subseteq Packets /\ channel' \subseteq channel \cup {p}
      /\ \/ reply' = reply
         \/ reply' = p /\ Expected(p)
      /\ stray' \in BOOLEAN /\ (~stray' => ~stray /\ (log \in Logs => p.id = log))
      /\ UNCHANGED <<log, stage, tries, size, body, pending, range, found, calls, lost>>
  BY DEF Arrive, assembler, LogTypeOK
<1>2. LogTypeOK'
  BY <1>1 DEF LogTypeOK
<1>3. StageFits' /\ ListIsWhole'
  BY <1>1 DEF StageFits, ListIsWhole, Asking, Expected
<1>4. GapIsOpen'
  BY <1>1 DEF GapIsOpen, Flushed
<1>5. PrefixIsRight'
  <2>1. Flushed' = Flushed
    BY <1>1 DEF Flushed
  <2>2. SUFFICES ASSUME log \in Logs, ~stray, p.id = log
                 PROVE  PrefixIsRight'
    BY <1>1 DEF PrefixIsRight
  <2>3. \A q \in channel' \cup pending' : q.id = log
    BY <1>1, <2>2 DEF PrefixIsRight
  <2>4. Asking' /\ reply' # NoPacket => reply'.id = log
    BY <1>1, <2>2 DEF PrefixIsRight, Asking
  <2>. QED BY <1>1, <2>1, <2>2, <2>3, <2>4 DEF PrefixIsRight
<1>. QED BY <1>2, <1>3, <1>4, <1>5

LEMMA LogStepKeeps ==
  ASSUME LogInv, [LogNext]_logVars
  PROVE  LogInv'
<1>1. /\ LogTypeOK /\ StageFits /\ PrefixIsRight
      /\ tries \in 0 .. Retries /\ lost \in BOOLEAN /\ air \subseteq Packets
      /\ range \in Nat /\ channel \subseteq Packets
  BY DEF LogInv, LogTypeOK
<1>2. ASSUME NEW outcome, Stop(outcome), LogTypeOK
      PROVE  /\ air' \subseteq Packets /\ lost' \in BOOLEAN /\ tries' \in 0 .. Retries
             /\ reply' = reply /\ stage' = outcome
  BY <1>2 DEF Stop, LogTypeOK
<1>3. CASE GetLogList
  BY <1>3, GetLogListKeeps
<1>4. ASSUME NEW l \in Logs, GetLog(l) PROVE LogInv'
  BY <1>4, GetLogKeeps
<1>5. CASE ListReply
  <2>1. reply \in Packets /\ log = List
    BY <1>1, <1>5 DEF ListReply, LogTypeOK, StageFits
  <2>2. TakeEntry(reply) /\ UNCHANGED <<log, channel, calls, stray>>
    BY <1>5 DEF ListReply
  <2>. QED BY <2>1, <2>2, TakeEntryKeeps
<1>6. CASE SizeReply
  BY <1>6, SizeReplyKeeps
<1>7. CASE DataReply
  <2>1. /\ reply \in Packets /\ reply.type = "LOG_DATA" /\ (~stray => reply.id = log)
        /\ stage = "asking for data" /\ TakeChunk(reply)
        /\ UNCHANGED <<log, channel, found, calls, stray>>
    BY <1>1, <1>7 DEF DataReply, LogTypeOK, StageFits, PrefixIsRight, Asking, Expected
  <2>. QED BY <2>1, TakeChunkKeeps
<1>8. ASSUME NEW p \in channel, ReadEntry(p) PROVE LogInv'
  <2>1. /\ p \in Packets /\ log = List /\ channel' \subseteq channel
        /\ UNCHANGED <<log, calls, stray>>
    BY <1>1, <1>8 DEF ReadEntry, StageFits
  <2>2. CASE TakeEntry(p)
    BY <2>1, <2>2, TakeEntryKeeps
  <2>3. CASE UNCHANGED <<air, stage, tries, reply, found, assembler, lost>>
    BY <2>1, <2>3, LogNumbers
    DEF LogInv, LogTypeOK, StageFits, GapIsOpen, PrefixIsRight, ListIsWhole, assembler,
        Asking, Expected, Flushed
  <2>. QED BY <1>8, <2>2, <2>3 DEF ReadEntry
<1>9. ASSUME NEW p \in channel, ReadChunk(p) PROVE LogInv'
  <2>1. /\ p \in Packets /\ stage = "reading data" /\ channel' \subseteq channel
        /\ (~stray => p.id = log) /\ UNCHANGED <<log, found, calls, stray>>
    BY <1>1, <1>9 DEF ReadChunk, StageFits, PrefixIsRight
  <2>2. CASE p.type = "LOG_DATA" /\ TakeChunk(p)
    BY <2>1, <2>2, TakeChunkKeeps
  <2>3. CASE UNCHANGED <<air, stage, tries, reply, assembler, lost>>
    BY <2>1, <2>3
    DEF LogInv, LogTypeOK, StageFits, GapIsOpen, PrefixIsRight, ListIsWhole, assembler,
        Asking, Expected, Flushed
  <2>. QED BY <1>9, <2>2, <2>3 DEF ReadChunk
<1>10. CASE ReadTimeout
  <2>1. /\ stage = "reading data" /\ log \in Logs /\ AskForData(Flushed, pending)
        /\ UNCHANGED <<log, channel, found, size, body, pending, calls, stray>>
    BY <1>1, <1>10 DEF ReadTimeout, Silent, StageFits
  <2>2. body \in Seq(Packets) /\ pending \in SUBSET Packets
    BY <1>1 DEF LogTypeOK
  <2>3. Flushed \in Nat
    BY <2>2, LenProperties DEF Flushed
  <2>4. /\ air' \subseteq Packets /\ lost' \in BOOLEAN
        /\ reply' = NoPacket /\ tries' \in 0 .. Retries
        /\ range' \in Nat /\ stage' = "asking for data"
    BY <1>1, <2>1, <2>2, <2>3, AskForDataTyped
  <2>. QED BY <2>1, <2>4, RequestKeeps
<1>11. CASE ReplyTimeout
  <2>1. /\ Asking /\ UNCHANGED <<log, channel, found, calls, stray>>
        /\ UNCHANGED <<size, body, pending, range>>
    BY <1>11 DEF ReplyTimeout, assembler
  <2>2. CASE Again /\ tries' = tries - 1 /\ Sent(Requested) /\ UNCHANGED <<stage, reply>>
    <3>1. Requested \subseteq Packets
      BY <1>1, <2>1, PacketsOfLogs DEF Requested, Asking, StageFits
    <3>2. air' \subseteq Packets /\ lost' \in BOOLEAN
      BY <1>1, <2>2, <3>1 DEF Sent
    <3>3. tries' \in 0 .. Retries
      BY ONLY <1>1, <2>2, BoundsAssumption DEF Again
    <3>. QED BY <1>1, <2>1, <2>2, <3>2, <3>3, RequestKeeps DEF Asking
  <2>3. CASE Stop("failed")
    BY <1>1, <1>2, <2>1, <2>3, RequestKeeps DEF Asking
  <2>. QED BY <1>11, <2>2, <2>3 DEF ReplyTimeout
<1>12. CASE End \/ Cancel
  <2>1. /\ log' = None /\ channel' = {} /\ stage' \in {stage, "idle"}
        /\ (stage' = stage => ~Asking /\ stage \in {"done", "failed"})
        /\ reply' \in {reply, NoPacket}
        /\ UNCHANGED <<air, tries, found, size, body, pending, range, calls, lost, stray>>
    BY <1>12 DEF End, Cancel, Asking, Busy, assembler, history
  <2>2. LogTypeOK'
    BY <1>1, <2>1 DEF LogTypeOK
  <2>3. StageFits'
    BY <1>1, <2>1 DEF StageFits, Asking
  <2>4. GapIsOpen'
    BY <2>1 DEF LogInv, GapIsOpen, Flushed
  <2>a. None # List
    BY DEF None, List
  <2>5. PrefixIsRight' /\ ListIsWhole'
    BY <2>1, <2>a, LogNumbers DEF PrefixIsRight, ListIsWhole
  <2>. QED BY <2>2, <2>3, <2>4, <2>5 DEF LogInv
<1>13. ASSUME NEW p \in air, Arrive(p) PROVE LogInv'
  BY <1>13, ArriveKeeps
<1>14. CASE /\ air' \subseteq air /\ lost' \in BOOLEAN
            /\ UNCHANGED <<log, stage, tries, reply, channel, found, assembler, calls, stray>>
  BY <1>14
  DEF LogInv, LogTypeOK, StageFits, GapIsOpen, PrefixIsRight, ListIsWhole, assembler,
      Asking, Expected, Flushed
<1>15. ASSUME NEW p \in air, Lose(p) PROVE LogInv'
  BY <1>1, <1>14, <1>15 DEF Lose
<1>16. CASE UNCHANGED logVars
  BY <1>1, <1>14, <1>16 DEF logVars, assembler
<1>. QED
  BY <1>3, <1>4, <1>5, <1>6, <1>7, <1>8, <1>9, <1>10, <1>11, <1>12, <1>13, <1>15, <1>16
  DEF LogNext

LEMMA LogInitInv == LogInit => LogInv
<1>. SUFFICES ASSUME LogInit PROVE LogInv
  OBVIOUS
<1>1. LogTypeOK
  <2>1. 0 \in 0 .. Retries /\ 0 \in 0 .. MaxCalls
    BY BoundsAssumption
  <2>2. <<>> \in Seq(Packets)
    BY EmptySeq
  <2>. QED BY <2>1, <2>2 DEF LogInit, LogTypeOK
<1>2. StageFits /\ GapIsOpen /\ PrefixIsRight /\ ListIsWhole
  BY LogNumbers, FS_EmptySet
  DEF LogInit, StageFits, GapIsOpen, PrefixIsRight, ListIsWhole, Asking
<1>. QED BY <1>1, <1>2 DEF LogInv

LEMMA LogInvariant == LogSpec => []LogInv
BY LogInitInv, LogStepKeeps, PTL DEF LogSpec

(***************************************************************************)
(* Whatever arrives, and whenever, the future of a request, the chunk      *)
(* assembler and the list (_get_log_inner(), _get_log_list_inner()) hold   *)
(* only what they may hold.                                                *)
(***************************************************************************)
THEOREM LogTypeCorrect == LogSpec => []LogTypeOK
BY LogInvariant, PTL DEF LogInv

(***************************************************************************)
(* A log that _get_log_inner() declares downloaded is the log that was     *)
(* asked for, whole and in order, unless a packet of another log has       *)
(* reached the download: by the prefix that the chunk assembler has        *)
(* flushed, whatever was lost, late or asked for twice.                    *)
(***************************************************************************)
THEOREM DownloadIsRight == LogSpec => []LogIsRight
<1>1. LogInv => LogIsRight
  <2>. SUFFICES ASSUME LogInv, stage = "done", log \in Logs, ~stray
                PROVE  body = [i \in 1 .. Sizes[log] |-> Data(log, i - 1)]
    BY DEF LogIsRight
  <2>1. body \in Seq(Packets)
    BY DEF LogInv, LogTypeOK
  <2>2. body \in [1 .. Len(body) -> Packets]
    BY <2>1, LenProperties
  <2>3. /\ Len(body) = Sizes[log]
        /\ \A i \in 1 .. Len(body) : body[i] = Data(log, i - 1)
    BY DEF LogInv, PrefixIsRight, Flushed
  <2>. QED BY <2>2, <2>3
<1>. QED BY <1>1, LogInvariant, PTL

(***************************************************************************)
(* A list that _get_log_list_inner() declares complete has all logs of the *)
(* drone.                                                                  *)
(***************************************************************************)
THEOREM ListingIsWhole == LogSpec => []ListIsWhole
BY LogInvariant, PTL DEF LogInv

(***************************************************************************)
(* The abstract transfer.  What was gathered for a job is the list or the  *)
(* beginning of the log; a step that gathers something leaves the job open *)
(* exactly if something is missing.  For this, no request goes beyond the  *)
(* end of the log: otherwise the loop that reads a range could wait for    *)
(* more when the log is whole.                                             *)
(***************************************************************************)
RangeFits ==
  log \in Logs /\ ~stray /\ stage \in {"asking for data", "reading data"} =>
    range <= Sizes[log]

LEMMA NextEndIsInside ==
  ASSUME LogTypeOK, NEW flushed \in Nat, NEW chunks \in SUBSET Packets,
         \A q \in chunks : q.ofs <= size
  PROVE  NextEnd(flushed, chunks) <= size
<1>. DEFINE offsets == {q.ofs : q \in chunks}
            end == IF chunks = {} THEN size ELSE Min(offsets)
<1>1. offsets \in SUBSET Nat /\ size \in Nat
  BY PacketKinds DEF LogTypeOK
<1>2. end \in Nat /\ end <= size
  <2>1. CASE chunks = {}
    BY <1>1, <2>1
  <2>2. CASE chunks # {}
    <3>1. offsets # {} /\ \A o \in offsets : o <= size
      BY <2>2
    <3>. HIDE DEF offsets
    <3>2. Min(offsets) \in offsets
      BY <1>1, <3>1, Least
    <3>. QED BY <1>1, <2>2, <3>1, <3>2
  <2>. QED BY <2>1, <2>2
<1>3. NextEnd(flushed, chunks) = Min({end, flushed + MaxRange})
  BY DEF NextEnd
<1>. HIDE DEF end
<1>. DEFINE ends == {end, flushed + MaxRange}
<1>4. ends \in SUBSET Nat /\ end \in ends
  BY <1>2, BoundsAssumption
<1>. HIDE DEF ends
<1>5. Min(ends) \in Nat /\ Min(ends) <= end
  BY <1>4, Least
<1>6. Min(ends) <= size
  BY ONLY <1>1, <1>2, <1>5
<1>. QED BY <1>3, <1>6 DEF ends

(* As long as all chunks are of the log, the next request is inside of it. *)
LEMMA AskForDataInside ==
  ASSUME LogInv, log \in Logs, ~stray, stage \in {"asking for data", "reading data"},
         NEW flushed \in Nat, NEW chunks \in SUBSET Packets,
         \A q \in chunks : q.id = log /\ q.type = "LOG_DATA",
         AskForData(flushed, chunks)
  PROVE  range' <= Sizes[log]
<1>1. LogTypeOK /\ size = Sizes[log] /\ size \in Nat
  BY DEF LogInv, LogTypeOK, PrefixIsRight
<1>2. ASSUME NEW q \in chunks PROVE q.ofs <= size
  <2>1. q.ofs \in Nat /\ q.ofs < Sizes[log]
    BY PacketKinds
  <2>. QED BY ONLY <1>1, <2>1
<1>3. NextEnd(flushed, chunks) <= size
  BY <1>1, <1>2, NextEndIsInside
<1>. QED BY <1>1, <1>3 DEF AskForData

LEMMA RangeStepFits ==
  ASSUME LogInv, LogInv', RangeFits, [LogNext]_logVars
  PROVE  RangeFits'
<1>. SUFFICES ASSUME log' \in Logs, ~stray', stage' \in {"asking for data", "reading data"}
              PROVE  range' <= Sizes[log']
  BY DEF RangeFits
<1>t. LogTypeOK /\ body \in Seq(Packets) /\ Flushed \in Nat /\ pending \in SUBSET Packets
  BY LenProperties DEF LogInv, LogTypeOK, Flushed
<1>s. log \in Logs /\ ~stray => \A q \in pending : q.id = log /\ q.type = "LOG_DATA"
  BY DEF LogInv, PrefixIsRight
<1>1. CASE /\ UNCHANGED <<log, range>> /\ (~stray' => ~stray)
           /\ (stage' \in {"asking for data", "reading data"} => stage \in {"asking for data", "reading data"})
  BY <1>1 DEF RangeFits
<1>2. CASE GetLogList \/ \E l \in Logs : GetLog(l)
  BY <1>2 DEF GetLogList, GetLog
<1>3. CASE ListReply
  BY <1>3 DEF ListReply, TakeEntry, Stop
<1>4. CASE SizeReply
  <2>1. size' \in Nat /\ size' = Sizes[log'] /\ log' = log
    BY <1>4 DEF LogInv, LogTypeOK, PrefixIsRight, SizeReply
  <2>2. range' = Min({size', MaxRange})
    BY <1>4 DEF SizeReply, Stop
  <2>3. {size', MaxRange} \in SUBSET Nat /\ size' \in {size', MaxRange}
    BY <2>1, BoundsAssumption
  <2>. QED BY <2>1, <2>2, <2>3, Least
<1>5. ASSUME NEW p, TakeChunk(p), UNCHANGED <<log, stray>>,
             stage \in {"asking for data", "reading data"}
      PROVE  range' <= Sizes[log']
  <2>1. CASE UNCHANGED range
    BY <1>5, <2>1 DEF RangeFits
  <2>2. CASE AskForData(Len(body'), pending')
    <3>1. Len(body') \in Nat /\ pending' \in SUBSET Packets
      BY LenProperties DEF LogInv, LogTypeOK
    <3>2. \A q \in pending' : q.id = log /\ q.type = "LOG_DATA"
      BY <1>5 DEF LogInv, PrefixIsRight
    <3>. QED BY <1>5, <2>2, <3>1, <3>2, AskForDataInside
  <2>. QED BY <1>5, <2>1, <2>2 DEF TakeChunk
<1>6. CASE DataReply
  BY <1>5, <1>6 DEF DataReply
<1>7. ASSUME NEW p \in channel, ReadEntry(p) PROVE range' <= Sizes[log']
  BY <1>7 DEF ReadEntry, TakeEntry, Stop
<1>8. ASSUME NEW p \in channel, ReadChunk(p) PROVE range' <= Sizes[log']
  BY <1>1, <1>5, <1>8 DEF ReadChunk, assembler
<1>9. CASE ReadTimeout
  <2>1. /\ log \in Logs /\ ~stray /\ stage = "reading data" /\ log' = log
        /\ AskForData(Flushed, pending)
    BY <1>9 DEF ReadTimeout, Silent
  <2>. QED BY <1>t, <1>s, <2>1, AskForDataInside
<1>10. CASE ReplyTimeout
  BY <1>1, <1>10 DEF ReplyTimeout, Stop, assembler
<1>11. CASE End \/ Cancel
  BY <1>11, LogNumbers DEF End, Cancel
<1>12. ASSUME NEW p \in air, Arrive(p) \/ Lose(p) PROVE range' <= Sizes[log']
  BY <1>1, <1>12 DEF Arrive, Lose, assembler
<1>13. CASE UNCHANGED logVars
  BY <1>1, <1>13 DEF logVars, assembler
<1>. QED BY <1>2, <1>3, <1>4, <1>6, <1>7, <1>8, <1>9, <1>10, <1>11, <1>12, <1>13 DEF LogNext

(* What is seen of a job does not change.                                  *)
LEMMA NothingSeen ==
  ASSUME UNCHANGED <<log, Outcome, Gathered, Spoiled>>
  PROVE  UNCHANGED Transfer!vars
BY DEF Transfer!vars

LEMMA TakeEntryGathers ==
  ASSUME LogInv, log = List, NEW p \in Packets, TakeEntry(p), UNCHANGED <<log, stray>>,
         stage \notin {"done", "failed"}
  PROVE  Transfer!Next
<1>1. found \subseteq Logs /\ found' \subseteq Logs /\ found \subseteq found'
  BY PacketKinds DEF TakeEntry, LogInv, LogTypeOK
<1>2. IsFiniteSet(Logs) /\ IsFiniteSet(found) /\ IsFiniteSet(found')
  BY <1>1, LogsAssumption, FS_Subset
<1>3. Cardinality(found) \in Nat /\ Cardinality(found') \in Nat /\ Cardinality(Logs) \in Nat
  BY <1>2, FS_CardinalityType
<1>4. Cardinality(found) <= Cardinality(found') /\ Cardinality(found') <= Cardinality(Logs)
  BY <1>1, <1>2, FS_Subset
<1>5. stage' = IF Cardinality(found') >= Cardinality(Logs) THEN "done" ELSE "reading list"
  BY DEF TakeEntry, Stop
<1>6. None # List /\ List \notin Logs
  BY LogNumbers DEF None, List
<1>7. /\ Outcome = "open" /\ ~Spoiled /\ Spoiled' = Spoiled
      /\ Gathered = Cardinality(found) /\ Gathered' = Cardinality(found')
  BY <1>6 DEF Outcome, Spoiled, Gathered
<1>8. Outcome' = IF Cardinality(found') = Cardinality(Logs) THEN "done" ELSE "open"
  <2>1. Cardinality(found') >= Cardinality(Logs) <=> Cardinality(found') = Cardinality(Logs)
    BY ONLY <1>3, <1>4
  <2>. QED BY <1>5, <1>6, <2>1 DEF Outcome
<1>9. Whole[log] = Cardinality(Logs)
  BY DEF Whole
<1>10. Gathered' \in Gathered .. Whole[log]
  BY <1>3, <1>4, <1>7, <1>9
<1>11. Transfer!Gather
  BY <1>7, <1>8, <1>9, <1>10 DEF Transfer!Gather
<1>. QED BY <1>11 DEF Transfer!Next

(* The end of a download for which nothing is promised.                    *)
LEMMA SpoiledEnds ==
  ASSUME log \in Logs, stray, UNCHANGED <<log, stray>>, stage \notin {"done", "failed"},
         stage' # "failed"
  PROVE  Transfer!Next \/ UNCHANGED Transfer!vars
<1>1. log # None /\ log # List
  BY LogNumbers
<1>2. /\ Outcome = "open" /\ Spoiled /\ Spoiled' = Spoiled /\ Gathered' = Gathered
      /\ Outcome' = IF stage' = "done" THEN "done" ELSE "open"
  BY <1>1 DEF Outcome, Spoiled, Gathered
<1>3. CASE stage' = "done"
  BY <1>2, <1>3 DEF Transfer!Next, Transfer!DoneSpoiled
<1>4. CASE stage' # "done"
  BY <1>2, <1>4, NothingSeen
<1>. QED BY <1>3, <1>4

(* A download goes on as it should.                                        *)
LEMMA DownloadGathers ==
  ASSUME log \in Logs, ~stray, UNCHANGED <<log, stray>>, stage \notin {"done", "failed"},
         stage' # "failed", Flushed \in Nat, Flushed' \in Flushed .. Sizes[log],
         stage' = "done" <=> Flushed' = Sizes[log]
  PROVE  Transfer!Next
<1>1. log # None /\ log # List
  BY LogNumbers
<1>2. /\ Outcome = "open" /\ ~Spoiled /\ Spoiled' = Spoiled
      /\ Gathered = Flushed /\ Gathered' = Flushed'
      /\ Outcome' = IF stage' = "done" THEN "done" ELSE "open"
  BY <1>1 DEF Outcome, Spoiled, Gathered
<1>3. Whole[log] = Sizes[log]
  BY <1>1 DEF Whole
<1>4. Transfer!Gather
  BY <1>2, <1>3 DEF Transfer!Gather
<1>. QED BY <1>4 DEF Transfer!Next

LEMMA TakeChunkGathers ==
  ASSUME LogInv, LogInv', RangeFits, NEW p \in Packets, TakeChunk(p),
         stage \in {"asking for data", "reading data"}, UNCHANGED <<log, stray>>
  PROVE  Transfer!Next \/ UNCHANGED Transfer!vars
<1>1. log \in Logs /\ LogTypeOK /\ LogTypeOK' /\ GapIsOpen
  BY DEF LogInv, StageFits
<1>2. Flushed \in Nat /\ Flushed' \in Nat /\ Flushed' >= Flushed
  BY <1>1, AddChunkExtends, LenProperties DEF TakeChunk, LogTypeOK, Flushed
<1>3. stage' \in {"done", "reading data", "asking for data"}
  BY DEF TakeChunk, Stop, AskForData
<1>4. CASE stray
  BY <1>1, <1>3, <1>4, SpoiledEnds
<1>5. CASE ~stray
  <2>1. Flushed' <= Sizes[log] /\ (stage' = "done" => Flushed' = Sizes[log])
    BY <1>1, <1>5 DEF LogInv, PrefixIsRight
  <2>2. size = Sizes[log] /\ range <= Sizes[log] /\ size \in Nat /\ range \in Nat
    BY <1>1, <1>5 DEF LogInv, PrefixIsRight, RangeFits, LogTypeOK
  <2>3. \/ stage' = "done"
        \/ Flushed' < range
        \/ Flushed' < size
    BY DEF TakeChunk, Stop, Flushed
  <2>4. stage' # "done" => Flushed' # Sizes[log]
    BY ONLY <1>2, <2>2, <2>3
  <2>5. Flushed' \in Flushed .. Sizes[log]
    BY ONLY <1>2, <2>1, <2>2
  <2>. QED BY <1>1, <1>2, <1>3, <1>5, <2>1, <2>4, <2>5, DownloadGathers
<1>. QED BY <1>4, <1>5

(* Every step of the downloader is one of the abstract transfer, or is not *)
(* seen in it.                                                             *)
LEMMA TransferStep ==
  ASSUME LogInv, LogInv', RangeFits, [LogNext]_logVars
  PROVE  Transfer!Next \/ UNCHANGED Transfer!vars
<1>. DEFINE Goal == Transfer!Next \/ UNCHANGED Transfer!vars
<1>t. /\ LogTypeOK /\ StageFits /\ reply \in Packets \cup {NoPacket} /\ channel \subseteq Packets
      /\ log \in Logs \cup {None, List}
  BY DEF LogInv, LogTypeOK
<1>n. None # List /\ List \notin Logs /\ None \notin Logs
  BY LogNumbers DEF None, List
<1>s. CASE /\ UNCHANGED <<log, stray, body, found>>
           /\ stage' = stage \/ (stage \notin {"done", "failed"} /\ stage' \notin {"done", "failed"})
  <2>1. UNCHANGED <<Outcome, Gathered, Spoiled>>
    BY <1>s DEF Outcome, Gathered, Spoiled, Flushed
  <2>. QED BY <1>s, <2>1, NothingSeen
<1>1. CASE GetLogList
  <2>1. log = None /\ log' = List /\ Outcome' = "open" /\ Gathered' = 0 /\ Spoiled' = FALSE
    BY <1>1, <1>n, FS_EmptySet DEF GetLogList, Outcome, Gathered, Spoiled
  <2>2. List \in DOMAIN Whole
    BY DEF Whole
  <2>. QED BY <2>1, <2>2 DEF Transfer!Next, Transfer!Begin
<1>2. ASSUME NEW l \in Logs, GetLog(l) PROVE Goal
  <2>1. log = None /\ log' = l /\ Outcome' = "open" /\ Gathered' = 0 /\ Spoiled' = FALSE
    BY <1>2, <1>n DEF GetLog, Outcome, Gathered, Spoiled, Flushed
  <2>2. l \in DOMAIN Whole
    BY DEF Whole
  <2>. QED BY <2>1, <2>2 DEF Transfer!Next, Transfer!Begin
<1>3. CASE ListReply
  <2>1. reply \in Packets /\ log = List /\ stage \notin {"done", "failed"}
    BY <1>t, <1>3 DEF ListReply, StageFits
  <2>. QED BY <1>3, <2>1, TakeEntryGathers DEF ListReply
<1>4. CASE SizeReply
  <2>1. /\ stage = "asking for size" /\ log \in Logs /\ body = <<>> /\ reply # NoPacket
        /\ UNCHANGED <<log, stray, body, found>>
    BY <1>t, <1>4 DEF SizeReply, StageFits
  <2>2. stage' \in {"done", "asking for data"}
    BY <1>4 DEF SizeReply, Stop
  <2>3. CASE stray
    BY <2>1, <2>2, <2>3, SpoiledEnds
  <2>4. CASE stage' # "done"
    BY <1>s, <2>1, <2>2, <2>4
  <2>5. CASE ~stray /\ stage' = "done"
    <3>1. size' = 0 /\ size' = Sizes[reply.id]
      BY <1>4, <2>5 DEF SizeReply
    <3>2. reply.id = log
      BY <2>1, <2>5 DEF LogInv, PrefixIsRight, Asking
    <3>3. Flushed = 0 /\ Flushed' = 0
      BY <2>1 DEF Flushed
    <3>4. Flushed \in Nat /\ Flushed' \in Flushed .. Sizes[log] /\ Flushed' = Sizes[log]
      BY ONLY <3>1, <3>2, <3>3
    <3>. QED BY <2>1, <2>5, <3>4, DownloadGathers
  <2>. QED BY <2>3, <2>4, <2>5
<1>5. CASE DataReply
  BY <1>t, <1>5, TakeChunkGathers DEF DataReply
<1>6. ASSUME NEW p \in channel, ReadEntry(p) PROVE Goal
  <2>1. p \in Packets /\ log = List /\ stage = "reading list"
    BY <1>t, <1>6 DEF ReadEntry, StageFits
  <2>2. CASE TakeEntry(p)
    BY <1>6, <2>1, <2>2, TakeEntryGathers DEF ReadEntry
  <2>3. CASE UNCHANGED <<air, stage, tries, reply, found, assembler, lost>>
    BY <1>6, <1>s, <2>3 DEF ReadEntry, assembler
  <2>. QED BY <1>6, <2>2, <2>3 DEF ReadEntry
<1>7. ASSUME NEW p \in channel, ReadChunk(p) PROVE Goal
  <2>1. p \in Packets
    BY <1>t
  <2>2. CASE TakeChunk(p)
    BY <1>7, <2>1, <2>2, TakeChunkGathers DEF ReadChunk
  <2>3. CASE UNCHANGED <<air, stage, tries, reply, assembler, lost>>
    BY <1>7, <1>s, <2>3 DEF ReadChunk, assembler
  <2>. QED BY <1>7, <2>2, <2>3 DEF ReadChunk
<1>8. CASE ReadTimeout
  BY <1>8, <1>s DEF ReadTimeout, Silent, AskForData
<1>9. CASE ReplyTimeout
  <2>1. Asking /\ UNCHANGED <<log, stray, body, found>>
    BY <1>9 DEF ReplyTimeout, assembler
  <2>2. CASE stage' = stage
    BY <1>s, <2>1, <2>2
  <2>3. CASE stage' = "failed"
    <3>1. log # None /\ stage \notin {"done", "failed"}
      BY <1>t, <1>n, <2>1 DEF Asking, StageFits
    <3>2. /\ Outcome = "open" /\ Outcome' = "failed"
          /\ UNCHANGED <<log, Gathered, Spoiled>>
      BY <2>1, <2>3, <3>1 DEF Outcome, Gathered, Spoiled, Flushed
    <3>. QED BY <3>2 DEF Transfer!Next, Transfer!Fail
  <2>. QED BY <1>9, <2>2, <2>3 DEF ReplyTimeout, Stop
<1>10. CASE End \/ Cancel
  <2>1. log # None /\ log' = None
    BY <1>10, <1>t, <1>n DEF End, Cancel, Busy, Asking, StageFits
  <2>2. Outcome' = "none" /\ Gathered' = 0 /\ Spoiled' = FALSE
    BY <2>1, <1>n DEF Outcome, Gathered, Spoiled
  <2>. QED BY <2>1, <2>2 DEF Transfer!Next, Transfer!Leave
<1>11. ASSUME NEW p \in air, Arrive(p) PROVE Goal
  <2>1. UNCHANGED <<log, stage, body, found>>
    BY <1>11 DEF Arrive, assembler
  <2>2. CASE stray' = stray
    BY <1>s, <2>1, <2>2
  <2>3. CASE stray' # stray
    <3>1. log \in Logs /\ stray'
      BY <1>11, <2>3 DEF Arrive, LogInv, LogTypeOK
    <3>2. Outcome' = Outcome /\ Gathered' = 0 /\ Spoiled' = TRUE /\ log' = log
      BY <2>1, <3>1, <1>n DEF Outcome, Gathered, Spoiled
    <3>3. log \notin {None, List}
      BY <3>1, <1>n
    <3>. QED BY <3>2, <3>3 DEF Transfer!Next, Transfer!Spoil
  <2>. QED BY <2>2, <2>3
<1>12. ASSUME NEW p \in air, Lose(p) PROVE Goal
  BY <1>s, <1>12 DEF Lose, assembler
<1>13. CASE UNCHANGED logVars
  BY <1>s, <1>13 DEF logVars, assembler
<1>. QED BY <1>1, <1>2, <1>3, <1>4, <1>5, <1>6, <1>7, <1>8, <1>9, <1>10, <1>11, <1>12, <1>13
  DEF LogNext

(***************************************************************************)
(* get_log() and get_log_list() keep the promise of LogTransfer: one job   *)
(* at a time, from which nothing is lost and to which nothing is added     *)
(* twice, and which is done when nothing is missing and not before.        *)
(***************************************************************************)
THEOREM Transfers == LogSpec => KeepsTransfer
<1>1. LogInit => LogInv /\ RangeFits /\ Transfer!Init
  <2>1. LogInit => RangeFits /\ Transfer!Init
    BY LogNumbers
    DEF LogInit, RangeFits, Transfer!Init, Outcome, Gathered, Spoiled, None, List
  <2>. QED BY <2>1, LogInitInv
<1>2. LogInv /\ RangeFits /\ [LogNext]_logVars => LogInv' /\ RangeFits'
  BY LogStepKeeps, RangeStepFits
<1>3. LogInv /\ RangeFits /\ [LogNext]_logVars => [Transfer!Next]_Transfer!vars
  BY LogStepKeeps, TransferStep
<1>. QED BY <1>1, <1>2, <1>3, PTL DEF LogSpec, KeepsTransfer, Transfer!Spec

-------------------------------------------------------------------------------
(***************************************************************************)
(* The link to a drone.                                                    *)
(***************************************************************************)

(***************************************************************************)
(* The streams of a drone: commands that are sent, whichever of them reach *)
(* the drone, make it send messages and answer, as far as answers are      *)
(* counted.                                                                *)
(***************************************************************************)
LEMMA SendTyped ==
  ASSUME DroneTypeOK, NEW senders \in SUBSET Tasks, NEW left \in Nat,
         \A t \in senders : command'[t].stream \in Streams,
         Send(senders, left)
  PROVE  streams' \subseteq Streams /\ acks' \in 0 .. MaxAcks
<1>0. PICK received \in SUBSET senders : \E obeyed \in SUBSET received :
        /\ streams' = streams \cup {command'[t].stream : t \in obeyed}
        /\ acks' = IF left + Cardinality(received) < MaxAcks
                   THEN left + Cardinality(received) ELSE MaxAcks
  BY DEF Send
<1>1. PICK obeyed \in SUBSET received :
        /\ streams' = streams \cup {command'[t].stream : t \in obeyed}
        /\ acks' = IF left + Cardinality(received) < MaxAcks
                   THEN left + Cardinality(received) ELSE MaxAcks
  BY <1>0
<1>2. streams' \subseteq Streams
  BY <1>1 DEF DroneTypeOK
<1>3. Cardinality(received) \in Nat
  <2>1. received \in SUBSET Tasks
    OBVIOUS
  <2>2. IsFiniteSet(received)
    BY <2>1, TasksAssumption, FS_Subset
  <2>. QED BY <2>2, FS_CardinalityType
<1>4. acks' \in 0 .. MaxAcks
  BY <1>1, <1>3, MaxAcksAssumption
<1>. QED BY <1>2, <1>4

LEMMA StreamNumbers == 1 \in Streams /\ 2 \in Streams /\ 3 \in Streams
BY DEF Streams

LEMMA CommandsTyped ==
  /\ NoTask \notin Task
  /\ \A k \in Task : /\ k.stream \in Streams /\ k.tries \in 0 .. CommandRetries
                     /\ Advanced(k) \in Task \cup {NoTask}
                     /\ k.stream # 3 => Advanced(k).stream \in Streams
                     /\ k.tries > 0 => [k EXCEPT !.tries = @ - 1] \in Task
  /\ [stream |-> Status, tries |-> CommandRetries] \in Task
<1>1. CommandRetries \in 0 .. CommandRetries
  BY CommandRetriesAssumption
<1>2. NoTask \notin Task
  BY DEF NoTask, Task, Streams
<1>3. ASSUME NEW k \in Task
      PROVE  /\ k.stream \in Streams /\ k.tries \in 0 .. CommandRetries
             /\ Advanced(k) \in Task \cup {NoTask}
             /\ k.stream # 3 => Advanced(k).stream \in Streams
             /\ k.tries > 0 => [k EXCEPT !.tries = @ - 1] \in Task
  <2>1. k.stream \in 1 .. 3 /\ k.tries \in 0 .. CommandRetries
    BY DEF Task, Streams
  <2>2. k.stream # 3 => k.stream + 1 \in 1 .. 3
    BY <2>1
  <2>3. Advanced(k) \in Task \cup {NoTask} /\ (k.stream # 3 => Advanced(k).stream \in Streams)
    BY <1>1, <2>2 DEF Advanced, Task, Streams
  <2>4. k.tries > 0 => k.tries - 1 \in 0 .. CommandRetries
    BY <2>1, CommandRetriesAssumption
  <2>5. k.tries > 0 => [k EXCEPT !.tries = @ - 1] \in Task
    BY <2>4 DEF Task
  <2>. QED BY <2>1, <2>3, <2>5 DEF Streams
<1>. QED BY <1>1, <1>2, <1>3 DEF Task, Streams, Status

(***************************************************************************)
(* What the driver knows of a drone always has its type: a task waits for  *)
(* one of the three commands with attempts left as configured, or is over, *)
(* however acknowledgments, retries and reboots interleave.                *)
(***************************************************************************)
THEOREM DroneTypeCorrect == DroneSpec => []DroneTypeOK
<1>1. DroneInit => DroneTypeOK
  <2>. SUFFICES ASSUME DroneInit PROVE DroneTypeOK
    OBVIOUS
  <2>1. 0 \in 0 .. MaxAcks
    BY MaxAcksAssumption
  <2>. QED BY <2>1 DEF DroneInit, DroneTypeOK, Heartbeat
<1>2. ASSUME DroneTypeOK, [DroneNext]_droneVars
      PROVE  DroneTypeOK'
  <2>0. acks \in 0 .. MaxAcks
    BY <1>2 DEF DroneTypeOK
  <2>1. /\ acks \in Nat /\ streams \subseteq Streams
        /\ heartbeat \in Heartbeat /\ command \in [Tasks -> Task \cup {NoTask}]
    BY <1>2, MaxAcksAssumption DEF DroneTypeOK
  <2>2. ASSUME NEW state \in {"off", "asleep", "on"}, Switch(state) PROVE DroneTypeOK'
    BY <1>2, <2>2 DEF DroneTypeOK, Switch, server
  <2>3. CASE LoseAck
    <3>1. acks > 0 /\ acks' = acks - 1
      BY <2>3 DEF LoseAck
    <3>2. acks' \in 0 .. MaxAcks
      BY <2>0, <3>1, MaxAcksAssumption
    <3>. QED BY <1>2, <2>3, <3>2 DEF DroneTypeOK, LoseAck, server
  <2>4. CASE HandleHeartbeat
    <3>1. /\ power' \in {"off", "asleep", "on"} /\ modern' \in BOOLEAN
          /\ link' \in {"disconnected", "sleeping", "connected"} /\ heartbeat' \in Heartbeat
          /\ silent' \in BOOLEAN /\ rebooted' \in BOOLEAN
      BY <1>2, <2>4 DEF DroneTypeOK, HandleHeartbeat, Heartbeat
    <3>2. ASSUME NEW t \in Tasks, Start(t)
          PROVE  /\ streams' \subseteq Streams /\ acks' \in 0 .. MaxAcks
                 /\ command' \in [Tasks -> Task \cup {NoTask}]
      <4>1. /\ command' = [command EXCEPT ![t] = [stream |-> Status, tries |-> CommandRetries]]
            /\ Send({t}, acks)
        BY <3>2 DEF Start
      <4>2. command' \in [Tasks -> Task \cup {NoTask}] /\ command'[t].stream \in Streams
        BY <2>1, <4>1, CommandsTyped DEF Streams, Status
      <4>. QED BY <1>2, <2>1, <4>1, <4>2, SendTyped
    <3>3. CASE ConfigureDataStreams
      BY <3>1, <3>2, <3>3 DEF DroneTypeOK, ConfigureDataStreams
    <3>4. CASE UNCHANGED <<streams, acks, attempted, command>>
      BY <1>2, <3>1, <3>4 DEF DroneTypeOK
    <3>. QED BY <2>4, <3>3, <3>4 DEF HandleHeartbeat
  <2>5. CASE HandleSleepingHeartbeat
    BY <1>2, <2>5 DEF DroneTypeOK, HandleSleepingHeartbeat, Heartbeat
  <2>6. CASE HandleSysStatus \/ CheckAlive
    BY <1>2, <2>6 DEF DroneTypeOK, HandleSysStatus, CheckAlive
  <2>7. CASE Reboot \/ NotifyRebooted
    BY <1>2, <2>7 DEF DroneTypeOK, Reboot, NotifyRebooted, server
  <2>8. CASE AgeHeartbeat
    <3>1. heartbeat' \in Heartbeat
      BY <2>1, <2>8 DEF AgeHeartbeat, Heartbeat
    <3>. QED BY <1>2, <2>8, <3>1 DEF DroneTypeOK, AgeHeartbeat
  <2>9. CASE AgeStatus \/ AgeAttempt
    BY <1>2, <2>9 DEF DroneTypeOK, AgeStatus, AgeAttempt
  <2>10. CASE HandleAck
    <3>. DEFINE senders == {t \in Waiting : command[t].stream # 3}
    <3>1. \A t \in Waiting : t \in Tasks /\ command[t] \in Task
      BY <2>1 DEF Waiting
    <3>2. /\ command' = [t \in Tasks |-> IF t \in Waiting THEN Advanced(command[t])
                                         ELSE command[t]]
          /\ Send(senders, acks - 1) /\ acks - 1 \in Nat
          /\ UNCHANGED <<power, modern, link, heartbeat, silent, attempted, rebooted>>
      BY <2>1, <2>10 DEF HandleAck
    <3>3. command' \in [Tasks -> Task \cup {NoTask}]
      BY <2>1, <3>1, <3>2, CommandsTyped
    <3>4. \A t \in senders : command'[t].stream \in Streams
      BY <3>1, <3>2, CommandsTyped
    <3>5. streams' \subseteq Streams /\ acks' \in 0 .. MaxAcks
      BY <1>2, <3>1, <3>2, <3>4, SendTyped
    <3>. QED BY <1>2, <3>2, <3>3, <3>5 DEF DroneTypeOK
  <2>11. CASE HandleUnsupported
    <3>0. acks > 0 /\ acks' = acks - 1
      BY <2>11 DEF HandleUnsupported
    <3>1. acks' \in 0 .. MaxAcks
      BY <2>0, <3>0, MaxAcksAssumption
    <3>2. streams' \subseteq Streams
      <4>1. PICK received \in SUBSET {"none", "extended status", "position"} :
              streams' = (IF "none" \in received THEN {} ELSE streams)
                           \cup (IF "extended status" \in received THEN {1, 2} ELSE {})
                           \cup (IF "position" \in received THEN {3} ELSE {})
        BY <2>11 DEF HandleUnsupported
      <4>. QED BY <2>1, <4>1, StreamNumbers
    <3>3. command' \in [Tasks -> Task \cup {NoTask}]
      BY <2>11 DEF HandleUnsupported
    <3>. QED BY <1>2, <2>11, <3>1, <3>2, <3>3 DEF DroneTypeOK, HandleUnsupported
  <2>12. ASSUME NEW t \in Tasks, Retry(t) PROVE DroneTypeOK'
    <3>1. command[t] \in Task /\ command[t].tries > 0
      BY <2>1, <2>12 DEF Retry, Waiting
    <3>2. /\ command' = [command EXCEPT ![t].tries = @ - 1] /\ Send({t}, acks)
          /\ UNCHANGED <<power, modern, link, heartbeat, silent, attempted, rebooted>>
      BY <2>12 DEF Retry
    <3>3. command' \in [Tasks -> Task \cup {NoTask}] /\ command'[t] \in Task
      <4>1. [command[t] EXCEPT !.tries = @ - 1] \in Task
        BY <3>1, CommandsTyped
      <4>2. command' = [command EXCEPT ![t] = [command[t] EXCEPT !.tries = @ - 1]]
        BY <3>2
      <4>. QED BY <2>1, <4>1, <4>2
    <3>4. streams' \subseteq Streams /\ acks' \in 0 .. MaxAcks
      BY <1>2, <2>1, <3>2, <3>3, CommandsTyped, SendTyped
    <3>. QED BY <1>2, <3>2, <3>3, <3>4 DEF DroneTypeOK
  <2>13. ASSUME NEW t \in Tasks, GiveUp(t) PROVE DroneTypeOK'
    BY <1>2, <2>1, <2>13 DEF DroneTypeOK, GiveUp
  <2>14. CASE UNCHANGED droneVars
    BY <1>2, <2>14 DEF DroneTypeOK, droneVars
  <2>. QED
    BY <1>2, <2>2, <2>3, <2>4, <2>5, <2>6, <2>7, <2>8, <2>9, <2>10, <2>11, <2>12, <2>13,
       <2>14
    DEF DroneNext
<1>. QED BY <1>1, <1>2, PTL DEF DroneSpec

(* A sleeping drone has said last that it sleeps: a heartbeat that says    *)
(* otherwise makes it connected at once.                                   *)
Asleep == link = "sleeping" => ~heartbeat.awake

LEMMA AsleepKept == DroneTypeOK /\ Asleep /\ [DroneNext]_droneVars => Asleep'
<1>. SUFFICES ASSUME DroneTypeOK, Asleep, [DroneNext]_droneVars PROVE Asleep'
  OBVIOUS
<1>1. heartbeat \in Heartbeat
  BY DEF DroneTypeOK
<1>2. CASE UNCHANGED <<link, heartbeat>>
  BY <1>2 DEF Asleep
<1>3. CASE HandleHeartbeat
  BY <1>3 DEF Asleep, HandleHeartbeat
<1>4. CASE HandleSleepingHeartbeat
  BY <1>4 DEF Asleep, HandleSleepingHeartbeat
<1>5. CASE CheckAlive
  BY <1>5 DEF Asleep, CheckAlive
<1>6. CASE NotifyRebooted
  BY <1>6 DEF Asleep, NotifyRebooted
<1>7. CASE AgeHeartbeat
  BY <1>1, <1>7 DEF Asleep, AgeHeartbeat, Heartbeat
<1>. QED
  BY <1>2, <1>3, <1>4, <1>5, <1>6, <1>7
     DEF DroneNext, droneVars, server, Switch, LoseAck, HandleSysStatus, Reboot, AgeStatus,
         AgeAttempt, HandleAck, HandleUnsupported, Retry, GiveUp

(***************************************************************************)
(* A drone becomes connected only by a recent heartbeat that says that it  *)
(* can communicate, counts as sleeping only while the last one says that   *)
(* it cannot, and is given up only if none came for long or we rebooted    *)
(* it, for any number of tasks.                                            *)
(***************************************************************************)
THEOREM LinkKeepsReason == DroneSpec => LinkHasReason
<1>. DEFINE Reason ==
       /\ link # "connected" /\ link' = "connected" => heartbeat'.awake /\ heartbeat'.age # "old"
       /\ link' = "sleeping" => ~heartbeat'.awake
       /\ link # "disconnected" /\ link' = "disconnected" => heartbeat.age = "old" \/ rebooted
<1>1. DroneInit => Asleep
  BY DEF DroneInit, Asleep
<1>2. DroneTypeOK /\ Asleep /\ [DroneNext]_droneVars => Asleep'
  BY AsleepKept
<1>3. ASSUME DroneTypeOK, Asleep, [DroneNext]_droneVars PROVE [Reason]_droneVars
  <2>1. Asleep'
    BY <1>2, <1>3
  <2>2. CASE UNCHANGED link
    BY <2>1, <2>2 DEF Asleep
  <2>3. CASE HandleHeartbeat
    BY <2>3 DEF HandleHeartbeat
  <2>4. CASE CheckAlive
    BY <2>1, <2>4 DEF CheckAlive, Asleep
  <2>5. CASE NotifyRebooted
    BY <2>5 DEF NotifyRebooted
  <2>. QED
    BY <1>3, <2>2, <2>3, <2>4, <2>5
       DEF DroneNext, droneVars, server, Switch, LoseAck, HandleSleepingHeartbeat,
           HandleSysStatus, Reboot, AgeHeartbeat, AgeStatus, AgeAttempt, HandleAck,
           HandleUnsupported, Retry, GiveUp
<1>4. DroneSpec => []DroneTypeOK
  BY DroneTypeCorrect
<1>. QED BY <1>1, <1>2, <1>3, <1>4, PTL DEF DroneSpec, LinkHasReason
===============================================================================
