----------------------- MODULE CommandExecution_proofs -----------------------
(***************************************************************************)
(* Theorems about CommandExecution, for any number of requests, receipts   *)
(* and yields and any capacity of the queue to the executor.               *)
(***************************************************************************)
EXTENDS CommandExecution, TLAPS

(***************************************************************************)
(* Where a notice is found after another one was appended.                 *)
(***************************************************************************)
LEMMA WhereAppend ==
  ASSUME NEW s \in Seq(Notice), NEW n \in Notice, NEW N
  PROVE  Where(Append(s, n), N) =
           Where(s, N) \cup IF n \in N THEN {Len(s) + 1} ELSE {}
<1>1. Len(Append(s, n)) = Len(s) + 1 /\ Len(s) \in Nat
  OBVIOUS
<1>2. \A i \in 1..Len(s) : Append(s, n)[i] = s[i]
  OBVIOUS
<1>3. Append(s, n)[Len(s) + 1] = n
  OBVIOUS
<1>4. 1..(Len(s) + 1) = (1..Len(s)) \cup {Len(s) + 1}
  BY <1>1
<1> QED BY <1>1, <1>2, <1>3, <1>4 DEF Where

LEMMA WhereEmpty == ASSUME NEW N PROVE Where(<<>>, N) = {}
BY DEF Where
-----------------------------------------------------------------------------
(***************************************************************************)
(* Every variable keeps its type: in particular an operation is always in  *)
(* one of the known places and its notices form a sequence.                *)
(***************************************************************************)
LEMMA TypeInit == Init => TypeOK
BY YieldAssumption DEF Init, TypeOK, Outcome, TaskState, Notice

LEMMA FinishType ==
  ASSUME TypeOK, NEW r \in Receipts, NEW caught \in BOOLEAN, NEW final \in Outcome,
         Finish(r, caught, final)
  PROVE  /\ entries' \in SUBSET Receipts
         /\ outcome' \in [Receipts -> Outcome]
         /\ scope' \in [Receipts -> BOOLEAN]
         /\ task' \in [Receipts -> TaskState]
         /\ told' \in [Receipts -> Seq(Notice)]
<1> USE DEF Finish, TypeOK, Outcome, TaskState
<1>1. entries' \in SUBSET Receipts
  OBVIOUS
<1>2. outcome' \in [Receipts -> Outcome]
  OBVIOUS
<1>3. scope' \in [Receipts -> BOOLEAN]
  OBVIOUS
<1>4. task' \in [Receipts -> TaskState]
  OBVIOUS
<1>5. told' \in [Receipts -> Seq(Notice)]
  <2>1. "timeout" \in Notice /\ "finished" \in Notice
    BY DEF Notice
  <2>2. told[r] \in Seq(Notice)
    OBVIOUS
  <2>3. \A n \in Notice : Append(told[r], n) \in Seq(Notice)
    BY <2>2
  <2> QED BY <2>1, <2>2, <2>3
<1> QED BY <1>1, <1>2, <1>3, <1>4, <1>5

LEMMA FinishedType == TypeOK => \A r \in Receipts : Finished(r) \in Outcome
BY DEF TypeOK, Finished, InProgress, Outcome

LEMMA TypeStep == TypeOK /\ [Next]_vars => TypeOK'
<1> SUFFICES ASSUME TypeOK, [Next]_vars PROVE TypeOK'
  OBVIOUS
<1> USE YieldAssumption DEF TypeOK
<1>u. CASE UNCHANGED vars
  BY <1>u DEF vars, status
<1>1. ASSUME NEW q \in Requests, BeginRequest(q) \/ EnqueueResponse(q) PROVE TypeOK'
  BY <1>1 DEF BeginRequest, EnqueueResponse, status
<1>2. ASSUME NEW q \in Requests, SendResponse(q) PROVE TypeOK'
  <2>1. told' \in [Receipts -> Seq(Notice)]
    BY <1>2 DEF SendResponse, Notice
  <2>2. task' \in [Receipts -> TaskState]
    BY <1>2 DEF SendResponse, TaskState
  <2>3. notified' \in [Receipts -> BOOLEAN]
    BY <1>2 DEF SendResponse
  <2> QED BY <1>2, <2>1, <2>2, <2>3 DEF SendResponse
<1>3. ASSUME NEW q \in Requests, LoseResponse(q) PROVE TypeOK'
  BY <1>3 DEF LoseResponse, status, TaskState
<1>4. ASSUME NEW q \in Requests, NEW r \in Receipts, New(q, r) PROVE TypeOK'
  BY <1>4 DEF New, TaskState
<1>5. ASSUME NEW r \in Receipts, Cancel(r) \/ Resume(r) PROVE TypeOK'
  <2>1. ASSUME Cancel(r) PROVE TypeOK'
    BY <2>1 DEF Cancel, Outcome
  <2>2. ASSUME Resume(r) PROVE TypeOK'
    BY <2>2 DEF Resume
  <2> QED BY <1>5, <2>1, <2>2
<1>6. ASSUME NEW r \in Receipts, DeadlinePasses(r) \/ TrioDeadline(r) PROVE TypeOK'
  BY <1>6 DEF DeadlinePasses, TrioDeadline
<1>7. CASE Cleanup
  <2>1. told' \in [Receipts -> Seq(Notice)]
    BY <1>7 DEF Cleanup, Notice
  <2> QED BY <1>7, <2>1 DEF Cleanup
<1>8. ASSUME NEW r \in Receipts, ExecuteValue(r) \/ Complete(r) PROVE TypeOK'
  BY <1>8, FinishedType, FinishType DEF ExecuteValue, Complete
<1>9. ASSUME NEW r \in Receipts, ExecuteAsync(r) \/ Start(r) PROVE TypeOK'
  BY <1>9 DEF ExecuteAsync, Start, TaskState, status
<1>10. ASSUME NEW r \in Receipts, DeliverCancel(r) PROVE TypeOK'
  BY <1>10, FinishType DEF DeliverCancel
<1>11. ASSUME NEW r \in Receipts, ReportProgress(r) PROVE TypeOK'
  <2>1. told' \in [Receipts -> Seq(Notice)]
    BY <1>11 DEF ReportProgress, Notice
  <2> QED BY <1>11, <2>1 DEF ReportProgress
<1>12. ASSUME NEW r \in Receipts, SuspendOperation(r) PROVE TypeOK'
  <2>1. told' \in [Receipts -> Seq(Notice)]
    BY <1>12 DEF SuspendOperation, Notice
  <2> QED BY <1>12, <2>1 DEF SuspendOperation, TaskState
<1>13. ASSUME NEW r \in Receipts, SuspendCancelled(r) PROVE TypeOK'
  BY <1>13, FinishType DEF SuspendCancelled
<1>14. ASSUME NEW r \in Receipts, WakeWithValue(r) PROVE TypeOK'
  BY <1>14 DEF WakeWithValue, TaskState
<1>15. ASSUME NEW r \in Receipts, WakeExpired(r) PROVE TypeOK'
  BY <1>15, FinishType DEF WakeExpired
<1>16. ASSUME NEW r \in Receipts, WakeCancelled(r) PROVE TypeOK'
  BY <1>16, FinishType DEF WakeCancelled
<1> QED
  BY <1>u, <1>1, <1>2, <1>3, <1>4, <1>5, <1>6, <1>7, <1>8, <1>9, <1>10, <1>11, <1>12,
     <1>13, <1>14, <1>15, <1>16 DEF Next, OperationStep, Wake

THEOREM TypeCorrect == Spec => []TypeOK
BY TypeInit, TypeStep, PTL DEF Spec
-----------------------------------------------------------------------------
(***************************************************************************)
(* The invariant behind the safety properties.  The entry of a command is  *)
(* the right to tell the client about its end: nobody has been told while  *)
(* the entry is there, and it is there at most once.                       *)
(***************************************************************************)
EntryIsUntold ==
  \A r \in entries : Said(r, Terminal) = {} /\ outcome[r] \in {"inProgress", "cancelledByUser"}

FreshIsUnregistered ==
  \A r \in Receipts : task[r] = "none" =>
    r \notin entries /\ Said(r, Terminal) = {} /\ outcome[r] = "inProgress"

StartedIsKnown ==
  \A r \in Receipts :
    task[r] \in {"queued", "spawned", "running", "waiting"} \/ notified[r]
      => Said(r, {"receipt"}) # {}

IInv ==
  /\ EntryIsUntold
  /\ FreshIsUnregistered
  /\ StartedIsKnown
  /\ AtMostOneTerminal
  /\ NoticesFollowReceipt
  /\ CancelIsSilent
  /\ GoneIsAnswered

(***************************************************************************)
(* The same facts for one sequence of notices.                             *)
(***************************************************************************)
Heralded == {"progress", "suspended", "finished"}
InOrder(s) == \A i \in Where(s, Heralded) : \E j \in Where(s, {"receipt"}) : j < i
Single(s) == \A i, j \in Where(s, Terminal) : i = j

LEMMA AppendNotice ==
  ASSUME NEW s \in Seq(Notice), NEW n \in Notice,
         InOrder(s), Single(s),
         n \in Heralded => Where(s, {"receipt"}) # {},
         n \in Terminal => Where(s, Terminal) = {}
  PROVE  /\ InOrder(Append(s, n))
         /\ Single(Append(s, n))
         /\ n \notin Terminal => Where(Append(s, n), Terminal) = Where(s, Terminal)
         /\ n \in Terminal => Where(Append(s, n), Terminal) # {}
         /\ Where(s, {"receipt"}) # {} => Where(Append(s, n), {"receipt"}) # {}
         /\ n = "receipt" => Where(Append(s, n), {"receipt"}) # {}
<1>1. \A N : Where(Append(s, n), N) =
               Where(s, N) \cup IF n \in N THEN {Len(s) + 1} ELSE {}
  BY WhereAppend
<1>2. \A N : \A i \in Where(s, N) : i \in Nat /\ i < Len(s) + 1
  BY DEF Where
<1>3. InOrder(Append(s, n))
  <2> SUFFICES ASSUME NEW i \in Where(Append(s, n), Heralded)
               PROVE  \E j \in Where(Append(s, n), {"receipt"}) : j < i
    BY DEF InOrder
  <2>1. CASE i \in Where(s, Heralded)
    BY <1>1, <2>1 DEF InOrder
  <2>2. CASE i \notin Where(s, Heralded)
    <3>1. i = Len(s) + 1 /\ n \in Heralded
      BY <1>1, <2>2
    <3>2. PICK j \in Where(s, {"receipt"}) : TRUE
      BY <3>1
    <3> QED BY <1>1, <1>2, <3>1, <3>2
  <2> QED BY <2>1, <2>2
<1>4. Single(Append(s, n))
  BY <1>1 DEF Single
<1> QED BY <1>1, <1>3, <1>4

(***************************************************************************)
(* IInv restricted to one receipt; the step proofs are about these.        *)
(***************************************************************************)
Sound(r) ==
  /\ InOrder(told[r]) /\ Single(told[r])
  /\ r \in entries => Said(r, Terminal) = {} /\ outcome[r] \in {"inProgress", "cancelledByUser"}
  /\ task[r] = "none" => r \notin entries /\ Said(r, Terminal) = {} /\ outcome[r] = "inProgress"
  /\ (task[r] \in {"queued", "spawned", "running", "waiting"} \/ notified[r])
       => Said(r, {"receipt"}) # {}
  /\ outcome[r] = "cancelledByUser" => Said(r, Terminal) = {}
  /\ notified[r] /\ r \notin entries
       => outcome[r] = "cancelledByUser" \/ Said(r, Terminal) # {}

LEMMA SoundIsIInv == TypeOK => (IInv <=> \A r \in Receipts : Sound(r))
BY DEF TypeOK, IInv, EntryIsUntold, FreshIsUnregistered, StartedIsKnown, AtMostOneTerminal,
   NoticesFollowReceipt, CancelIsSilent, GoneIsAnswered, Sound, InOrder, Single, Heralded, Said

LEMMA FinishSound ==
  ASSUME TypeOK, NEW r \in Receipts, NEW caught \in BOOLEAN, NEW final \in Outcome,
         \A s \in Receipts : Sound(s),
         Finish(r, caught, final), UNCHANGED notified,
         task[r] \in {"queued", "running", "waiting"},
         final # outcome[r] => final = "finished" /\ outcome[r] = "inProgress",
         IF caught THEN final = outcome[r] ELSE final # "inProgress"
  PROVE  \A s \in Receipts : Sound(s)'
<1> SUFFICES ASSUME NEW s \in Receipts PROVE Sound(s)'
  OBVIOUS
<1>1. Sound(s) /\ Sound(r)
  OBVIOUS
<1>2. CASE s # r
  BY <1>1, <1>2 DEF Finish, TypeOK, Sound, Said
<1>3. CASE s = r
  <2>0. /\ entries' = entries \ {r}
        /\ task'[r] = "done"
        /\ notified'[r] = notified[r]
        /\ r \in Receipts
    BY DEF Finish, TypeOK
  <2>1. CASE r \in entries /\ notified[r] /\ caught /\ final = "inProgress"
    <3>1. told'[r] = Append(told[r], "timeout") /\ outcome'[r] = "cancelledByTimeout"
      BY <2>1 DEF Finish, TypeOK
    <3>2. told[r] \in Seq(Notice) /\ "timeout" \in Notice /\ "timeout" \in Terminal
      BY DEF TypeOK, Notice, Terminal
    <3>3. Where(told[r], Terminal) = {} /\ Where(told[r], {"receipt"}) # {}
      BY <1>1, <2>1 DEF Sound, Said
    <3>4. /\ InOrder(told'[r]) /\ Single(told'[r])
          /\ Where(told'[r], Terminal) # {} /\ Where(told'[r], {"receipt"}) # {}
      BY <1>1, <3>1, <3>2, <3>3, AppendNotice DEF Sound
    <3> QED BY <1>3, <2>0, <3>1, <3>4 DEF Sound, Said
  <2>2. CASE r \in entries /\ notified[r] /\ ~caught /\ final = "finished"
    <3>1. told'[r] = Append(told[r], "finished") /\ outcome'[r] = "finished"
      BY <2>2 DEF Finish, TypeOK
    <3>2. told[r] \in Seq(Notice) /\ "finished" \in Notice /\ "finished" \in Terminal
      BY DEF TypeOK, Notice, Terminal
    <3>3. Where(told[r], Terminal) = {} /\ Where(told[r], {"receipt"}) # {}
      BY <1>1, <2>2 DEF Sound, Said
    <3>4. /\ InOrder(told'[r]) /\ Single(told'[r])
          /\ Where(told'[r], Terminal) # {} /\ Where(told'[r], {"receipt"}) # {}
      BY <1>1, <3>1, <3>2, <3>3, AppendNotice DEF Sound
    <3> QED BY <1>3, <2>0, <3>1, <3>4 DEF Sound, Said
  <2>3. CASE ~(r \in entries /\ notified[r] /\ caught /\ final = "inProgress")
             /\ ~(r \in entries /\ notified[r] /\ ~caught /\ final = "finished")
    <3>1. told'[r] = told[r]
      BY <2>3 DEF Finish, TypeOK
    <3>2. outcome'[r] = final \/ (r \in entries /\ outcome'[r] = "cancelledByTimeout"
                                  /\ caught /\ final = "inProgress")
      BY DEF Finish, TypeOK
    <3>3. r \in entries => outcome[r] \in {"inProgress", "cancelledByUser"}
      BY <1>1 DEF Sound
    <3> QED BY <1>1, <1>3, <2>0, <2>3, <3>1, <3>2, <3>3 DEF Sound, Said
  <2> QED BY <2>1, <2>2, <2>3
<1> QED BY <1>2, <1>3

LEMMA SoundStep ==
  ASSUME TypeOK, \A s \in Receipts : Sound(s), [Next]_vars
  PROVE  \A s \in Receipts : Sound(s)'
<1> USE DEF TypeOK, Sound, Said
<1> DEFINE Goal == \A s \in Receipts : Sound(s)'
<1>u. CASE UNCHANGED vars
  BY <1>u DEF vars, status
<1>1. ASSUME NEW q \in Requests, BeginRequest(q) \/ EnqueueResponse(q) PROVE Goal
  BY <1>1 DEF BeginRequest, EnqueueResponse, status
<1>2. ASSUME NEW q \in Requests, SendResponse(q) PROVE Goal
  <2> SUFFICES ASSUME NEW s \in Receipts PROVE Sound(s)'
    OBVIOUS
  <2>1. "receipt" \in Notice /\ "receipt" \notin Heralded /\ "receipt" \notin Terminal
    BY DEF Notice, Heralded, Terminal
  <2>2. /\ told'[s] = IF s \in batch[q] THEN Append(told[s], "receipt") ELSE told[s]
        /\ entries' = entries /\ outcome' = outcome
    BY <1>2 DEF SendResponse
  <2>3. /\ InOrder(told'[s]) /\ Single(told'[s])
        /\ Where(told'[s], Terminal) = Where(told[s], Terminal)
        /\ Where(told[s], {"receipt"}) # {} \/ s \in batch[q] => Where(told'[s], {"receipt"}) # {}
    <3>1. told[s] \in Seq(Notice) /\ InOrder(told[s]) /\ Single(told[s])
      OBVIOUS
    <3>2. CASE s \in batch[q]
      <4>1. told'[s] = Append(told[s], "receipt")
        BY <2>2, <3>2
      <4> HIDE DEF TypeOK, Sound
      <4> QED BY <2>1, <3>1, <4>1, AppendNotice
    <3>3. CASE s \notin batch[q]
      BY <2>2, <3>1, <3>3
    <3> QED BY <3>2, <3>3
  <2>4. /\ notified'[s] => notified[s] \/ s \in batch[q] \cap entries
        /\ task'[s] # task[s] => s \in batch[q] /\ task'[s] \in {"queued", "done"}
    BY <1>2 DEF SendResponse
  <2> QED BY <2>2, <2>3, <2>4
<1>3. ASSUME NEW q \in Requests, LoseResponse(q) PROVE Goal
  BY <1>3 DEF LoseResponse, status
<1>4. ASSUME NEW q \in Requests, NEW r \in Receipts, New(q, r) PROVE Goal
  BY <1>4 DEF New
<1>5. ASSUME NEW r \in Receipts, Cancel(r) PROVE Goal
  BY <1>5 DEF Cancel, InProgress
<1>6. ASSUME NEW r \in Receipts, Resume(r) \/ DeadlinePasses(r) \/ TrioDeadline(r) PROVE Goal
  BY <1>6 DEF Resume, DeadlinePasses, TrioDeadline
<1>7. CASE Cleanup
  <2> SUFFICES ASSUME NEW s \in Receipts PROVE Sound(s)'
    OBVIOUS
  <2> DEFINE stale == {r \in entries : ~InProgress(r) \/ timer[r] = "passed"}
  <2>1. "timeout" \in Notice /\ "timeout" \notin Heralded /\ "timeout" \in Terminal
    BY DEF Notice, Heralded, Terminal
  <2>2. /\ entries' = entries \ stale
        /\ UNCHANGED <<outcome, notified, task>>
    BY <1>7 DEF Cleanup
  <2>3. CASE s \in stale /\ InProgress(s)
    <3>1. told'[s] = Append(told[s], "timeout")
      BY <1>7, <2>3 DEF Cleanup
    <3>2. told[s] \in Seq(Notice) /\ Where(told[s], Terminal) = {} /\ InOrder(told[s]) /\ Single(told[s])
      BY <2>3
    <3>3. /\ InOrder(told'[s]) /\ Single(told'[s])
          /\ Where(told'[s], Terminal) # {}
          /\ Where(told[s], {"receipt"}) # {} => Where(told'[s], {"receipt"}) # {}
      BY <2>1, <3>1, <3>2, AppendNotice
    <3> QED BY <2>2, <2>3, <3>3 DEF InProgress
  <2>4. CASE ~(s \in stale /\ InProgress(s))
    <3>1. told'[s] = told[s]
      BY <1>7, <2>4 DEF Cleanup
    <3> QED BY <2>2, <2>4, <3>1 DEF InProgress
  <2> QED BY <2>3, <2>4
<1>8. ASSUME NEW r \in Receipts, ExecuteValue(r) \/ Complete(r) PROVE Goal
  <2>1. Finished(r) \in Outcome
    BY FinishedType
  <2>2. /\ Finished(r) # outcome[r] => Finished(r) = "finished" /\ outcome[r] = "inProgress"
        /\ Finished(r) # "inProgress"
    BY DEF Finished, InProgress
  <2>3. Finish(r, FALSE, Finished(r)) /\ UNCHANGED notified /\ task[r] \in {"queued", "running"}
    BY <1>8 DEF ExecuteValue, Complete
  <2> HIDE DEF Sound, TypeOK
  <2> QED BY <2>1, <2>2, <2>3, FinishSound
<1>9. ASSUME NEW r \in Receipts, ExecuteAsync(r) \/ Start(r) PROVE Goal
  <2> SUFFICES ASSUME NEW s \in Receipts PROVE Sound(s)'
    OBVIOUS
  <2>1. /\ task[r] \in {"queued", "spawned"}
        /\ \E t \in {"spawned", "running"} : task' = [task EXCEPT ![r] = t]
        /\ told' = told /\ entries' = entries /\ outcome' = outcome /\ notified' = notified
    BY <1>9 DEF ExecuteAsync, Start, status
  <2>2. CASE s = r
    BY <2>1, <2>2
  <2>3. CASE s # r
    <3>1. task'[s] = task[s]
      BY <2>1, <2>3
    <3> QED BY <2>1, <3>1
  <2> QED BY <2>2, <2>3
<1>10. ASSUME NEW r \in Receipts, DeliverCancel(r) \/ WakeExpired(r) PROVE Goal
  <2>1. outcome[r] \in Outcome
    OBVIOUS
  <2>2. Finish(r, TRUE, outcome[r]) /\ UNCHANGED notified /\ task[r] \in {"running", "waiting"}
    BY <1>10 DEF DeliverCancel, WakeExpired
  <2> HIDE DEF Sound, TypeOK
  <2> QED BY <2>1, <2>2, FinishSound
<1>11. ASSUME NEW r \in Receipts, ReportProgress(r) \/ SuspendOperation(r) PROVE Goal
  <2> SUFFICES ASSUME NEW s \in Receipts PROVE Sound(s)'
    OBVIOUS
  <2>1. PICK n \in {"progress", "suspended"} : told' = [told EXCEPT ![r] = Append(@, n)]
    BY <1>11 DEF ReportProgress, SuspendOperation
  <2>2. n \in Notice /\ n \notin Terminal
    BY DEF Notice, Terminal
  <2>3. told[r] \in Seq(Notice) /\ Where(told[r], {"receipt"}) # {} /\ InOrder(told[r]) /\ Single(told[r])
    BY <1>11 DEF ReportProgress, SuspendOperation
  <2>4. /\ InOrder(told'[r]) /\ Single(told'[r])
        /\ Where(told'[r], Terminal) = Where(told[r], Terminal)
        /\ Where(told'[r], {"receipt"}) # {}
    BY <2>1, <2>2, <2>3, AppendNotice
  <2>5. /\ UNCHANGED <<entries, outcome, notified>>
        /\ \A x \in Receipts : task'[x] = task[x] \/ (x = r /\ task'[x] = "waiting" /\ task[x] = "running")
    BY <1>11 DEF ReportProgress, SuspendOperation
  <2>6. s # r => told'[s] = told[s]
    BY <2>1
  <2> QED BY <2>4, <2>5, <2>6
<1>12. ASSUME NEW r \in Receipts, SuspendCancelled(r) \/ WakeCancelled(r) PROVE Goal
  <2>1. outcome[r] \in Outcome /\ outcome[r] # "inProgress"
    BY <1>12 DEF SuspendCancelled, WakeCancelled, InProgress
  <2>2. Finish(r, FALSE, outcome[r]) /\ UNCHANGED notified /\ task[r] \in {"running", "waiting"}
    BY <1>12 DEF SuspendCancelled, WakeCancelled
  <2> HIDE DEF Sound, TypeOK
  <2> QED BY <2>1, <2>2, FinishSound
<1>13. ASSUME NEW r \in Receipts, WakeWithValue(r) PROVE Goal
  BY <1>13 DEF WakeWithValue
<1> QED
  BY <1>u, <1>1, <1>2, <1>3, <1>4, <1>5, <1>6, <1>7, <1>8, <1>9, <1>10, <1>11, <1>12,
     <1>13 DEF Next, OperationStep, Wake

LEMMA IInvInit == Init => IInv
<1> SUFFICES ASSUME Init PROVE \A r \in Receipts : Sound(r)
  BY TypeInit, SoundIsIInv
<1> SUFFICES ASSUME NEW r \in Receipts PROVE Sound(r)
  OBVIOUS
<1>1. told[r] = <<>> /\ outcome[r] = "inProgress" /\ task[r] = "none" /\ ~notified[r]
      /\ entries = {}
  BY DEF Init
<1>2. \A N : Where(told[r], N) = {}
  BY <1>1, WhereEmpty
<1> QED BY <1>1, <1>2 DEF Sound, Said, InOrder, Single

LEMMA IInvStep == TypeOK /\ IInv /\ [Next]_vars => IInv'
<1> SUFFICES ASSUME TypeOK, IInv, [Next]_vars PROVE IInv'
  OBVIOUS
<1>1. \A r \in Receipts : Sound(r)'
  BY SoundIsIInv, SoundStep
<1>2. TypeOK'
  BY TypeStep
<1> QED BY <1>1, <1>2, SoundIsIInv DEF TypeOK, IInv, EntryIsUntold, FreshIsUnregistered,
   StartedIsKnown, AtMostOneTerminal, NoticesFollowReceipt, CancelIsSilent, GoneIsAnswered,
   Sound, InOrder, Single, Heralded, Said

THEOREM Invariance == Spec => [](TypeOK /\ IInv)
<1>1. Init => TypeOK /\ IInv
  BY TypeInit, IInvInit
<1>2. TypeOK /\ IInv /\ [Next]_vars => (TypeOK /\ IInv)'
  BY TypeStep, IInvStep
<1> QED BY <1>1, <1>2, PTL DEF Spec

(***************************************************************************)
(* The end of a command is told at most once, by whichever of the task of  *)
(* the operation, the executor and the cleanup comes first.                *)
(***************************************************************************)
THEOREM OneVerdict == Spec => []AtMostOneTerminal
BY Invariance, PTL DEF IInv

(***************************************************************************)
(* Nothing but a timeout is sent to a client before its receipt.           *)
(***************************************************************************)
THEOREM ReceiptFirst == Spec => []NoticesFollowReceipt
BY Invariance, PTL DEF IInv

(***************************************************************************)
(* A cancelled command ends in silence, and any other command that was     *)
(* handed to the executor ends with an answer.                             *)
(***************************************************************************)
THEOREM SilentOrAnswered == Spec => []AnsweredUnlessCancelled
BY Invariance, PTL DEF IInv, AnsweredUnlessCancelled
-----------------------------------------------------------------------------
(***************************************************************************)
(* Refinement of CommandPromise.  The bookkeeping of the responses that    *)
(* the refinement needs on top of IInv: a receipt is in one response only, *)
(* and it is known to the client only if that response was sent.           *)
(***************************************************************************)
OneResponse ==
  /\ \A q, p \in Requests : \A r \in batch[q] : r \in batch[p] => q = p
  /\ \A q \in Requests : \A r \in batch[q] : task[r] # "none"

KnownIsSent ==
  \A r \in Receipts : Said(r, {"receipt"}) # {} =>
    \E q \in Requests : response[q] = "sent" /\ r \in batch[q]

StartedIsNotified ==
  \A r \in Receipts : task[r] \in {"queued", "spawned", "running", "waiting"} => notified[r]

ResponseInv == OneResponse /\ KnownIsSent /\ StartedIsNotified

LEMMA ResponseInvInit == Init => ResponseInv
<1> SUFFICES ASSUME Init PROVE ResponseInv
  OBVIOUS
<1>1. \A r \in Receipts : Said(r, {"receipt"}) = {}
  BY WhereEmpty DEF Init, Said
<1> QED BY <1>1 DEF Init, ResponseInv, OneResponse, KnownIsSent, StartedIsNotified

(***************************************************************************)
(* Only sending a response makes a receipt known.                          *)
(***************************************************************************)
LEMMA ReceiptAppend ==
  ASSUME NEW s \in Seq(Notice), NEW n \in Notice
  PROVE  n # "receipt" => Where(Append(s, n), {"receipt"}) = Where(s, {"receipt"})
<1>1. Where(Append(s, n), {"receipt"}) =
        Where(s, {"receipt"}) \cup IF n \in {"receipt"} THEN {Len(s) + 1} ELSE {}
  BY WhereAppend
<1> QED BY <1>1

LEMMA NoReceiptTold ==
  ASSUME TypeOK, NEW n \in Notice, n # "receipt", NEW s \in Receipts,
         told'[s] = told[s] \/ told'[s] = Append(told[s], n)
  PROVE  Said(s, {"receipt"})' = Said(s, {"receipt"})
<1>1. told[s] \in Seq(Notice)
  BY DEF TypeOK
<1> QED BY <1>1, ReceiptAppend DEF Said

(***************************************************************************)
(* A step that sends no receipt and starts nothing keeps the bookkeeping.  *)
(***************************************************************************)
LEMMA TaskMoves ==
  ASSUME TypeOK, ResponseInv, UNCHANGED <<response, batch, notified>>,
         \A s \in Receipts : Said(s, {"receipt"})' = Said(s, {"receipt"}),
         \A s \in Receipts :
           \/ task'[s] = task[s]
           \/ task[s] # "none" /\ task'[s] = "done"
           \/ /\ task[s] \in {"queued", "spawned", "running", "waiting"}
              /\ task'[s] \in {"queued", "spawned", "running", "waiting"}
  PROVE  ResponseInv'
<1>0. \A q \in Requests : \A r \in batch[q] : r \in Receipts => task'[r] # "none"
  BY DEF ResponseInv, OneResponse
<1>1. OneResponse'
  BY <1>0 DEF TypeOK, ResponseInv, OneResponse
<1>2. KnownIsSent'
  BY DEF ResponseInv, KnownIsSent
<1>3. StartedIsNotified'
  BY DEF ResponseInv, StartedIsNotified
<1> QED BY <1>1, <1>2, <1>3 DEF ResponseInv

LEMMA ResponseInvStep == TypeOK /\ IInv /\ ResponseInv /\ [Next]_vars => ResponseInv'
<1> SUFFICES ASSUME TypeOK, IInv, ResponseInv, [Next]_vars PROVE ResponseInv'
  OBVIOUS
<1>0. "timeout" \in Notice /\ "finished" \in Notice /\ "progress" \in Notice
      /\ "suspended" \in Notice
  BY DEF Notice
<1>f. ASSUME NEW r \in Receipts, NEW caught, NEW final, Finish(r, caught, final),
             task[r] # "none", UNCHANGED <<response, batch, notified>>
      PROVE  ResponseInv'
  <2>1. \A s \in Receipts :
          \/ told'[s] = told[s] \/ told'[s] = Append(told[s], "timeout")
          \/ told'[s] = told[s] \/ told'[s] = Append(told[s], "finished")
    BY <1>f DEF Finish, TypeOK
  <2>2. \A s \in Receipts : Said(s, {"receipt"})' = Said(s, {"receipt"})
    BY <1>0, <2>1, NoReceiptTold
  <2>3. task' = [task EXCEPT ![r] = "done"]
    BY <1>f DEF Finish
  <2> QED BY <1>f, <2>2, <2>3, TaskMoves DEF TypeOK
<1>u. CASE UNCHANGED vars
  BY <1>u DEF vars, status, ResponseInv, OneResponse, KnownIsSent, StartedIsNotified, Said
<1>1. ASSUME NEW q \in Requests, BeginRequest(q) \/ EnqueueResponse(q) PROVE ResponseInv'
  BY <1>1 DEF BeginRequest, EnqueueResponse, status,
     TypeOK, ResponseInv, OneResponse, KnownIsSent, StartedIsNotified, Said
<1>2. ASSUME NEW q \in Requests, SendResponse(q) PROVE ResponseInv'
  <2>1. OneResponse'
    <3>1. \A s \in Receipts : task'[s] = "none" => task[s] = "none"
      BY <1>2 DEF SendResponse
    <3> QED BY <1>2, <3>1 DEF SendResponse, TypeOK, ResponseInv, OneResponse
  <2>2. KnownIsSent'
    <3> SUFFICES ASSUME NEW s \in Receipts, Said(s, {"receipt"})' # {}
                 PROVE  \E p \in Requests : response'[p] = "sent" /\ s \in batch'[p]
      BY DEF KnownIsSent
    <3>1. batch' = batch /\ response' = [response EXCEPT ![q] = "sent"]
      BY <1>2 DEF SendResponse
    <3>2. CASE s \in batch[q]
      BY <3>1, <3>2 DEF TypeOK
    <3>3. CASE s \notin batch[q]
      <4>1. told'[s] = told[s]
        BY <1>2, <3>3 DEF SendResponse
      <4> QED BY <3>1, <4>1 DEF Said, TypeOK, ResponseInv, KnownIsSent
    <3> QED BY <3>2, <3>3
  <2>3. StartedIsNotified'
    <3> SUFFICES ASSUME NEW s \in Receipts,
                        task'[s] \in {"queued", "spawned", "running", "waiting"}
                 PROVE  notified'[s]
      BY DEF StartedIsNotified
    <3>1. /\ notified[s] => notified'[s]
          /\ task'[s] \in {task[s], "done"} \/ notified'[s]
      BY <1>2 DEF SendResponse, TypeOK
    <3> QED BY <3>1 DEF ResponseInv, StartedIsNotified
  <2> QED BY <2>1, <2>2, <2>3 DEF ResponseInv
<1>3. ASSUME NEW q \in Requests, LoseResponse(q) PROVE ResponseInv'
  BY <1>3 DEF LoseResponse, status,
     TypeOK, ResponseInv, OneResponse, KnownIsSent, StartedIsNotified, Said
<1>4. ASSUME NEW q \in Requests, NEW r \in Receipts, New(q, r) PROVE ResponseInv'
  <2>1. /\ batch' = [batch EXCEPT ![q] = @ \cup {r}]
        /\ task[r] = "none" /\ task' = [task EXCEPT ![r] = "created"]
        /\ UNCHANGED <<response, notified, told>>
    BY <1>4 DEF New
  <2>2. \A p \in Requests : r \notin batch[p]
    BY <2>1 DEF ResponseInv, OneResponse
  <2>3. OneResponse'
    BY <2>1, <2>2 DEF TypeOK, ResponseInv, OneResponse
  <2>4. KnownIsSent'
    <3>1. \A p \in Requests : batch[p] \subseteq batch'[p]
      BY <2>1 DEF TypeOK
    <3> QED BY <2>1, <3>1 DEF ResponseInv, KnownIsSent, Said
  <2>5. StartedIsNotified'
    BY <2>1 DEF TypeOK, ResponseInv, StartedIsNotified
  <2> QED BY <2>3, <2>4, <2>5 DEF ResponseInv
<1>5. ASSUME NEW r \in Receipts, Cancel(r) \/ Resume(r) \/ DeadlinePasses(r) \/ TrioDeadline(r)
      PROVE  ResponseInv'
  BY <1>5 DEF Cancel, Resume, DeadlinePasses, TrioDeadline,
     TypeOK, ResponseInv, OneResponse, KnownIsSent, StartedIsNotified, Said
<1>6. CASE Cleanup
  <2>1. \A s \in Receipts : told'[s] = told[s] \/ told'[s] = Append(told[s], "timeout")
    BY <1>6 DEF Cleanup
  <2>2. \A s \in Receipts : Said(s, {"receipt"})' = Said(s, {"receipt"})
    BY <1>0, <2>1, NoReceiptTold
  <2>3. UNCHANGED <<response, batch, notified, task>>
    BY <1>6 DEF Cleanup
  <2> QED BY <2>2, <2>3 DEF ResponseInv, OneResponse, KnownIsSent, StartedIsNotified
<1>7. ASSUME NEW r \in Receipts, ExecuteValue(r) \/ Complete(r) PROVE ResponseInv'
  BY <1>7, <1>f DEF ExecuteValue, Complete
<1>8. ASSUME NEW r \in Receipts, ExecuteAsync(r) \/ Start(r) PROVE ResponseInv'
  BY <1>8, TaskMoves DEF ExecuteAsync, Start, status, TypeOK, Said
<1>9. ASSUME NEW r \in Receipts, DeliverCancel(r) \/ WakeExpired(r) PROVE ResponseInv'
  BY <1>9, <1>f DEF DeliverCancel, WakeExpired
<1>10. ASSUME NEW r \in Receipts, ReportProgress(r) \/ SuspendOperation(r) PROVE ResponseInv'
  <2>1. \A s \in Receipts :
          \/ told'[s] = told[s] \/ told'[s] = Append(told[s], "progress")
          \/ told'[s] = told[s] \/ told'[s] = Append(told[s], "suspended")
    BY <1>10 DEF ReportProgress, SuspendOperation, TypeOK
  <2>2. \A s \in Receipts : Said(s, {"receipt"})' = Said(s, {"receipt"})
    BY <1>0, <2>1, NoReceiptTold
  <2>3. UNCHANGED <<response, batch, notified>>
        /\ \A s \in Receipts : task'[s] = task[s] \/ (s = r /\ task[r] = "running"
                                                      /\ task'[s] = "waiting")
    BY <1>10 DEF ReportProgress, SuspendOperation, TypeOK
  <2> QED BY <2>2, <2>3, TaskMoves
<1>11. ASSUME NEW r \in Receipts, SuspendCancelled(r) \/ WakeCancelled(r) PROVE ResponseInv'
  BY <1>11, <1>f DEF SuspendCancelled, WakeCancelled
<1>12. ASSUME NEW r \in Receipts, WakeWithValue(r) PROVE ResponseInv'
  BY <1>12, TaskMoves DEF WakeWithValue, TypeOK, Said
<1> QED
  BY <1>u, <1>1, <1>2, <1>3, <1>4, <1>5, <1>6, <1>7, <1>8, <1>9, <1>10, <1>11, <1>12
     DEF Next, OperationStep, Wake
-----------------------------------------------------------------------------
LEMMA VerdictAppend ==
  ASSUME NEW s \in Seq(Notice), NEW n \in Notice
  PROVE  Verdict(Append(s, n)) = Verdict(s) \cup ({n} \cap Terminal)
<1>1. Where(Append(s, n), Terminal) =
        Where(s, Terminal) \cup IF n \in Terminal THEN {Len(s) + 1} ELSE {}
  BY WhereAppend
<1>2. \A i \in Where(s, Terminal) : Append(s, n)[i] = s[i]
  BY DEF Where
<1>3. Append(s, n)[Len(s) + 1] = n
  OBVIOUS
<1>4. CASE n \in Terminal
  BY <1>1, <1>2, <1>3, <1>4 DEF Verdict
<1>5. CASE n \notin Terminal
  BY <1>1, <1>2, <1>5 DEF Verdict
<1> QED BY <1>4, <1>5

LEMMA VerdictEmpty == ASSUME NEW s, Where(s, Terminal) = {} PROVE Verdict(s) = {}
BY DEF Verdict

(***************************************************************************)
(* The parts of the refinement mapping, for one receipt.                   *)
(***************************************************************************)
Phase(r) == CASE task[r] = "none" -> "absent" [] r \in entries -> "open" [] OTHER -> "ended"
Known(r) == Said(r, {"receipt"}) # {}
Withdrawn(r) == outcome[r] = "cancelledByUser"
Same(r) ==
  /\ Phase(r)' = Phase(r) /\ Known(r)' = Known(r)
  /\ Withdrawn(r)' = Withdrawn(r) /\ Verdict(told[r])' = Verdict(told[r])

LEMMA PromiseInit == Init => Promise!Init
<1> SUFFICES ASSUME Init PROVE Promise!Init
  OBVIOUS
<1>1. \A r \in Receipts : task[r] = "none" /\ told[r] = <<>> /\ outcome[r] = "inProgress"
  BY DEF Init
<1>2. \A r \in Receipts : Said(r, {"receipt"}) = {} /\ Verdict(told[r]) = {}
  BY <1>1, WhereEmpty, VerdictEmpty DEF Said
<1>3. [r \in Receipts |-> CASE task[r] = "none" -> "absent"
                           [] r \in entries -> "open"
                           [] OTHER -> "ended"] = [r \in Receipts |-> "absent"]
  <2>1. entries = {}
    BY DEF Init
  <2> QED BY <1>1, <2>1
<1>4. [r \in Receipts |-> Said(r, {"receipt"}) # {}] = [r \in Receipts |-> FALSE]
  <2>1. \A r \in Receipts : (Said(r, {"receipt"}) # {}) = FALSE
    BY <1>2
  <2> QED BY <2>1, Zenon
<1>5. [r \in Receipts |-> outcome[r] = "cancelledByUser"] = [r \in Receipts |-> FALSE]
  <2>1. \A r \in Receipts : (outcome[r] = "cancelledByUser") = FALSE
    BY <1>1
  <2> QED BY <2>1, Zenon
<1>6. [r \in Receipts |-> Verdict(told[r])] = [r \in Receipts |-> {}]
  BY <1>2
<1> QED BY <1>3, <1>4, <1>5, <1>6 DEF Promise!Init

LEMMA PromiseStutter ==
  (\A r \in Receipts : Same(r)) => UNCHANGED Promise!vars
BY DEF Same, Phase, Known, Withdrawn, Promise!vars

(***************************************************************************)
(* The steps of CommandPromise in terms of the mapping.                    *)
(***************************************************************************)
LEMMA PromiseRegister ==
  ASSUME NEW r \in Receipts, \A s \in Receipts \ {r} : Same(s),
         Phase(r) = "absent", Phase(r)' = "open", Known(r)' = Known(r),
         Withdrawn(r)' = Withdrawn(r), Verdict(told[r])' = Verdict(told[r])
  PROVE  Promise!Next
<1>1. Promise!Register(r)
  BY DEF Same, Phase, Known, Withdrawn, Promise!Register
<1> QED BY <1>1 DEF Promise!Next

LEMMA PromiseWithdraw ==
  ASSUME NEW r \in Receipts, \A s \in Receipts \ {r} : Same(s),
         Phase(r) = "open", Phase(r)' = "open", Known(r)' = Known(r),
         ~Withdrawn(r), Withdrawn(r)', Verdict(told[r])' = Verdict(told[r])
  PROVE  Promise!Next
<1>1. Promise!Withdraw(r)
  BY DEF Same, Phase, Known, Withdrawn, Promise!Withdraw
<1> QED BY <1>1 DEF Promise!Next

LEMMA PromiseAnnounce ==
  ASSUME NEW R \in SUBSET Receipts,
         \A r \in R : Phase(r) # "absent" /\ ~Known(r),
         \A s \in Receipts : /\ Known(s)' <=> Known(s) \/ s \in R
                             /\ Phase(s)' = Phase(s) /\ Withdrawn(s)' = Withdrawn(s)
                             /\ Verdict(told[s])' = Verdict(told[s])
  PROVE  Promise!Next
<1>1. Promise!Announce(R)
  BY DEF Phase, Known, Withdrawn, Promise!Announce
<1> QED BY <1>1 DEF Promise!Next

LEMMA PromiseExpire ==
  ASSUME NEW R \in SUBSET Receipts,
         \A r \in R : Phase(r) = "open" /\ Phase(r)' = "ended",
         \A s \in Receipts \ R : Phase(s)' = Phase(s),
         \A s \in Receipts : /\ Known(s)' = Known(s) /\ Withdrawn(s)' = Withdrawn(s)
                             /\ Verdict(told[s])' = IF s \in R /\ ~Withdrawn(s)
                                                   THEN {"timeout"} ELSE Verdict(told[s])
  PROVE  Promise!Next
<1>1. Promise!Expire(R)
  BY DEF Phase, Known, Withdrawn, Promise!Expire
<1> QED BY <1>1 DEF Promise!Next

LEMMA PromiseFinish ==
  ASSUME NEW r \in Receipts, \A s \in Receipts \ {r} : Same(s),
         Phase(r) = "open", Phase(r)' = "ended", Known(r), Known(r)',
         ~Withdrawn(r), ~Withdrawn(r)', Verdict(told[r])' = {"finished"}
  PROVE  Promise!Next
<1>1. Promise!Finish(r)
  BY DEF Same, Phase, Known, Withdrawn, Promise!Finish
<1> QED BY <1>1 DEF Promise!Next

LEMMA PromiseStep ==
  ASSUME TypeOK, IInv, ResponseInv, [Next]_vars
  PROVE  [Promise!Next]_Promise!vars
<1> DEFINE Goal == Promise!Next \/ UNCHANGED Promise!vars
<1> SUFFICES Goal
  OBVIOUS
<1>0. \A r \in Receipts : Sound(r)
  BY SoundIsIInv
<1>q. ASSUME \A s \in Receipts : Same(s) PROVE Goal
  BY <1>q, PromiseStutter
<1>n. "timeout" \in Notice /\ "finished" \in Notice /\ "progress" \in Notice
      /\ "suspended" \in Notice /\ "receipt" \in Notice
      /\ Terminal = {"finished", "timeout"}
  BY DEF Notice, Terminal
<1>t. \A r \in Receipts : told[r] \in Seq(Notice)
  BY DEF TypeOK
<1>e. \A r \in entries : r \in Receipts /\ task[r] # "none" /\ Phase(r) = "open"
                         /\ Verdict(told[r]) = {}
  BY <1>0, VerdictEmpty DEF Sound, Phase, TypeOK, Said
<1>f. ASSUME NEW r \in Receipts, NEW caught \in BOOLEAN, NEW final \in Outcome,
             Finish(r, caught, final), UNCHANGED notified,
             task[r] \in {"queued", "running", "waiting"},
             final # outcome[r] => final = "finished" /\ outcome[r] = "inProgress",
             IF caught THEN final = outcome[r] ELSE final # "inProgress"
      PROVE  Goal
  <2>1. /\ notified[r]
        /\ entries' = entries \ {r}
        /\ task' = [task EXCEPT ![r] = "done"]
        /\ \A s \in Receipts \ {r} : told'[s] = told[s] /\ outcome'[s] = outcome[s]
    BY <1>f DEF Finish, TypeOK, ResponseInv, StartedIsNotified
  <2>2. \A s \in Receipts \ {r} : Same(s)
    BY <2>1 DEF Same, Phase, Known, Withdrawn, Said, TypeOK
  <2>3. Phase(r)' = "ended" /\ Known(r)
    BY <1>0, <1>f, <2>1 DEF Phase, Known, Sound, TypeOK
  <2>4. CASE r \notin entries
    <3>1. told'[r] = told[r] /\ outcome'[r] = final
      BY <1>f, <2>4 DEF Finish, TypeOK
    <3>2. Phase(r) = "ended"
      BY <1>f, <2>4 DEF Phase
    <3>3. Same(r)
      BY <1>f, <2>3, <3>1, <3>2 DEF Same, Known, Withdrawn, Said
    <3> QED BY <1>q, <2>2, <3>3
  <2>5. CASE r \in entries /\ caught /\ final = "inProgress"
    <3>1. told'[r] = Append(told[r], "timeout") /\ outcome'[r] = "cancelledByTimeout"
          /\ outcome[r] = "inProgress"
      BY <1>f, <2>1, <2>5 DEF Finish, TypeOK
    <3>2. Verdict(told'[r]) = {"timeout"}
      <4>1. Verdict(Append(told[r], "timeout")) = Verdict(told[r]) \cup ({"timeout"} \cap Terminal)
        BY <1>n, <1>t, VerdictAppend
      <4> QED BY <1>e, <1>n, <2>5, <3>1, <4>1
    <3>3. Known(r)' /\ ~Withdrawn(r) /\ ~Withdrawn(r)'
      BY <1>n, <1>t, <2>3, <3>1, NoReceiptTold DEF Known, Withdrawn
    <3>4. Phase(r) = "open"
      BY <1>e, <2>5
    <3>5. \A s \in Receipts : s # r => Same(s)
      BY <2>2
    <3> DEFINE R == {r}
    <3>6. /\ R \in SUBSET Receipts
          /\ \A s \in R : Phase(s) = "open" /\ Phase(s)' = "ended"
          /\ \A s \in Receipts \ R : Phase(s)' = Phase(s)
      BY <2>3, <3>4, <3>5 DEF Same
    <3>7. \A s \in Receipts :
            /\ Known(s)' = Known(s) /\ Withdrawn(s)' = Withdrawn(s)
            /\ Verdict(told[s])' = IF s \in R /\ ~Withdrawn(s)
                                   THEN {"timeout"} ELSE Verdict(told[s])
      BY <2>3, <3>2, <3>3, <3>5 DEF Same, Known, Withdrawn
    <3> HIDE DEF R
    <3> QED BY <3>6, <3>7, PromiseExpire
  <2>6. CASE r \in entries /\ ~caught /\ final = "finished"
    <3>1. told'[r] = Append(told[r], "finished") /\ outcome'[r] = "finished"
      BY <1>f, <2>1, <2>6 DEF Finish, TypeOK
    <3>2. outcome[r] = "inProgress"
      BY <1>0, <1>f, <2>6 DEF Sound
    <3>3. Verdict(told'[r]) = {"finished"}
      <4>1. Verdict(Append(told[r], "finished")) = Verdict(told[r]) \cup ({"finished"} \cap Terminal)
        BY <1>n, <1>t, VerdictAppend
      <4> QED BY <1>e, <1>n, <2>6, <3>1, <4>1
    <3>4. Known(r)' /\ ~Withdrawn(r) /\ ~Withdrawn(r)'
      BY <1>n, <1>t, <2>3, <3>1, <3>2, NoReceiptTold DEF Known, Withdrawn
    <3> QED BY <1>e, <2>2, <2>3, <2>6, <3>3, <3>4, PromiseFinish
  <2>7. CASE r \in entries /\ ~(caught /\ final = "inProgress")
             /\ ~(~caught /\ final = "finished")
    <3>1. told'[r] = told[r] /\ outcome'[r] = final
      BY <1>f, <2>7 DEF Finish, TypeOK
    <3>2. outcome[r] = "cancelledByUser" /\ final = "cancelledByUser"
      BY <1>0, <1>f, <2>7 DEF Sound
    <3>3. Known(r)' = Known(r) /\ Withdrawn(r) /\ Withdrawn(r)' = Withdrawn(r)
          /\ Verdict(told'[r]) = Verdict(told[r])
      BY <3>1, <3>2 DEF Known, Withdrawn, Said
    <3>4. Phase(r) = "open"
      BY <1>e, <2>7
    <3>5. \A s \in Receipts : s # r => Same(s)
      BY <2>2
    <3> DEFINE R == {r}
    <3>6. /\ R \in SUBSET Receipts
          /\ \A s \in R : Phase(s) = "open" /\ Phase(s)' = "ended"
          /\ \A s \in Receipts \ R : Phase(s)' = Phase(s)
      BY <2>3, <3>4, <3>5 DEF Same
    <3>7. \A s \in Receipts :
            /\ Known(s)' = Known(s) /\ Withdrawn(s)' = Withdrawn(s)
            /\ Verdict(told[s])' = IF s \in R /\ ~Withdrawn(s)
                                   THEN {"timeout"} ELSE Verdict(told[s])
      BY <3>3, <3>5 DEF Same
    <3> HIDE DEF R
    <3> QED BY <3>6, <3>7, PromiseExpire
  <2> QED BY <2>4, <2>5, <2>6, <2>7
<1>u. CASE UNCHANGED vars
  <2>1. \A s \in Receipts : Same(s)
    BY <1>u DEF vars, status, Same, Phase, Known, Withdrawn, Said
  <2> QED BY <1>q, <2>1
<1>1. ASSUME NEW q \in Requests, BeginRequest(q) \/ EnqueueResponse(q) PROVE Goal
  <2>1. \A s \in Receipts : Same(s)
    BY <1>1 DEF BeginRequest, EnqueueResponse, status, Same, Phase, Known, Withdrawn, Said
  <2> QED BY <1>q, <2>1
<1>2. ASSUME NEW q \in Requests, SendResponse(q) PROVE Goal
  <2>1. \A s \in Receipts :
          /\ told'[s] = IF s \in batch[q] THEN Append(told[s], "receipt") ELSE told[s]
          /\ entries' = entries /\ outcome' = outcome
          /\ task'[s] = "none" <=> task[s] = "none"
    BY <1>2 DEF SendResponse, ResponseInv, OneResponse
  <2>2. \A s \in Receipts :
          /\ Phase(s)' = Phase(s) /\ Withdrawn(s)' = Withdrawn(s)
          /\ Verdict(told[s])' = Verdict(told[s])
    BY <1>n, <1>t, <2>1, VerdictAppend DEF Phase, Withdrawn
  <2>3. \A s \in Receipts : Known(s)' <=> Known(s) \/ s \in batch[q]
    <3> SUFFICES ASSUME NEW s \in Receipts PROVE Known(s)' <=> Known(s) \/ s \in batch[q]
      OBVIOUS
    <3>1. CASE s \in batch[q]
      <4>1. Where(Append(told[s], "receipt"), {"receipt"}) =
              Where(told[s], {"receipt"}) \cup {Len(told[s]) + 1}
        BY <1>n, <1>t, WhereAppend
      <4> QED BY <2>1, <3>1, <4>1 DEF Known, Said
    <3>2. CASE s \notin batch[q]
      BY <2>1, <3>2 DEF Known, Said
    <3> QED BY <3>1, <3>2
  <2>4. \A s \in batch[q] : s \in Receipts /\ Phase(s) # "absent" /\ ~Known(s)
    <3> SUFFICES ASSUME NEW s \in batch[q]
                 PROVE  s \in Receipts /\ Phase(s) # "absent" /\ ~Known(s)
      OBVIOUS
    <3>1. s \in Receipts /\ task[s] # "none"
      BY DEF TypeOK, ResponseInv, OneResponse
    <3>2. response[q] = "pending"
      BY <1>2 DEF SendResponse
    <3>3. ~Known(s)
      BY <3>1, <3>2 DEF Known, ResponseInv, KnownIsSent, OneResponse
    <3> QED BY <3>1, <3>3 DEF Phase
  <2> QED BY <2>2, <2>3, <2>4, PromiseAnnounce, batch[q] \in SUBSET Receipts
<1>3. ASSUME NEW q \in Requests, LoseResponse(q) PROVE Goal
  <2>1. \A s \in Receipts : task'[s] = "none" <=> task[s] = "none"
    BY <1>3 DEF LoseResponse, ResponseInv, OneResponse
  <2>2. \A s \in Receipts : Same(s)
    BY <1>3, <2>1 DEF LoseResponse, status, Same, Phase, Known, Withdrawn, Said
  <2> QED BY <1>q, <2>2
<1>4. ASSUME NEW q \in Requests, NEW r \in Receipts, New(q, r) PROVE Goal
  <2>1. \A s \in Receipts \ {r} : Same(s)
    BY <1>4 DEF New, Same, Phase, Known, Withdrawn, Said, TypeOK
  <2>2. Phase(r) = "absent" /\ Phase(r)' = "open"
    BY <1>0, <1>4 DEF New, Phase, TypeOK, Sound
  <2>3. Known(r)' = Known(r) /\ Withdrawn(r)' = Withdrawn(r)
        /\ Verdict(told[r])' = Verdict(told[r])
    BY <1>4 DEF New, Known, Withdrawn, Said
  <2> QED BY <2>1, <2>2, <2>3, PromiseRegister
<1>5. ASSUME NEW r \in Receipts, Cancel(r) PROVE Goal
  <2>1. \A s \in Receipts \ {r} : Same(s)
    BY <1>5 DEF Cancel, Same, Phase, Known, Withdrawn, Said, TypeOK
  <2>2. Phase(r) = "open" /\ Phase(r)' = "open" /\ ~Withdrawn(r) /\ Withdrawn(r)'
    BY <1>5, <1>e DEF Cancel, Phase, Withdrawn, InProgress, TypeOK
  <2>3. Known(r)' = Known(r) /\ Verdict(told[r])' = Verdict(told[r])
    BY <1>5 DEF Cancel, Known, Said
  <2> QED BY <2>1, <2>2, <2>3, PromiseWithdraw
<1>6. ASSUME NEW r \in Receipts, Resume(r) \/ DeadlinePasses(r) \/ TrioDeadline(r) PROVE Goal
  <2>1. \A s \in Receipts : Same(s)
    BY <1>6 DEF Resume, DeadlinePasses, TrioDeadline, Same, Phase, Known, Withdrawn, Said
  <2> QED BY <1>q, <2>1
<1>7. CASE Cleanup
  <2> DEFINE stale == {r \in entries : ~InProgress(r) \/ timer[r] = "passed"}
  <2>1. /\ entries' = entries \ stale /\ stale \in SUBSET Receipts /\ stale \subseteq entries
        /\ UNCHANGED <<outcome, task>>
        /\ \A s \in Receipts : told'[s] = IF s \in stale /\ InProgress(s)
                                          THEN Append(told[s], "timeout") ELSE told[s]
    BY <1>7 DEF Cleanup, TypeOK
  <2>2. \A s \in stale : Phase(s) = "open" /\ Phase(s)' = "ended"
    BY <1>e, <2>1 DEF Phase
  <2>3. \A s \in Receipts \ stale : Phase(s)' = Phase(s)
    BY <2>1 DEF Phase
  <2>4. \A s \in Receipts : Known(s)' = Known(s) /\ Withdrawn(s)' = Withdrawn(s)
    BY <1>n, <2>1, NoReceiptTold DEF Known, Withdrawn
  <2>5. \A s \in Receipts :
          Verdict(told[s])' = IF s \in stale /\ ~Withdrawn(s) THEN {"timeout"}
                              ELSE Verdict(told[s])
    <3> SUFFICES ASSUME NEW s \in Receipts
                 PROVE  Verdict(told'[s]) = IF s \in stale /\ ~Withdrawn(s) THEN {"timeout"}
                                            ELSE Verdict(told[s])
      OBVIOUS
    <3>1. s \in stale => (InProgress(s) <=> ~Withdrawn(s))
      BY <1>0 DEF Sound, Withdrawn, InProgress
    <3>2. CASE s \in stale /\ InProgress(s)
      <4>1. Verdict(Append(told[s], "timeout")) = Verdict(told[s]) \cup ({"timeout"} \cap Terminal)
        BY <1>n, <1>t, VerdictAppend
      <4> QED BY <1>e, <1>n, <2>1, <3>1, <3>2, <4>1
    <3>3. CASE ~(s \in stale /\ InProgress(s))
      BY <2>1, <3>1, <3>3
    <3> QED BY <3>2, <3>3
  <2> HIDE DEF stale
  <2> QED BY <2>1, <2>2, <2>3, <2>4, <2>5, PromiseExpire
<1>8. ASSUME NEW r \in Receipts, ExecuteValue(r) \/ Complete(r) PROVE Goal
  <2>1. Finished(r) \in Outcome
    BY FinishedType
  <2>2. /\ Finished(r) # outcome[r] => Finished(r) = "finished" /\ outcome[r] = "inProgress"
        /\ Finished(r) # "inProgress"
    BY DEF Finished, InProgress
  <2>3. Finish(r, FALSE, Finished(r)) /\ UNCHANGED notified /\ task[r] \in {"queued", "running"}
    BY <1>8 DEF ExecuteValue, Complete
  <2> QED BY <1>f, <2>1, <2>2, <2>3
<1>9. ASSUME NEW r \in Receipts, ExecuteAsync(r) \/ Start(r) PROVE Goal
  <2>1. \A s \in Receipts : Same(s)
    BY <1>9 DEF ExecuteAsync, Start, status, Same, Phase, Known, Withdrawn, Said, TypeOK
  <2> QED BY <1>q, <2>1
<1>10. ASSUME NEW r \in Receipts, DeliverCancel(r) \/ WakeExpired(r) PROVE Goal
  <2>1. outcome[r] \in Outcome
    BY DEF TypeOK
  <2>2. Finish(r, TRUE, outcome[r]) /\ UNCHANGED notified /\ task[r] \in {"running", "waiting"}
    BY <1>10 DEF DeliverCancel, WakeExpired
  <2> QED BY <1>f, <2>1, <2>2
<1>11. ASSUME NEW r \in Receipts, ReportProgress(r) \/ SuspendOperation(r) PROVE Goal
  <2>1. PICK n \in {"progress", "suspended"} : told' = [told EXCEPT ![r] = Append(@, n)]
    BY <1>11 DEF ReportProgress, SuspendOperation
  <2>2. n \in Notice /\ n \notin Terminal /\ n # "receipt"
    BY <1>n
  <2>3. UNCHANGED <<entries, outcome>>
        /\ \A s \in Receipts : task'[s] = "none" <=> task[s] = "none"
    BY <1>11 DEF ReportProgress, SuspendOperation, TypeOK
  <2>4. \A s \in Receipts : told'[s] = told[s] \/ told'[s] = Append(told[s], n)
    BY <2>1 DEF TypeOK
  <2>5. \A s \in Receipts : Known(s)' = Known(s)
    BY <2>2, <2>4, NoReceiptTold DEF Known
  <2>6. \A s \in Receipts : Verdict(told[s])' = Verdict(told[s])
    <3>1. \A s \in Receipts :
            Verdict(Append(told[s], n)) = Verdict(told[s]) \cup ({n} \cap Terminal)
      BY <1>t, <2>2, VerdictAppend
    <3>2. {n} \cap Terminal = {}
      BY <2>2
    <3> QED BY <2>4, <3>1, <3>2
  <2>7. \A s \in Receipts : Same(s)
    BY <2>3, <2>5, <2>6 DEF Same, Phase, Withdrawn
  <2> QED BY <1>q, <2>7
<1>12. ASSUME NEW r \in Receipts, SuspendCancelled(r) \/ WakeCancelled(r) PROVE Goal
  <2>1. outcome[r] \in Outcome /\ outcome[r] # "inProgress"
    BY <1>12 DEF SuspendCancelled, WakeCancelled, InProgress, TypeOK
  <2>2. Finish(r, FALSE, outcome[r]) /\ UNCHANGED notified /\ task[r] \in {"running", "waiting"}
    BY <1>12 DEF SuspendCancelled, WakeCancelled
  <2> QED BY <1>f, <2>1, <2>2
<1>13. ASSUME NEW r \in Receipts, WakeWithValue(r) PROVE Goal
  <2>1. \A s \in Receipts : Same(s)
    BY <1>13 DEF WakeWithValue, Same, Phase, Known, Withdrawn, Said, TypeOK
  <2> QED BY <1>q, <2>1
<1> HIDE DEF Goal
<1> QED
  BY <1>u, <1>1, <1>2, <1>3, <1>4, <1>5, <1>6, <1>7, <1>8, <1>9, <1>10, <1>11, <1>12,
     <1>13 DEF Next, OperationStep, Wake

(***************************************************************************)
(* The manager implements CommandPromise: a client that knows a receipt is *)
(* told exactly one verdict when the command ends, and none if it withdrew *)
(* the command.                                                            *)
(***************************************************************************)
THEOREM Implements == Spec => KeepsPromise
<1>1. Init => TypeOK /\ IInv /\ ResponseInv /\ Promise!Init
  BY TypeInit, IInvInit, ResponseInvInit, PromiseInit
<1>2. TypeOK /\ IInv /\ ResponseInv /\ [Next]_vars => (TypeOK /\ IInv /\ ResponseInv)'
  BY TypeStep, IInvStep, ResponseInvStep
<1>3. TypeOK /\ IInv /\ ResponseInv /\ [Next]_vars => [Promise!Next]_Promise!vars
  BY PromiseStep
<1> QED BY <1>1, <1>2, <1>3, PTL DEF Spec, KeepsPromise, Promise!Spec
-----------------------------------------------------------------------------
(***************************************************************************)
(* WaitingIsUndisturbed.  The deadline of a command that waits for its     *)
(* client is off, so the cleanup does not report it as expired.            *)
(***************************************************************************)
DeadlineIsOff == \A r \in Receipts : task[r] = "waiting" => timer[r] = "infinite"

LEMMA DeadlineStep == TypeOK /\ DeadlineIsOff /\ [Next]_vars => DeadlineIsOff'
<1> SUFFICES ASSUME TypeOK, DeadlineIsOff, [Next]_vars,
                    NEW s \in Receipts, task'[s] = "waiting"
             PROVE  timer'[s] = "infinite"
  BY DEF DeadlineIsOff
<1>0. task[s] = "waiting" => timer[s] = "infinite"
  BY DEF DeadlineIsOff
<1>f. ASSUME NEW r \in Receipts, NEW caught, NEW final, Finish(r, caught, final)
      PROVE  s # r /\ task[s] = "waiting"
  BY <1>f DEF Finish, TypeOK
<1>1. CASE UNCHANGED vars
  BY <1>0, <1>1 DEF vars, status
<1>2. ASSUME NEW q \in Requests,
             BeginRequest(q) \/ EnqueueResponse(q) \/ LoseResponse(q)
      PROVE  timer'[s] = "infinite"
  BY <1>0, <1>2 DEF BeginRequest, EnqueueResponse, LoseResponse, status
<1>3. ASSUME NEW q \in Requests, SendResponse(q) PROVE timer'[s] = "infinite"
  <2>1. timer' = timer
    BY <1>3 DEF SendResponse
  <2>2. task[s] = "waiting"
    BY <1>3 DEF SendResponse
  <2> QED BY <1>0, <2>1, <2>2
<1>4. ASSUME NEW q \in Requests, NEW r \in Receipts, New(q, r)
      PROVE  timer'[s] = "infinite"
  BY <1>0, <1>4 DEF New, TypeOK
<1>5. ASSUME NEW r \in Receipts, Cancel(r) \/ Resume(r) \/ TrioDeadline(r)
      PROVE  timer'[s] = "infinite"
  BY <1>0, <1>5 DEF Cancel, Resume, TrioDeadline
<1>6. ASSUME NEW r \in Receipts, DeadlinePasses(r) PROVE timer'[s] = "infinite"
  BY <1>0, <1>6 DEF DeadlinePasses, TypeOK
<1>7. ASSUME NEW r \in Receipts, ExecuteAsync(r) \/ Start(r)
      PROVE  timer'[s] = "infinite"
  BY <1>0, <1>7 DEF ExecuteAsync, Start, status, TypeOK
<1>8. ASSUME NEW r \in Receipts,
             \/ ExecuteValue(r) \/ Complete(r) \/ DeliverCancel(r)
             \/ SuspendCancelled(r) \/ WakeCancelled(r)
      PROVE  timer'[s] = "infinite"
  <2>1. task[s] = "waiting"
    BY <1>8, <1>f DEF ExecuteValue, Complete, DeliverCancel, SuspendCancelled, WakeCancelled
  <2>2. timer' = timer
    BY <1>8 DEF ExecuteValue, Complete, DeliverCancel, SuspendCancelled, WakeCancelled
  <2> QED BY <1>0, <2>1, <2>2
<1>9. ASSUME NEW r \in Receipts, WakeExpired(r) PROVE timer'[s] = "infinite"
  <2>1. s # r /\ task[s] = "waiting"
    BY <1>9, <1>f DEF WakeExpired
  <2>2. timer' = [timer EXCEPT ![r] = "ahead"]
    BY <1>9 DEF WakeExpired
  <2> QED BY <1>0, <2>1, <2>2 DEF TypeOK
<1>10. ASSUME NEW r \in Receipts,
              ReportProgress(r) \/ SuspendOperation(r) \/ WakeWithValue(r)
       PROVE  timer'[s] = "infinite"
  BY <1>0, <1>10 DEF ReportProgress, SuspendOperation, WakeWithValue, TypeOK
<1>11. CASE Cleanup
  BY <1>0, <1>11 DEF Cleanup
<1> QED
  BY <1>1, <1>2, <1>3, <1>4, <1>5, <1>6, <1>7, <1>8, <1>9, <1>10, <1>11
     DEF Next, OperationStep, Wake

(***************************************************************************)
(* The response with the receipt of a command that waits has been sent.    *)
(***************************************************************************)
LEMMA WaitingIsSent ==
  ASSUME IInv, ResponseInv, NEW r \in Receipts, task[r] = "waiting",
         NEW q \in Requests, r \in batch[q]
  PROVE  response[q] = "sent"
<1>1. Said(r, {"receipt"}) # {}
  BY DEF IInv, StartedIsKnown
<1>2. PICK p \in Requests : response[p] = "sent" /\ r \in batch[p]
  BY <1>1 DEF ResponseInv, KnownIsSent
<1>3. p = q
  BY <1>2 DEF ResponseInv, OneResponse
<1> QED BY <1>2, <1>3

LEMMA WaitingStep ==
  ASSUME TypeOK, IInv, ResponseInv, DeadlineIsOff, [Next]_vars,
         NEW s \in Receipts, task[s] = "waiting", task'[s] = "waiting"
  PROVE  told'[s] = told[s]
<1>0. timer[s] = "infinite"
  BY DEF DeadlineIsOff
<1>f. ASSUME NEW r \in Receipts, NEW caught, NEW final, Finish(r, caught, final)
      PROVE  told'[s] = told[s]
  BY <1>f DEF Finish, TypeOK
<1>1. CASE UNCHANGED vars
  BY <1>1 DEF vars
<1>2. ASSUME NEW q \in Requests,
             BeginRequest(q) \/ EnqueueResponse(q) \/ LoseResponse(q)
      PROVE  told' = told
  BY <1>2 DEF BeginRequest, EnqueueResponse, LoseResponse
<1>3. ASSUME NEW q \in Requests, SendResponse(q) PROVE told'[s] = told[s]
  <2>1. s \notin batch[q]
    BY <1>3, WaitingIsSent DEF SendResponse
  <2>2. told'[s] = IF s \in batch[q] THEN Append(told[s], "receipt") ELSE told[s]
    BY <1>3 DEF SendResponse
  <2> QED BY <2>1, <2>2
<1>4. ASSUME NEW q \in Requests, NEW r \in Receipts, New(q, r) PROVE told' = told
  BY <1>4 DEF New
<1>5. ASSUME NEW r \in Receipts,
             \/ Cancel(r) \/ Resume(r) \/ DeadlinePasses(r) \/ TrioDeadline(r)
             \/ ExecuteAsync(r) \/ Start(r) \/ WakeWithValue(r)
      PROVE  told' = told
  BY <1>5 DEF Cancel, Resume, DeadlinePasses, TrioDeadline, ExecuteAsync, Start,
     WakeWithValue
<1>6. ASSUME NEW r \in Receipts,
             \/ ExecuteValue(r) \/ Complete(r) \/ DeliverCancel(r)
             \/ SuspendCancelled(r) \/ WakeCancelled(r) \/ WakeExpired(r)
      PROVE  told'[s] = told[s]
  BY <1>6, <1>f DEF ExecuteValue, Complete, DeliverCancel, SuspendCancelled, WakeCancelled,
     WakeExpired
<1>7. ASSUME NEW r \in Receipts, ReportProgress(r) \/ SuspendOperation(r)
      PROVE  told'[s] = told[s]
  BY <1>7 DEF ReportProgress, SuspendOperation, TypeOK
<1>8. CASE Cleanup
  <2>1. told'[s] = IF s \in {r \in entries : ~InProgress(r) \/ timer[r] = "passed"}
                        /\ InProgress(s)
                   THEN Append(told[s], "timeout") ELSE told[s]
    BY <1>8 DEF Cleanup
  <2> QED BY <1>0, <2>1
<1> QED
  BY <1>1, <1>2, <1>3, <1>4, <1>5, <1>6, <1>7, <1>8 DEF Next, OperationStep, Wake

(***************************************************************************)
(* No command is reported as expired or finished, and nothing else is told *)
(* about it, while it waits for its client.                                *)
(***************************************************************************)
THEOREM WaitsInPeace == Spec => WaitingIsUndisturbed
<1> DEFINE Inv == TypeOK /\ IInv /\ ResponseInv /\ DeadlineIsOff
           Quiet == \A r \in Receipts :
                      task[r] = "waiting" /\ task'[r] = "waiting" => told'[r] = told[r]
<1>1. Init => Inv
  <2>1. Init => DeadlineIsOff
    BY DEF Init, DeadlineIsOff
  <2> QED BY <2>1, TypeInit, IInvInit, ResponseInvInit
<1>2. Inv /\ [Next]_vars => Inv'
  BY TypeStep, IInvStep, ResponseInvStep, DeadlineStep
<1>3. Inv /\ [Next]_vars => Quiet
  BY WaitingStep
<1> HIDE DEF Inv, Quiet
<1>4. Spec => [][Quiet]_vars
  BY <1>1, <1>2, <1>3, PTL DEF Spec
<1> QED BY <1>4 DEF WaitingIsUndisturbed, Quiet
==============================================================================
