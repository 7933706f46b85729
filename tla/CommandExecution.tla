-------------------------- MODULE CommandExecution --------------------------
(***************************************************************************)
(* The manager of asynchronous commands (commands.py, model/commands.py)   *)
(* together with the request handlers of the application that create,      *)
(* cancel and resume commands (app.py).                                    *)
(*                                                                         *)
(* A request whose driver method returned awaitables gets a response with  *)
(* one receipt per awaitable.  The operation behind a receipt is started   *)
(* only after the response has been sent.  From then on the executor task, *)
(* the task of the operation, the periodic cleanup, Trio's deadlines and   *)
(* the client's cancel and resume requests race with each other.           *)
(*                                                                         *)
(* Each action is the code a task runs between two Trio checkpoints.  Time *)
(* is abstracted to the state of each deadline: ahead, passed, or at       *)
(* infinity.                                                               *)
(***************************************************************************)
EXTENDS Naturals, Sequences, FiniteSets

CONSTANTS
  Requests,       (* requests of the clients that create commands           *)
  Receipts,       (* receipt identifiers; one per command                   *)
  QueueCapacity,  (* size of the memory channel to the executor (256)       *)
  MaxYields       (* bound: progress reports and suspensions per operation  *)

ASSUME QueueAssumption == QueueCapacity \in Nat
ASSUME YieldAssumption == MaxYields \in Nat
ASSUME ReceiptsFinite == IsFiniteSet(Receipts)

VARIABLES
  response,   (* request -> progress of its response                        *)
  batch,      (* request -> receipts put in its response                    *)
  entries,    (* receipts registered in the manager                         *)
  outcome,    (* receipt -> finished / cancelled timestamps of the status   *)
  notified,   (* receipt -> is client_notified set                          *)
  timer,      (* receipt -> deadline relative to now                        *)
  scope,      (* receipt -> has the cancel scope been cancelled             *)
  future,     (* receipt -> _suspension_future                              *)
  task,       (* receipt -> where its operation is                          *)
  yields,     (* receipt -> number of items yielded by the operation        *)
  told,       (* receipt -> notices for the client, in the order of sending *)
  up          (* FALSE once an exception escaped from the message hub       *)

status == <<entries, outcome, notified, timer, scope, future>>
vars == <<response, batch, status, task, yields, told, up>>

Outcome == {"inProgress", "finished", "cancelledByUser", "cancelledByTimeout"}
Notice == {"receipt", "progress", "suspended", "finished", "timeout"}
TaskState == {"none", "created", "queued", "spawned", "running", "waiting", "done"}

(***************************************************************************)
(* The notices that tell the client that nothing more will come.           *)
(***************************************************************************)
Terminal == {"finished", "timeout"}

(***************************************************************************)
(* Status objects handed to the executor task and not yet processed.       *)
(***************************************************************************)
Queued == {r \in Receipts : task[r] = "queued"}

InProgress(r) == outcome[r] = "inProgress"

Init ==
  /\ response = [q \in Requests |-> "none"]
  /\ batch    = [q \in Requests |-> {}]
  /\ entries  = {}
  /\ outcome  = [r \in Receipts |-> "inProgress"]
  /\ notified = [r \in Receipts |-> FALSE]
  /\ timer    = [r \in Receipts |-> "ahead"]
  /\ scope    = [r \in Receipts |-> FALSE]
  /\ future   = [r \in Receipts |-> "none"]
  /\ task     = [r \in Receipts |-> "none"]
  /\ yields   = [r \in Receipts |-> 0]
  /\ told     = [r \in Receipts |-> <<>>]
  /\ up       = TRUE

-----------------------------------------------------------------------------
(* Request handlers of the application.                                    *)

(***************************************************************************)
(* A handler starts to serve a request that addresses UAVs.                *)
(***************************************************************************)
BeginRequest(q) ==
  /\ up
  /\ response[q] = "none"
  /\ response' = [response EXCEPT ![q] = "open"]
  /\ UNCHANGED <<batch, status, task, yields, told, up>>

\* Mutant: the operation is started when the command is registered.
New_StartsAtOnce(q, r) ==
  /\ up
  /\ response[q] = "open"
  /\ task[r] = "none"
  /\ batch' = [batch EXCEPT ![q] = @ \cup {r}]
  /\ entries' = entries \cup {r}
  /\ timer' = [timer EXCEPT ![r] = "ahead"]
  /\ task' = [task EXCEPT ![r] = "queued"]
  /\ UNCHANGED <<response, outcome, notified, scope, future, yields, told, up>>

(***************************************************************************)
(* The driver returned an awaitable for one UAV: register a new command.   *)
(* The handler may await another driver before and after this step.        *)
(***************************************************************************)
New(q, r) ==
  /\ up
  /\ response[q] = "open"
  /\ task[r] = "none"
  /\ batch' = [batch EXCEPT ![q] = @ \cup {r}]
  /\ entries' = entries \cup {r}
  /\ timer' = [timer EXCEPT ![r] = "ahead"]
  /\ task' = [task EXCEPT ![r] = "created"]
  /\ UNCHANGED <<response, outcome, notified, scope, future, yields, told, up>>

(***************************************************************************)
(* The handler returned its response, which is now in the queue of the hub *)
(* or being written to the channel of the client.                          *)
(***************************************************************************)
EnqueueResponse(q) ==
  /\ up
  /\ response[q] = "open"
  /\ response' = [response EXCEPT ![q] = "pending"]
  /\ UNCHANGED <<batch, status, task, yields, told, up>>

(***************************************************************************)
(* The channel accepted the response.  The hub calls                       *)
(* mark_as_clients_notified() for each receipt in it.  Receipts that       *)
(* expired meanwhile are skipped; the others are handed to the executor.   *)
(* The executor holds at most one status on top of those in the channel; a *)
(* full channel raises WouldBlock, which escapes from the message hub.     *)
(***************************************************************************)
SendResponse(q) ==
  LET live == batch[q] \cap entries IN
  /\ up
  /\ response[q] = "pending"
  /\ response' = [response EXCEPT ![q] = "sent"]
  /\ told' = [r \in Receipts |->
                IF r \in batch[q] THEN Append(told[r], "receipt") ELSE told[r]]
  /\ \/ /\ Cardinality(Queued \cup live) <= QueueCapacity + 1
        /\ notified' = [r \in Receipts |-> notified[r] \/ r \in live]
        /\ task' = [r \in Receipts |->
                      CASE r \in live -> "queued"
                        [] r \in batch[q] \ live -> "done"
                        [] OTHER -> task[r]]
        /\ UNCHANGED up
     \/ /\ Cardinality(Queued \cup live) > QueueCapacity + 1
        /\ \E marked \in SUBSET live, r \in live :
             /\ r \notin marked
             /\ Cardinality(Queued \cup marked) = QueueCapacity + 1
             /\ notified' = [s \in Receipts |-> notified[s] \/ s \in marked \cup {r}]
             /\ task' = [s \in Receipts |-> IF s \in marked THEN "queued" ELSE task[s]]
        /\ up' = FALSE
  /\ UNCHANGED <<batch, entries, outcome, timer, scope, future, yields>>

(***************************************************************************)
(* The response is never sent: the handler failed, the client is gone, the *)
(* channel raised an exception or a middleware dropped the response.  The  *)
(* awaitables of its receipts are dropped with it.                         *)
(***************************************************************************)
LoseResponse(q) ==
  /\ up
  /\ response[q] \in {"open", "pending"}
  /\ response' = [response EXCEPT ![q] = "lost"]
  /\ task' = [r \in Receipts |-> IF r \in batch[q] THEN "done" ELSE task[r]]
  /\ UNCHANGED <<batch, status, yields, told, up>>

(***************************************************************************)
(* ASYNC-CANCEL for a valid receipt.  Cancelling the scope of a command    *)
(* whose task has not entered it yet takes effect when it does.            *)
(***************************************************************************)
Cancel(r) ==
  /\ up
  /\ r \in entries
  /\ InProgress(r)
  /\ outcome' = [outcome EXCEPT ![r] = "cancelledByUser"]
  /\ scope' = [scope EXCEPT ![r] = TRUE]
  /\ UNCHANGED <<response, batch, entries, notified, timer, future, task, yields,
                 told, up>>

(***************************************************************************)
(* ASYNC-RESUME for a valid receipt whose command is suspended; a future   *)
(* that was set before keeps its value.                                    *)
(***************************************************************************)
Resume(r) ==
  /\ up
  /\ r \in entries
  /\ future[r] = "pending"
  /\ future' = [future EXCEPT ![r] = "set"]
  /\ UNCHANGED <<response, batch, entries, outcome, notified, timer, scope, task,
                 yields, told, up>>
-----------------------------------------------------------------------------
(* Time.                                                                   *)

(***************************************************************************)
(* The deadline of a command that somebody may still look at passes.       *)
(***************************************************************************)
DeadlinePasses(r) ==
  /\ up
  /\ r \in entries \/ task[r] \in {"queued", "spawned", "running"}
  /\ timer[r] = "ahead"
  /\ timer' = [timer EXCEPT ![r] = "passed"]
  /\ UNCHANGED <<response, batch, entries, outcome, notified, scope, future, task,
                 yields, told, up>>

(***************************************************************************)
(* Trio looks at the deadlines once before it runs a batch of tasks, and   *)
(* cancels the scopes that have been entered and have expired.             *)
(***************************************************************************)
TrioDeadline(r) ==
  /\ up
  /\ task[r] \in {"running", "waiting"}
  /\ timer[r] = "passed"
  /\ ~scope[r]
  /\ scope' = [scope EXCEPT ![r] = TRUE]
  /\ UNCHANGED <<response, batch, entries, outcome, notified, timer, future, task,
                 yields, told, up>>

\* Mutant: commands that the user has cancelled are reported, too.
Cleanup_ReportsAll ==
  LET stale == {r \in entries : ~InProgress(r) \/ timer[r] = "passed"} IN
  /\ up
  /\ stale # {}
  /\ entries' = entries \ stale
  /\ told' = [r \in Receipts |->
                IF r \in stale THEN Append(told[r], "timeout") ELSE told[r]]
  /\ UNCHANGED <<response, batch, outcome, notified, timer, scope, future, task,
                 yields, up>>

\* Mutant: commands whose receipt was never sent are not looked at.
Cleanup_OnlyNotified ==
  LET stale == {r \in entries : notified[r] /\ (~InProgress(r) \/ timer[r] = "passed")} IN
  /\ up
  /\ stale # {}
  /\ entries' = entries \ stale
  /\ told' = [r \in Receipts |->
                IF r \in stale /\ InProgress(r)
                THEN Append(told[r], "timeout") ELSE told[r]]
  /\ UNCHANGED <<response, batch, outcome, notified, timer, scope, future, task,
                 yields, up>>

(***************************************************************************)
(* The periodic cleanup drops the commands that are over or past their     *)
(* deadline, and reports those in progress as expired, whether or not the  *)
(* client knows the receipt.                                               *)
(***************************************************************************)
Cleanup ==
  LET stale == {r \in entries : ~InProgress(r) \/ timer[r] = "passed"} IN
  /\ up
  /\ stale # {}
  /\ entries' = entries \ stale
  /\ told' = [r \in Receipts |->
                IF r \in stale /\ InProgress(r)
                THEN Append(told[r], "timeout") ELSE told[r]]
  /\ UNCHANGED <<response, batch, outcome, notified, timer, scope, future, task,
                 yields, up>>
-----------------------------------------------------------------------------
(* The executor task and the tasks of the operations.                      *)

\* Mutant: the end is reported even if the command is not registered any more.
Finish_IgnoresEntries(r, caught, final) ==
  LET expired  == caught /\ final = "inProgress"
      reported == ~caught /\ final = "finished"
      notice   == IF expired THEN "timeout" ELSE "finished"
  IN
  /\ entries' = entries \ {r}
  /\ outcome' = [outcome EXCEPT ![r] = IF expired THEN "cancelledByTimeout" ELSE final]
  /\ scope' = [scope EXCEPT ![r] = @ \/ expired]
  /\ told' = [told EXCEPT ![r] = IF notified[r] /\ (expired \/ reported)
                                 THEN Append(@, notice) ELSE @]
  /\ task' = [task EXCEPT ![r] = "done"]

(***************************************************************************)
(* _finish(): the one place where the task of an operation reports its     *)
(* end.  `caught' tells whether the cancel scope absorbed a Cancelled      *)
(* exception and `final' is the outcome before the call.                   *)
(***************************************************************************)
Finish(r, caught, final) ==
  LET expired  == r \in entries /\ caught /\ final = "inProgress"
      reported == r \in entries /\ ~caught /\ final = "finished"
      notice   == IF expired THEN "timeout" ELSE "finished"
  IN
  /\ entries' = entries \ {r}
  /\ outcome' = [outcome EXCEPT ![r] = IF expired THEN "cancelledByTimeout" ELSE final]
  /\ scope' = [scope EXCEPT ![r] = @ \/ expired]
  /\ told' = [told EXCEPT ![r] = IF notified[r] /\ (expired \/ reported)
                                 THEN Append(@, notice) ELSE @]
  /\ task' = [task EXCEPT ![r] = "done"]

\* Mutant: a late result overwrites the cancellation.
Finished_Overwrites(r) == "finished"

(***************************************************************************)
(* mark_as_finished(): a no-op unless the command is in progress.          *)
(***************************************************************************)
Finished(r) == IF InProgress(r) THEN "finished" ELSE outcome[r]

(***************************************************************************)
(* The executor takes a status whose result is a plain value ...           *)
(***************************************************************************)
ExecuteValue(r) ==
  /\ up
  /\ task[r] = "queued"
  /\ Finish(r, FALSE, Finished(r))
  /\ UNCHANGED <<response, batch, notified, timer, future, yields, up>>

(***************************************************************************)
(* ... or one whose result is awaitable: it gets a task of its own.  The   *)
(* executor does not look at the entries or at the outcome.                *)
(***************************************************************************)
ExecuteAsync(r) ==
  /\ up
  /\ task[r] = "queued"
  /\ task' = [task EXCEPT ![r] = "spawned"]
  /\ UNCHANGED <<response, batch, status, yields, told, up>>

(***************************************************************************)
(* The task enters the cancel scope and runs to the first checkpoint.      *)
(***************************************************************************)
Start(r) ==
  /\ up
  /\ task[r] = "spawned"
  /\ task' = [task EXCEPT ![r] = "running"]
  /\ UNCHANGED <<response, batch, status, yields, told, up>>

(***************************************************************************)
(* The operation ends with a value or an exception, or with the            *)
(* RuntimeError that set_deadline_from_now() raises on a command that the  *)
(* user has cancelled.                                                     *)
(***************************************************************************)
Complete(r) ==
  /\ up
  /\ task[r] = "running"
  /\ Finish(r, FALSE, Finished(r))
  /\ UNCHANGED <<response, batch, notified, timer, future, yields, up>>

(***************************************************************************)
(* Trio delivers the cancellation at a checkpoint of the operation.        *)
(***************************************************************************)
DeliverCancel(r) ==
  /\ up
  /\ task[r] = "running"
  /\ scope[r]
  /\ Finish(r, TRUE, outcome[r])
  /\ UNCHANGED <<response, batch, notified, timer, future, yields, up>>

(***************************************************************************)
(* The operation yields a progress report, which extends its deadline even *)
(* if it passed since Trio has last looked at it, and even if the cleanup  *)
(* has dropped the command.                                                *)
(***************************************************************************)
ReportProgress(r) ==
  /\ up
  /\ task[r] = "running"
  /\ yields[r] < MaxYields
  /\ InProgress(r)
  /\ timer' = [timer EXCEPT ![r] = "ahead"]
  /\ yields' = [yields EXCEPT ![r] = @ + 1]
  /\ told' = [told EXCEPT ![r] = Append(@, "progress")]
  /\ UNCHANGED <<response, batch, entries, outcome, notified, scope, future, task, up>>

\* Mutant: the deadline keeps running while the operation is suspended.
SuspendOperation_KeepsDeadline(r) ==
  /\ up
  /\ task[r] = "running"
  /\ yields[r] < MaxYields
  /\ future[r] = "none"
  /\ InProgress(r)
  /\ future' = [future EXCEPT ![r] = "pending"]
  /\ task' = [task EXCEPT ![r] = "waiting"]
  /\ yields' = [yields EXCEPT ![r] = @ + 1]
  /\ told' = [told EXCEPT ![r] = Append(@, "suspended")]
  /\ UNCHANGED <<response, batch, entries, outcome, notified, timer, scope, up>>

(***************************************************************************)
(* The operation yields a request for input from the client and its task   *)
(* waits for the answer without a deadline.                                *)
(***************************************************************************)
SuspendOperation(r) ==
  /\ up
  /\ task[r] = "running"
  /\ yields[r] < MaxYields
  /\ future[r] = "none"
  /\ InProgress(r)
  /\ future' = [future EXCEPT ![r] = "pending"]
  /\ timer' = [timer EXCEPT ![r] = "infinite"]
  /\ task' = [task EXCEPT ![r] = "waiting"]
  /\ yields' = [yields EXCEPT ![r] = @ + 1]
  /\ told' = [told EXCEPT ![r] = Append(@, "suspended")]
  /\ UNCHANGED <<response, batch, entries, outcome, notified, scope, up>>

(***************************************************************************)
(* Suspending a command that the user has cancelled: the future is created *)
(* before set_deadline_from_now() raises, and nobody resets it.            *)
(***************************************************************************)
SuspendCancelled(r) ==
  /\ up
  /\ task[r] = "running"
  /\ future[r] = "none"
  /\ ~InProgress(r)
  /\ future' = [future EXCEPT ![r] = "pending"]
  /\ Finish(r, FALSE, outcome[r])
  /\ UNCHANGED <<response, batch, notified, timer, yields, up>>

(***************************************************************************)
(* The client has answered: leaving suspended() arms the deadline again.   *)
(***************************************************************************)
WakeWithValue(r) ==
  /\ up
  /\ task[r] = "waiting"
  /\ future[r] = "set"
  /\ InProgress(r)
  /\ future' = [future EXCEPT ![r] = "none"]
  /\ timer' = [timer EXCEPT ![r] = "ahead"]
  /\ task' = [task EXCEPT ![r] = "running"]
  /\ UNCHANGED <<response, batch, entries, outcome, notified, scope, yields, told, up>>

(***************************************************************************)
(* The scope was cancelled by its deadline while the operation was about   *)
(* to suspend itself.                                                      *)
(***************************************************************************)
WakeExpired(r) ==
  /\ up
  /\ task[r] = "waiting"
  /\ scope[r]
  /\ InProgress(r)
  /\ future' = [future EXCEPT ![r] = "none"]
  /\ timer' = [timer EXCEPT ![r] = "ahead"]
  /\ Finish(r, TRUE, outcome[r])
  /\ UNCHANGED <<response, batch, notified, yields, up>>

(***************************************************************************)
(* The user cancelled the suspended command: leaving suspended() raises a  *)
(* RuntimeError, which replaces the Cancelled exception if there was one,  *)
(* so the cancel scope does not absorb anything.                           *)
(***************************************************************************)
WakeCancelled(r) ==
  /\ up
  /\ task[r] = "waiting"
  /\ scope[r]
  /\ ~InProgress(r)
  /\ Finish(r, FALSE, outcome[r])
  /\ UNCHANGED <<response, batch, notified, timer, future, yields, up>>
-----------------------------------------------------------------------------
OperationStep(r) ==
  \/ Complete(r) \/ DeliverCancel(r)
  \/ ReportProgress(r) \/ SuspendOperation(r) \/ SuspendCancelled(r)

Wake(r) == WakeWithValue(r) \/ WakeExpired(r) \/ WakeCancelled(r)

Next ==
  \/ \E q \in Requests :
       \/ BeginRequest(q) \/ EnqueueResponse(q)
       \/ SendResponse(q) \/ LoseResponse(q)
       \/ \E r \in Receipts : New(q, r)
  \/ \E r \in Receipts :
       \/ Cancel(r) \/ Resume(r)
       \/ DeadlinePasses(r) \/ TrioDeadline(r)
       \/ ExecuteValue(r) \/ ExecuteAsync(r) \/ Start(r)
       \/ OperationStep(r) \/ Wake(r)
  \/ Cleanup

Spec == Init /\ [][Next]_vars

(***************************************************************************)
(* Time goes on, Trio runs every task that is ready, and the cleanup task  *)
(* is woken by its period.  Nothing is assumed about the clients, about    *)
(* the channels, or about the operations, which may block forever or       *)
(* ignore a cancellation.                                                  *)
(***************************************************************************)
Fairness ==
  /\ WF_vars(Cleanup)
  /\ \A r \in Receipts :
       /\ WF_vars(DeadlinePasses(r))
       /\ WF_vars(TrioDeadline(r))
       /\ WF_vars(ExecuteValue(r) \/ ExecuteAsync(r))
       /\ WF_vars(Start(r))
       /\ WF_vars(Wake(r))

FairSpec == Spec /\ Fairness
-----------------------------------------------------------------------------
TypeOK ==
  /\ response \in [Requests -> {"none", "open", "pending", "sent", "lost"}]
  /\ batch \in [Requests -> SUBSET Receipts]
  /\ entries \in SUBSET Receipts
  /\ outcome \in [Receipts -> Outcome]
  /\ notified \in [Receipts -> BOOLEAN]
  /\ timer \in [Receipts -> {"ahead", "passed", "infinite"}]
  /\ scope \in [Receipts -> BOOLEAN]
  /\ future \in [Receipts -> {"none", "pending", "set"}]
  /\ task \in [Receipts -> TaskState]
  /\ yields \in [Receipts -> 0..MaxYields]
  /\ told \in [Receipts -> Seq(Notice)]
  /\ up \in BOOLEAN

Where(s, notices) == {i \in 1..Len(s) : s[i] \in notices}

Said(r, notices) == Where(told[r], notices)

(***************************************************************************)
(* A client is told at most once that a command is over, although the      *)
(* task of the operation, the executor and the cleanup all may tell it     *)
(* (_finish() and _cleanup() use the entry as the right to do so).         *)
(***************************************************************************)
AtMostOneTerminal ==
  \A r \in Receipts : \A i, j \in Said(r, Terminal) : i = j

(***************************************************************************)
(* Progress reports, suspensions and results are sent later than the       *)
(* response that contains the receipt they refer to: the point of starting *)
(* the operation in when_sent().                                           *)
(***************************************************************************)
NoticesFollowReceipt ==
  \A r \in Receipts :
    \A i \in Said(r, {"progress", "suspended", "finished"}) :
      \E j \in Said(r, {"receipt"}) : j < i

(***************************************************************************)
(* A command that the user cancelled in time is never reported as finished *)
(* or timed out, whichever way its operation ends afterwards.              *)
(***************************************************************************)
CancelIsSilent ==
  \A r \in Receipts : outcome[r] = "cancelledByUser" => Said(r, Terminal) = {}

(***************************************************************************)
(* A command handed to the executor leaves the manager only with an answer *)
(* to the client, unless the user cancelled it.                            *)
(***************************************************************************)
GoneIsAnswered ==
  \A r \in Receipts :
    notified[r] /\ r \notin entries
      => outcome[r] = "cancelledByUser" \/ Said(r, Terminal) # {}

(***************************************************************************)
(* What becomes of a command handed to the executor is told to the client  *)
(* exactly if the user did not cancel it, whichever of the operation, the  *)
(* cancellation and the cleanup comes first.                               *)
(***************************************************************************)
AnsweredUnlessCancelled == CancelIsSilent /\ GoneIsAnswered

(***************************************************************************)
(* While an operation waits for input from the client, nothing times it    *)
(* out: the client gets no notice until the task leaves suspended().       *)
(***************************************************************************)
WaitingIsUndisturbed ==
  [][\A r \in Receipts :
       task[r] = "waiting" /\ task'[r] = "waiting" => told'[r] = told[r]]_vars

(***************************************************************************)
(* No command stays in the manager for ever, even if its response is never *)
(* sent or its operation blocks, except while it waits for the client.     *)
(***************************************************************************)
NoLeak ==
  \A r \in Receipts :
    r \in entries ~> r \notin entries \/ task[r] = "waiting" \/ ~up

Verdict(s) == {s[i] : i \in Where(s, Terminal)}

(***************************************************************************)
(* What a client is promised about its commands, see CommandPromise: the   *)
(* manager as a whole, with its queue, tasks and timers, gives each known  *)
(* command one verdict unless the client withdrew it.                      *)
(***************************************************************************)
Promise == INSTANCE CommandPromise WITH
  phase     <- [r \in Receipts |-> CASE task[r] = "none" -> "absent"
                                    [] r \in entries -> "open"
                                    [] OTHER -> "ended"],
  known     <- [r \in Receipts |-> Said(r, {"receipt"}) # {}],
  withdrawn <- [r \in Receipts |-> outcome[r] = "cancelledByUser"],
  verdict   <- [r \in Receipts |-> Verdict(told[r])]

KeepsPromise == Promise!Spec
=============================================================================
