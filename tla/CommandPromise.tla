--------------------------- MODULE CommandPromise ---------------------------
(***************************************************************************)
(* What the command manager (commands.py) promises to the client that      *)
(* started an asynchronous command, without tasks, deadlines and queues.   *)
(*                                                                         *)
(* A command is open from its registration to its end.  A client that      *)
(* knows the receipt gets exactly one verdict, "finished" or "timeout",    *)
(* unless it withdrew the command first, in which case it gets none.  A    *)
(* client that does not know the receipt is never told "finished".         *)
(***************************************************************************)
CONSTANTS Receipts   (* receipt identifiers *)

VARIABLES
  phase,       (* receipt -> "absent", "open" or "ended"                    *)
  known,       (* receipt -> has its response been sent                     *)
  withdrawn,   (* receipt -> did the client cancel it in time               *)
  verdict      (* receipt -> set of verdicts told to the client             *)

vars == <<phase, known, withdrawn, verdict>>

Init ==
  /\ phase     = [r \in Receipts |-> "absent"]
  /\ known     = [r \in Receipts |-> FALSE]
  /\ withdrawn = [r \in Receipts |-> FALSE]
  /\ verdict   = [r \in Receipts |-> {}]

Register(r) ==
  /\ phase[r] = "absent"
  /\ phase' = [phase EXCEPT ![r] = "open"]
  /\ UNCHANGED <<known, withdrawn, verdict>>

(***************************************************************************)
(* One response may carry the receipts of several commands.                *)
(***************************************************************************)
Announce(R) ==
  /\ \A r \in R : phase[r] # "absent" /\ ~known[r]
  /\ known' = [r \in Receipts |-> known[r] \/ r \in R]
  /\ UNCHANGED <<phase, withdrawn, verdict>>

Withdraw(r) ==
  /\ phase[r] = "open"
  /\ ~withdrawn[r]
  /\ withdrawn' = [withdrawn EXCEPT ![r] = TRUE]
  /\ UNCHANGED <<phase, known, verdict>>

(***************************************************************************)
(* Several commands may expire in one cleanup.                             *)
(***************************************************************************)
Expire(R) ==
  /\ \A r \in R : phase[r] = "open"
  /\ phase' = [r \in Receipts |-> IF r \in R THEN "ended" ELSE phase[r]]
  /\ verdict' = [r \in Receipts |->
                   IF r \in R /\ ~withdrawn[r] THEN {"timeout"} ELSE verdict[r]]
  /\ UNCHANGED <<known, withdrawn>>

Finish(r) ==
  /\ phase[r] = "open"
  /\ known[r]
  /\ ~withdrawn[r]
  /\ phase' = [phase EXCEPT ![r] = "ended"]
  /\ verdict' = [verdict EXCEPT ![r] = {"finished"}]
  /\ UNCHANGED <<known, withdrawn>>

Next ==
  \/ \E r \in Receipts : Register(r) \/ Withdraw(r) \/ Finish(r)
  \/ \E R \in SUBSET Receipts : Announce(R) \/ Expire(R)

Spec == Init /\ [][Next]_vars
=============================================================================
