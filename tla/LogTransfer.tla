------------------------------ MODULE LogTransfer ------------------------------
(***************************************************************************)
(* What the log downloader (log_download.py) promises to those who ask for *)
(* the logs of a drone, without packets, requests, chunks and timeouts.    *)
(*                                                                         *)
(* There is one job at a time: the list of the logs, or one log.  What is  *)
(* gathered for it is never lost or taken twice; a log is gathered from    *)
(* its beginning.  The job is done at the very moment when nothing is      *)
(* missing, or else it fails or is left.  Of a log nothing is promised     *)
(* once data of another one have reached the job.                          *)
(***************************************************************************)
EXTENDS Integers

CONSTANTS
  Whole,       \* how many units each job has: the number of a log, or List
  None,        \* no job
  List         \* the job to list the logs, with an entry for each as a unit

VARIABLES
  job,         \* None, List, or the number of a log
  outcome,     \* "none", "open", "done" or "failed"
  have,        \* how many units have been gathered
  spoiled      \* data of another log have reached the job

vars == <<job, outcome, have, spoiled>>

Init == job = None /\ outcome = "none" /\ have = 0 /\ spoiled = FALSE

Begin(j) ==
  /\ job = None
  /\ job' = j /\ outcome' = "open" /\ have' = 0 /\ spoiled' = FALSE

(* An empty log is done without any data. *)
Gather ==
  /\ outcome = "open" /\ ~spoiled
  /\ have' \in have .. Whole[job]
  /\ outcome' = IF have' = Whole[job] THEN "done" ELSE "open"
  /\ UNCHANGED <<job, spoiled>>

Spoil ==
  /\ job \notin {None, List}
  /\ spoiled' = TRUE /\ have' = 0
  /\ UNCHANGED <<job, outcome>>

DoneSpoiled ==
  /\ outcome = "open" /\ spoiled
  /\ outcome' = "done"
  /\ UNCHANGED <<job, have, spoiled>>

Fail ==
  /\ outcome = "open"
  /\ outcome' = "failed"
  /\ UNCHANGED <<job, have, spoiled>>

Leave ==
  /\ job # None
  /\ job' = None /\ outcome' = "none" /\ have' = 0 /\ spoiled' = FALSE

Next ==
  \/ \E j \in DOMAIN Whole : Begin(j)
  \/ Gather \/ Spoil \/ DoneSpoiled \/ Fail \/ Leave

Spec == Init /\ [][Next]_vars
================================================================================
