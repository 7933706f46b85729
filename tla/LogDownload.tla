------------------------------ MODULE LogDownload ------------------------------
(***************************************************************************)
(* Download of logs and of their list from one MAVLink drone               *)
(* (log_download.py, ChunkAssembler in utils.py).                          *)
(*                                                                         *)
(* The drone answers a request with a stream of packets.  The first packet *)
(* of the right type that arrives is the reply to the request, whichever   *)
(* request the drone has sent it for; all packets are also put in the      *)
(* channel of the operation in progress.  Requests and packets are lost,   *)
(* and packets arrive late and in any order.  A log is a number of units   *)
(* of data, of which each LOG_DATA packet has one, at an offset that       *)
(* counts units.                                                           *)
(***************************************************************************)
EXTENDS Integers, Sequences, FiniteSets, FiniteSetsExt

CONSTANTS
  Sizes,       \* how many units each log of the drone has, by its number
  MaxRange,    \* units that are requested at once (MAX_CHUNK_SIZE)
  Retries,     \* how many times a request is sent again
  MaxCalls     \* bound: operations in a behaviour

Logs == DOMAIN Sizes

ASSUME LogsAssumption ==
  Logs \subseteq Nat \ {0} /\ IsFiniteSet(Logs) /\ \A l \in Logs : Sizes[l] \in Nat
ASSUME BoundsAssumption == MaxRange \in Nat \ {0} /\ {Retries, MaxCalls} \subseteq Nat

VARIABLES
  air,         \* packets that the drone has sent and that may still arrive
  log,         \* _log_being_downloaded; List while the list is retrieved
  stage,       \* what the operation does
  tries,       \* how often the request that waits is sent again at most
  reply,       \* the future of the expected packet
  channel,     \* _message_channel; packets arrive in any order anyway
  found,       \* the logs of the list
  size,        \* size of the chunk assembler
  body,        \* data that was flushed, in order
  pending,     \* chunks with a gap in front of them
  range,       \* the end of the range that was requested
  calls,       \* operations that were begun
  lost,        \* a request or an entry was lost since the list was asked for
               \* (history)
  stray        \* a packet of another log has reached a download (history)

logVars == <<air, log, stage, tries, reply, channel, found, size, body, pending,
          range, calls, lost, stray>>
assembler == <<size, body, pending, range>>
history == <<calls, lost, stray>>

None == 0
List == -1
Entry(l) == [type |-> "LOG_ENTRY", id |-> l, ofs |-> 0]
Data(l, o) == [type |-> "LOG_DATA", id |-> l, ofs |-> o]
Entries == {Entry(l) : l \in Logs}
LogData(l) == {Data(l, o) : o \in 0 .. Sizes[l] - 1}
Packets == Entries \cup UNION {LogData(l) : l \in Logs}
NoPacket == [type |-> "none", id |-> None, ofs |-> 0]

Asking == stage \in {"asking for list", "asking for size", "asking for data"}
Busy == Asking \/ stage \in {"reading list", "reading data"}

LogTypeOK ==
  /\ air \subseteq Packets
  /\ log \in Logs \cup {None, List}
  /\ stage \in {"idle", "asking for list", "reading list", "asking for size",
                "asking for data", "reading data", "done", "failed"}
  /\ tries \in 0 .. Retries
  /\ reply \in Packets \cup {NoPacket}
  /\ channel \subseteq Packets
  /\ found \subseteq Logs
  /\ size \in Nat /\ range \in Nat
  /\ body \in Seq(Packets) /\ pending \subseteq Packets
  /\ calls \in 0 .. MaxCalls
  /\ lost \in BOOLEAN /\ stray \in BOOLEAN

LogInit ==
  /\ air = {}
  /\ log = None /\ stage = "idle" /\ tries = 0 /\ reply = NoPacket
  /\ channel = {}
  /\ found = {} /\ size = 0 /\ body = <<>> /\ pending = {} /\ range = 0
  /\ calls = 0 /\ lost = FALSE /\ stray = FALSE

(***************************************************************************)
(* The link.                                                               *)
(***************************************************************************)
(* _sender(): a request is lost, or the drone sends what it asks for.      *)
Sent(packets) ==
  \/ air' = air \cup packets /\ UNCHANGED lost
  \/ air' = air /\ lost' = TRUE

(* A packet gets to the server.  It resolves the future of a task that     *)
(* waits for its type, and is put in the channel.                          *)
Expected(p) ==
  IF stage = "asking for data" THEN p.type = "LOG_DATA" ELSE p.type = "LOG_ENTRY"

Arrive(p) ==
  /\ p \in air
  /\ air' = air \ {p}
  /\ reply' = IF Asking /\ reply = NoPacket /\ Expected(p) THEN p ELSE reply
  /\ channel' = IF log = None THEN channel ELSE channel \cup {p}
  /\ stray' = (stray \/ (log \in Logs /\ p.id # log))
  /\ UNCHANGED <<log, stage, tries, assembler, found, calls, lost>>

Lose(p) ==
  /\ p \in air
  /\ air' = air \ {p}
  /\ lost' = (lost \/ p.type = "LOG_ENTRY")
  /\ UNCHANGED <<log, stage, tries, reply, channel, found, assembler, calls, stray>>

(***************************************************************************)
(* ChunkAssembler.                                                         *)
(***************************************************************************)
Flushed == Len(body)

(* The first unit behind the next one that none of the chunks has.         *)
Gap(chunks) ==
  Min((Flushed + 1 .. Flushed + Cardinality(chunks) + 1) \ {q.ofs : q \in chunks})

(* The next unit and all that follow it, one of each.                      *)
Ready(p) ==
  [i \in 1 .. Gap(pending \cup {p}) - Flushed |->
     IF i = 1 THEN p ELSE CHOOSE q \in pending : q.ofs = Flushed + i - 1]

\* Mutant: what arrives is appended, whatever its offset.
AddChunk_InOrderOfArrival(p) == body' = Append(body, p) /\ UNCHANGED pending

(* add_chunk(): data that was flushed before is dropped, data behind a gap *)
(* waits, and the next unit is flushed together with all that follow it.   *)
AddChunk(p) ==
  \/ /\ p.ofs < Flushed
     /\ UNCHANGED <<body, pending>>
  \/ /\ p.ofs > Flushed
     /\ pending' = pending \cup {p}
     /\ UNCHANGED body
  \/ /\ p.ofs = Flushed
     /\ body' = body \o Ready(p)
     /\ pending' = {q \in pending : q.ofs >= Gap(pending \cup {p})}

\* Mutant: a range may go beyond the end of the log.
NextEnd_PastTheEnd(flushed, chunks) == flushed + MaxRange

(* get_next_range(): up to the first chunk behind the gap.                 *)
NextEnd(flushed, chunks) ==
  LET end == IF chunks = {} THEN size ELSE Min({q.ofs : q \in chunks})
  IN  Min({end, flushed + MaxRange})

(***************************************************************************)
(* The operations.                                                         *)
(***************************************************************************)
Ask(packets) ==
  /\ Sent(packets)
  /\ reply' = NoPacket
  /\ tries' = Retries

AskForData(flushed, chunks) ==
  /\ stage' = "asking for data"
  /\ range' = NextEnd(flushed, chunks)
  /\ Ask({p \in LogData(log) : p.ofs \in flushed .. range' - 1})

Stop(outcome) == stage' = outcome /\ UNCHANGED <<air, reply, tries, lost>>

(* get_log_list(): it waits for the listing in progress, if there is one,  *)
(* and is refused during a download.                                       *)
GetLogList ==
  /\ log = None /\ calls < MaxCalls
  /\ log' = List /\ stage' = "asking for list"
  /\ channel' = {} /\ found' = {}
  /\ lost' \in BOOLEAN
  /\ air' = IF lost' THEN air ELSE air \cup Entries
  /\ reply' = NoPacket /\ tries' = Retries
  /\ calls' = calls + 1
  /\ UNCHANGED <<assembler, stray>>

(* get_log(): it is refused during a listing or another download.          *)
GetLog(l) ==
  /\ log = None /\ calls < MaxCalls
  /\ log' = l /\ stage' = "asking for size"
  /\ channel' = {}
  /\ body' = <<>> /\ pending' = {} /\ size' = 0 /\ range' = 0
  /\ Ask({Entry(l)})
  /\ stray' = FALSE
  /\ calls' = calls + 1
  /\ UNCHANGED found

(* _get_log_list_inner(): entries are collected until there are as many as *)
(* the drone has logs.  What is missing is never asked for again.          *)
TakeEntry(p) ==
  /\ found' = found \cup {p.id}
  /\ IF Cardinality(found') >= Cardinality(Logs) THEN Stop("done")
     ELSE Stop("reading list")
  /\ UNCHANGED assembler

ListReply ==
  /\ stage = "asking for list" /\ reply # NoPacket
  /\ TakeEntry(reply)
  /\ UNCHANGED <<log, channel, calls, stray>>

ReadEntry(p) ==
  /\ stage = "reading list" /\ p \in channel
  /\ channel' = channel \ {p}
  /\ \/ p.type = "LOG_ENTRY" /\ TakeEntry(p)
     \/ /\ p.type # "LOG_ENTRY"
        /\ UNCHANGED <<air, stage, tries, reply, found, assembler, lost>>
  /\ UNCHANGED <<log, calls, stray>>

(* _get_single_log_metadata() and the beginning of _get_log_inner().       *)
SizeReply ==
  /\ stage = "asking for size" /\ reply # NoPacket
  /\ size' = Sizes[reply.id]
  /\ \/ size' = 0 /\ Stop("done") /\ UNCHANGED range
     \/ /\ size' > 0
        /\ stage' = "asking for data"
        /\ range' = Min({size', MaxRange})
        /\ Ask({p \in LogData(log) : p.ofs < range'})
  /\ UNCHANGED <<log, channel, found, body, pending, calls, stray>>

(* The loop of _get_log_inner(): a packet is processed, and the next one   *)
(* is awaited until the range is complete.  Packets of other logs are not  *)
(* left out.                                                               *)
TakeChunk(p) ==
  /\ AddChunk(p)
  /\ \/ Len(body') >= size /\ Stop("done") /\ UNCHANGED range
     \/ Len(body') < range /\ Stop("reading data") /\ UNCHANGED range
     \/ Len(body') >= range /\ Len(body') < size /\ AskForData(Len(body'), pending')
  /\ UNCHANGED size

DataReply ==
  /\ stage = "asking for data" /\ reply # NoPacket
  /\ TakeChunk(reply)
  /\ UNCHANGED <<log, channel, found, calls, stray>>

ReadChunk(p) ==
  /\ stage = "reading data" /\ p \in channel
  /\ channel' = channel \ {p}
  /\ \/ p.type = "LOG_DATA" /\ TakeChunk(p)
     \/ /\ p.type # "LOG_DATA"
        /\ UNCHANGED <<air, stage, tries, reply, assembler, lost>>
  /\ UNCHANGED <<log, found, calls, stray>>

\* Mutant: nothing is asked for again unless something came from behind it.
Silent_AtGap == stage = "reading data" /\ channel = {} /\ pending # {}

Silent == stage = "reading data" /\ channel = {}

(* move_on_after(): no packet for three seconds; the next range is asked   *)
(* for.  (When the list is read, nothing is done about it.)                *)
ReadTimeout ==
  /\ Silent
  /\ AskForData(Flushed, pending)
  /\ UNCHANGED <<log, channel, found, size, body, pending, calls, stray>>

(* _send_and_wait(): no reply in time; the request is sent again.          *)
Requested ==
  CASE stage = "asking for list" -> Entries
    [] stage = "asking for size" -> {Entry(log)}
    [] stage = "asking for data" ->
         {p \in LogData(log) : p.ofs \in Flushed .. range - 1}

Again == tries > 0

ReplyTimeout ==
  /\ Asking /\ reply = NoPacket
  /\ \/ /\ Again
        /\ tries' = tries - 1
        /\ Sent(Requested)
        /\ UNCHANGED <<stage, reply>>
     \/ ~Again /\ Stop("failed")
  /\ UNCHANGED <<log, channel, found, assembler, calls, stray>>

(* The operation ends: LOG_REQUEST_END is sent, which the drone may not    *)
(* get, and what it has sent before still arrives.                         *)
End ==
  /\ stage \in {"done", "failed"} /\ log # None
  /\ log' = None
  /\ channel' = {}
  /\ UNCHANGED <<air, stage, tries, reply, found, assembler, history>>

(* The user cancels the operation; LOG_REQUEST_END is not sent then.       *)
Cancel ==
  /\ Busy
  /\ log' = None /\ stage' = "idle"
  /\ channel' = {} /\ reply' = NoPacket
  /\ UNCHANGED <<air, tries, found, assembler, history>>

LogNext ==
  \/ GetLogList
  \/ \E l \in Logs : GetLog(l)
  \/ ListReply \/ SizeReply \/ DataReply
  \/ \E p \in channel : ReadEntry(p) \/ ReadChunk(p)
  \/ ReadTimeout \/ ReplyTimeout
  \/ End \/ Cancel
  \/ \E p \in air : Arrive(p) \/ Lose(p)

LogSpec == LogInit /\ [][LogNext]_logVars

(* Tasks run and timers fire; a packet that is sent again and again        *)
(* arrives some day.  No user cancels.                                     *)
FairLogSpec ==
  /\ LogSpec
  /\ WF_logVars(ListReply \/ SizeReply \/ DataReply)
  /\ WF_logVars(\E p \in channel : ReadEntry(p) \/ ReadChunk(p))
  /\ WF_logVars(ReadTimeout \/ ReplyTimeout) /\ WF_logVars(End)
  /\ \A p \in Packets : SF_logVars(Arrive(p))
-------------------------------------------------------------------------------
(* A log that is declared downloaded is the log that was asked for, whole  *)
(* and in order, whatever was lost, late, sent twice or left over from an  *)
(* operation before, unless a packet of another log came in between.       *)
LogIsRight ==
  stage = "done" /\ log \in Logs /\ ~stray =>
    body = [i \in 1 .. Sizes[log] |-> Data(log, i - 1)]

(* A download ends, with the log or with an error, unless a packet of      *)
(* another log came in between; so does the listing of the logs, if all    *)
(* requests for it and all entries of it get through.                      *)
TransfersEnd ==
  /\ stage \in {"asking for size", "asking for data", "reading data"}
       ~> stage \in {"idle", "done", "failed"} \/ stray
  /\ stage \in {"asking for list", "reading list"}
       ~> stage \in {"idle", "done", "failed"} \/ lost

(* The download and the listing do what LogTransfer promises: one job at a *)
(* time, nothing of it lost or taken twice whatever arrives, and done when *)
(* nothing is missing and not before.                                      *)
Outcome ==
  IF log = None THEN "none" ELSE IF stage \in {"done", "failed"} THEN stage ELSE "open"
Spoiled == log \in Logs /\ stray
Gathered ==
  IF log = List THEN Cardinality(found)
  ELSE IF log \in Logs /\ ~stray THEN Flushed ELSE 0

Whole ==
  [j \in Logs \cup {List} |-> IF j = List THEN Cardinality(Logs) ELSE Sizes[j]]

Transfer == INSTANCE LogTransfer WITH
  job <- log, outcome <- Outcome, have <- Gathered, spoiled <- Spoiled

KeepsTransfer == Transfer!Spec
================================================================================
