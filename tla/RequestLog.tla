------------------------------- MODULE RequestLog -------------------------------
(***************************************************************************)
(* src/reqlog.rs: every exchange is registered in memory when it comes in, *)
(* becomes one line of the file of the day it ends on, and is deregistered *)
(* after that.  It ends with its body, with an error of the upstream, or   *)
(* when the client hangs up and the record is dropped.                     *)
(*                                                                         *)
(* A line is two pieces, for a write may be cut anywhere; the newline is   *)
(* at the end of the second.                                               *)
(***************************************************************************)
EXTENDS Integers, Sequences, SequencesExt

CONSTANTS
  Req,      \* exchanges, named by the ids of next_id
  NoReq,    \* the holder of WRITER when it is free
  MaxDay,   \* bound: the days one behaviour lasts
  MaxFaults \* bound: the failures in one behaviour

Day == 1..MaxDay

ASSUME LogAssumption == MaxDay \in Nat \ {0} /\ MaxFaults \in Nat /\ NoReq \notin Req

VARIABLES
  today,     \* the date
  stage,     \* how far each exchange has come
  end,       \* the outcome and the day each exchange is recorded with
  done,      \* `done` of its Record
  inflight,  \* INFLIGHT
  made,      \* the days that have a file
  file,      \* what is in the file of each day
  writer,    \* the day WRITER has open, 0 for None
  writing,   \* the holder of WRITER
  outcome,   \* history: how the exchange really ended
  failed,    \* history: the exchanges whose line could not be written
  faults     \* history: how many failures there were

logVars == <<today, stage, end, done, inflight, made, file, writer, writing,
             outcome, failed, faults>>

(* The upstream's error is an end like another, with a text of its own. *)
Outcome == {"ended", "client gone"}
Piece == [req : Req, why : Outcome, last : BOOLEAN]
NoEnd == [why |-> "ended", day |-> 0]

(* "lost": the process ended before the exchange was recorded. *)
Stage == {"new", "open", "flush", "cut", "written", "drop", "gone", "lost"}

LogTypeOK ==
  /\ today \in Day
  /\ stage \in [Req -> Stage]
  /\ end \in [Req -> [why : Outcome, day : 0..MaxDay]]
  /\ done \in [Req -> BOOLEAN]
  /\ inflight \in SUBSET Req
  /\ made \in SUBSET Day
  /\ file \in [Day -> Seq(Piece)]
  /\ writer \in 0..MaxDay
  /\ writing \in Req \cup {NoReq}
  /\ outcome \in [Req -> Outcome \cup {"open"}]
  /\ failed \in SUBSET Req
  /\ faults \in 0..MaxFaults

LogInit ==
  /\ today = 1
  /\ stage = [r \in Req |-> "new"]
  /\ end = [r \in Req |-> NoEnd]
  /\ done = [r \in Req |-> FALSE]
  /\ inflight = {}
  /\ made = {}
  /\ file = [d \in Day |-> <<>>]
  /\ writer = 0
  /\ writing = NoReq
  /\ outcome = [r \in Req |-> "open"]
  /\ failed = {}
  /\ faults = 0

Fault == faults < MaxFaults /\ faults' = faults + 1
Become(r, from, to) == stage[r] = from /\ stage' = [stage EXCEPT ![r] = to]

--------------------------------------------------------------------------------
(* An exchange. *)

(* dispatch: `start` registers it. *)
Start(r) ==
  /\ Become(r, "new", "open")
  /\ inflight' = inflight \cup {r}
  /\ UNCHANGED <<today, end, done, made, file, writer, writing, outcome, failed, faults>>

(* Mutant: `done` is not looked at. *)
FlushAgain(r, why) ==
  /\ stage' = [stage EXCEPT ![r] = "flush"]
  /\ done' = [done EXCEPT ![r] = TRUE]
  /\ end' = [end EXCEPT ![r] = [why |-> why, day |-> today]]

(* `flush`: the day and the outcome are fixed before the file is opened. *)
Flush(r, why) ==
  IF done[r]
  THEN stage' = [stage EXCEPT ![r] = "gone"] /\ UNCHANGED <<done, end>>
  ELSE /\ stage' = [stage EXCEPT ![r] = "flush"]
       /\ done' = [done EXCEPT ![r] = TRUE]
       /\ end' = [end EXCEPT ![r] = [why |-> why, day |-> today]]

(* Mutant: the record is deregistered as soon as the exchange has ended. *)
EndsUnlisted(r, why) ==
  /\ Flush(r, why)
  /\ outcome' = [outcome EXCEPT ![r] = why]
  /\ inflight' = inflight \ {r}
  /\ UNCHANGED <<today, made, file, writer, writing, failed, faults>>

Ends(r, why) ==
  /\ Flush(r, why)
  /\ outcome' = [outcome EXCEPT ![r] = why]
  /\ UNCHANGED <<today, inflight, made, file, writer, writing, failed, faults>>

(* A response in memory is recorded at once, a stream when it is over or broken. *)
Finish(r) == stage[r] = "open" /\ Ends(r, "ended")
HangUp(r) == stage[r] = "open" /\ Ends(r, "client gone")

(* The record is dropped after it was flushed. *)
Drop(r) ==
  /\ stage[r] = "drop"
  /\ Flush(r, "client gone")
  /\ UNCHANGED <<today, inflight, made, file, writer, writing, outcome, failed, faults>>

--------------------------------------------------------------------------------
(* `append`, with WRITER held. *)

Text(r, last) == [req |-> r, why |-> end[r].why, last |-> last]

(* Mutant: the line goes to the file of the day it is written on. *)
WroteToday(r, last) == file' = [file EXCEPT ![today] = Append(@, Text(r, last))]

Wrote(r, last) == file' = [file EXCEPT ![end[r].day] = Append(@, Text(r, last))]

OpenError(r) ==
  /\ Fault
  /\ Become(r, "flush", "written")
  /\ writing = NoReq /\ writer # end[r].day
  /\ failed' = failed \cup {r}
  /\ UNCHANGED <<today, end, done, inflight, made, file, writer, writing, outcome>>

(* Mutant: WRITER is not locked. *)
WriteSomeUnlocked(r) ==
  /\ Become(r, "flush", "cut")
  /\ writing' = r
  /\ writer' = end[r].day
  /\ made' = made \cup {end[r].day}
  /\ Wrote(r, FALSE)
  /\ UNCHANGED <<today, end, done, inflight, outcome, failed, faults>>

(* The file of the day is open already or is opened now; some text arrives. *)
WriteSome(r) ==
  /\ Become(r, "flush", "cut")
  /\ writing = NoReq
  /\ writing' = r
  /\ writer' = end[r].day
  /\ made' = made \cup {end[r].day}
  /\ Wrote(r, FALSE)
  /\ UNCHANGED <<today, end, done, inflight, outcome, failed, faults>>

WriteRest(r) ==
  /\ Become(r, "cut", "written")
  /\ writing' = NoReq
  /\ Wrote(r, TRUE)
  /\ UNCHANGED <<today, end, done, inflight, made, writer, outcome, failed, faults>>

(* The write fails, with some text in the file or with none. *)
WriteError(r) ==
  /\ Fault
  /\ \/ /\ Become(r, "flush", "written")
        /\ writing = NoReq
        /\ made' = made \cup {end[r].day}
     \/ /\ Become(r, "cut", "written")
        /\ UNCHANGED made
  /\ writing' = NoReq
  /\ writer' = 0
  /\ failed' = failed \cup {r}
  /\ UNCHANGED <<today, end, done, inflight, file, outcome>>

Deregister(r) ==
  /\ Become(r, "written", "drop")
  /\ inflight' = inflight \ {r}
  /\ UNCHANGED <<today, end, done, made, file, writer, writing, outcome, failed, faults>>

(* The daemon's process ends, and the next one starts with nothing in memory. *)
DaemonExit ==
  /\ Fault
  /\ stage' = [r \in Req |-> IF stage[r] \in {"new", "drop", "gone"} THEN stage[r] ELSE "lost"]
  /\ inflight' = {}
  /\ writer' = 0
  /\ writing' = NoReq
  /\ UNCHANGED <<today, end, done, made, file, outcome, failed>>

Midnight ==
  /\ today < MaxDay
  /\ today' = today + 1
  /\ UNCHANGED <<stage, end, done, inflight, made, file, writer, writing, outcome, failed, faults>>

LogNext ==
  \/ \E r \in Req :
       \/ Start(r) \/ Finish(r) \/ HangUp(r) \/ Drop(r)
       \/ OpenError(r) \/ WriteSome(r) \/ WriteRest(r) \/ WriteError(r) \/ Deregister(r)
  \/ DaemonExit
  \/ Midnight

--------------------------------------------------------------------------------
(* What is in a file. *)

(* Read from position `from` on, the piece at i ends a line that is one record. *)
ReadableAt(text, from, i) ==
  /\ i \in (from + 2)..Len(text)
  /\ text[i].last /\ ~text[i - 1].last
  /\ i - 2 > from => text[i - 2].last

(* The records of the lines that end after position `from`, in their order. *)
Records(text, from) ==
  LET upTo[i \in 0..Len(text)] ==
        IF i = 0 THEN <<>>
        ELSE IF ReadableAt(text, from, i) THEN Append(upTo[i - 1], text[i].req)
        ELSE upTo[i - 1]
  IN upTo[Len(text)]

Recorded(r) == \E d \in Day : \E i \in DOMAIN file[d] : file[d][i].req = r /\ file[d][i].last

(***************************************************************************)
(* "一次 req/res 一行 JSON": an exchange has one line at most, in the file *)
(* of the day it is recorded with, and the line says how it ended, however *)
(* the stream's end, the upstream's error and the drop come together.      *)
(***************************************************************************)
OneLineEach ==
  \A d, e \in Day : \A i \in DOMAIN file[d], j \in DOMAIN file[e] :
    LET p == file[d][i] IN
    /\ p.why = outcome[p.req] /\ end[p.req].day = d
    /\ file[e][j].req = p.req /\ file[e][j].last = p.last => d = e /\ i = j

(***************************************************************************)
(* "单次 write: O_APPEND 下不与其他写入穿插": a line that was written is   *)
(* read back as one record, unless a text that was cut off is before it.   *)
(***************************************************************************)
LinesWhole ==
  faults = 0 =>
    \A d \in Day : \A i \in DOMAIN file[d] : file[d][i].last => ReadableAt(file[d], 0, i)

(* The log says of each exchange once, and readably, how it ended.           *)
RecordedRight == OneLineEach /\ LinesWhole

(***************************************************************************)
(* reqlog.rs "不会两边都没有": from its start on an exchange is in the     *)
(* list or has its line in a file, unless the daemon's process ended or    *)
(* the writing failed.                                                     *)
(***************************************************************************)
ListedOrRecorded ==
  \A r \in Req :
    stage[r] \in {"new", "lost"} \/ r \in inflight \cup failed \/ Recorded(r)

--------------------------------------------------------------------------------
(* RequestLog is TrafficLog with the texts and the mutex hidden. *)

PhaseOf(r) ==
  CASE stage[r] \in {"new", "open"} -> stage[r]
    [] stage[r] \in {"flush", "cut"} -> "ended"
    [] OTHER -> "over"

(* The pieces of a day's file but the one that is being written to its end. *)
Settled(d) == Len(file[d]) - (IF writing \in Req /\ end[writing].day = d THEN 1 ELSE 0)

Torn(d) == Settled(d) > 0 /\ ~file[d][Settled(d)].last

Log == INSTANCE TrafficLog
         WITH phase <- [r \in Req |-> PhaseOf(r)],
              due <- [r \in Req |-> end[r].day],
              listed <- inflight,
              book <- [d \in Day |-> Records(file[d], 0)],
              torn <- {d \in Day : Torn(d)}
================================================================================
