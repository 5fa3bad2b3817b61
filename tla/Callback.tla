------------------------------- MODULE Callback -------------------------------
(***************************************************************************)
(* The listener of a login, oauth.rs `wait_for_callback`: a thread for     *)
(* each bound address accepts connections and puts them on a channel, the  *)
(* loop takes one after the other, reads one request line of it and ends   *)
(* with the first that decides the login.  A connection may say nothing,   *)
(* as browsers open them in advance, or bring its line in parts: the read  *)
(* limit is that of one `read`, of which `read_line` makes as many as it   *)
(* takes, so it starts again with each part, and the deadline is looked at *)
(* between two connections only.  Time passes in ticks.                    *)
(***************************************************************************)
EXTENDS Integers, Sequences, FiniteSets

CONSTANTS
  Deadline,   \* CALLBACK_TIMEOUT, in ticks
  ReadLimit,  \* the limit of one read, in ticks
  MaxConn,    \* bound: the connections that are made
  MaxParts    \* bound: the parts that do not end a line; the code has none

ASSUME CallbackAssumption ==
  /\ Deadline \in Nat \ {0} /\ ReadLimit \in Nat \ {0} /\ MaxConn \in Nat
  /\ MaxParts \in Nat

VARIABLES
  channel,   \* the accepted connections not yet taken, and what is known of them
  made,      \* how many have been made
  parts,     \* how many parts have come that do not end a line
  reading,   \* the connection whose request line is read
  readLeft,  \* what is left of the limit of the read under way
  left,      \* what is left until the deadline
  over,      \* history: how long the deadline has been over and no part has come
  outcome    \* how the login's waiting ended

callbackVars == <<channel, made, parts, reading, readLeft, left, over, outcome>>

(* What the line of a connection comes to.  "code" carries a code and the    *)
(* state of this login, "failure" an error or a code with another state,     *)
(* "stray" another path, no code or nothing that parses.                     *)
Kind == {"stray", "failure", "code"}
Decides == {"failure", "code"}

(* `slow`: its line is not there when it is read, and may never be.  `slack`:  *)
(* history, the time left at its arrival that the slow ones ahead of it cannot *)
(* use up, less what the parts they have brought since have added.             *)
Connection == [kind : Kind, slow : BOOLEAN, slack : Int]
NoConnection == [kind |-> "none", slow |-> FALSE, slack |-> 0]

CallbackTypeOK ==
  /\ channel \in Seq(Connection) /\ Len(channel) <= MaxConn
  /\ made \in 0..MaxConn /\ parts \in 0..MaxParts
  /\ reading \in Connection \cup {NoConnection}
  /\ readLeft \in 0..ReadLimit
  /\ left \in 0..Deadline
  /\ over \in Nat
  /\ outcome \in {"closed", "waiting", "timeout"} \cup Decides

CallbackInit ==
  /\ channel = <<>> /\ made = 0 /\ parts = 0
  /\ reading = NoConnection /\ readLeft = 0
  /\ left = 0 /\ over = 0
  /\ outcome = "closed"

(* bind_callback: one of the two addresses is enough. *)
Listen ==
  /\ outcome = "closed"
  /\ outcome' = "waiting"
  /\ left' = Deadline
  /\ UNCHANGED <<channel, made, parts, reading, readLeft, over>>

(* The login goes on, or the process is gone. *)
Close ==
  /\ channel' = <<>> /\ made' = 0 /\ parts' = 0
  /\ reading' = NoConnection /\ readLeft' = 0
  /\ left' = 0 /\ over' = 0
  /\ outcome' = "closed"

Waiting == outcome = "waiting"
Free == reading = NoConnection

SlowIn(conns) == Cardinality({i \in DOMAIN conns : conns[i].slow})

Connect(kind, slow) ==
  /\ Waiting /\ made < MaxConn
  /\ made' = made + 1
  /\ LET ahead == SlowIn(channel) * ReadLimit + IF reading.slow THEN readLeft ELSE 0
     IN  channel' = Append(channel, [kind |-> kind, slow |-> slow, slack |-> left - ahead])
  /\ UNCHANGED <<parts, reading, readLeft, left, over, outcome>>

(* Mutant: a read may take all of the time that is left. *)
TakeUnlimited ==
  /\ Waiting /\ Free /\ left > 0 /\ channel # <<>>
  /\ reading' = Head(channel)
  /\ readLeft' = left
  /\ channel' = Tail(channel)
  /\ UNCHANGED <<made, parts, left, over, outcome>>

(* The head of the loop: the deadline is looked at before the channel. *)
Take ==
  /\ Waiting /\ Free /\ left > 0 /\ channel # <<>>
  /\ reading' = Head(channel)
  /\ readLeft' = ReadLimit
  /\ channel' = Tail(channel)
  /\ UNCHANGED <<made, parts, left, over, outcome>>

Timeout ==
  /\ Waiting /\ Free /\ left = 0
  /\ outcome' = "timeout"
  /\ UNCHANGED <<channel, made, parts, reading, readLeft, left, over>>

(* A part of the line arrives, but not its end: the next read has a limit of *)
(* its own, and all that wait lose what has passed of this one.              *)
PartArrives ==
  /\ Waiting /\ reading.slow /\ readLeft \in 1..ReadLimit - 1
  /\ parts < MaxParts
  /\ parts' = parts + 1
  /\ readLeft' = ReadLimit
  /\ channel' = [i \in DOMAIN channel |->
                   [channel[i] EXCEPT !.slack = @ - (ReadLimit - readLeft)]]
  /\ over' = 0
  /\ UNCHANGED <<made, reading, left, outcome>>

(* The line is there, or its end as the connection is closed. *)
Handle ==
  /\ Waiting /\ ~Free
  /\ reading.slow => readLeft > 0
  /\ IF reading.kind \in Decides THEN outcome' = reading.kind ELSE UNCHANGED outcome
  /\ reading' = NoConnection /\ readLeft' = 0
  /\ UNCHANGED <<channel, made, parts, left, over>>

(* A read has brought nothing: whatever the line was to be, the connection *)
(* is given up.                                                            *)
GiveUp ==
  /\ Waiting /\ reading.slow /\ readLeft = 0
  /\ reading' = NoConnection
  /\ UNCHANGED <<channel, made, parts, readLeft, left, over, outcome>>

(* What the loop does at once, before time goes on. *)
Busy == \/ Free /\ (channel # <<>> \/ left = 0)
        \/ ~Free /\ (~reading.slow \/ readLeft = 0)

CallbackTick ==
  /\ Waiting /\ ~Busy
  /\ left' = IF left > 0 THEN left - 1 ELSE 0
  /\ over' = IF left > 0 THEN over ELSE over + 1
  /\ readLeft' = IF Free THEN 0 ELSE readLeft - 1
  /\ UNCHANGED <<channel, made, parts, reading, outcome>>

CallbackNext ==
  \/ \E kind \in Kind, slow \in BOOLEAN : Connect(kind, slow)
  \/ Take \/ Timeout \/ PartArrives \/ Handle \/ GiveUp \/ CallbackTick

--------------------------------------------------------------------------------

(***************************************************************************)
(* oauth.rs `wait_for_callback`, "等待授权回调超时": a wait that is over   *)
(* the deadline goes on only while parts of a line come, each within a     *)
(* read limit.  A callback that came in before the deadline is not left in *)
(* the channel, whatever else the browser has opened, unless slow          *)
(* connections ahead of it can use up the time that was left: a read limit *)
(* each, and what the parts of their lines add to that.                    *)
(***************************************************************************)
CallbackTaken ==
  /\ over <= ReadLimit
  /\ outcome = "timeout" =>
       \A i \in DOMAIN channel : channel[i].kind \in Decides => channel[i].slack <= 0
================================================================================
